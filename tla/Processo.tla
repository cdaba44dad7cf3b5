-------------------------------- MODULE Processo --------------------------------
(***************************************************************************)
(* The life of the processes cmd/api and cmd/worker: start-up, the HTTP    *)
(* server with the handlers it runs, the readiness probe, and the way out. *)
(* executar runs in the main goroutine, ListenAndServe in another, each    *)
(* request in its own, and each check of a readiness probe in one more; a  *)
(* signal may come at any time.                                            *)
(***************************************************************************)
EXTENDS Naturals, FiniteSets

CONSTANTS
  Requisicoes,   \* HTTP requests; each arrives at most once
  Webhooks,      \* those that write in the database
  Prontidoes,    \* those to GET /ready
  MaxConexoes    \* the size of the pool

ASSUME ProcessoAssumption ==
  /\ Webhooks \subseteq Requisicoes /\ Prontidoes \subseteq Requisicoes
  /\ Webhooks \intersect Prontidoes = {}
  /\ IsFiniteSet(Requisicoes)
  /\ MaxConexoes \in Nat \ {0}

VARIABLES
  programa,    \* "api" or "worker"
  fase,        \* where executar is
  codigo,      \* how the process ended
  erro,        \* executar is about to return an error
  sinal,       \* the context of NotifyContext is done
  pool,        \* the pgxpool.Pool
  redis,       \* the redis.Client
  escuta,      \* the goroutine of ListenAndServe
  encerrando,  \* Server.inShutdown
  req,         \* where each request is
  status,      \* the HTTP status written, 0 before
  verif,       \* the checks of each readiness probe
  saudaveis,   \* the dependencies that answer at the moment
  vistas,      \* history: dependencies that answered during each probe
  negadas      \* history: requests that found a dependency closed

principal == <<programa, fase, codigo, erro>>
recursos == <<pool, redis>>
servidor == <<escuta, encerrando>>
pedidos == <<req, status, verif, vistas, negadas>>
vars == <<principal, sinal, recursos, servidor, pedidos, saudaveis>>

Dependencias == {"postgres", "redis"}
Fases == {"config", "executor", "postgres", "redis", "montagem", "servindo",
          "desligando", "fechar_redis", "fechar_pool", "fim"}
Escutas == {"nenhuma", "iniciando", "abrindo", "aceitando", "falhou", "encerrada"}
Verificacoes == {"nenhuma", "verificando", "ocupando", "ok", "falha"}
EmCurso == {"aceita", "tratando", "conexao", "resposta"}
Lugares == EmCurso \union {"fora", "respondida", "abandonada"}

------------------------------------------------------------------------------
Ir(de, para) == fase = de /\ fase' = para

(* executar returns before any of its defers that close something. *)
Sair(de, c) == Ir(de, "fim") /\ codigo' = c

(* executar returns: the deferred calls run in reverse, redis before the pool. *)
Retornar(de, falha) == Ir(de, "fechar_redis") /\ erro' = falha

Vivo == fase # "fim"

(* The connections of the pool in use. *)
Ocupantes == {r \in Requisicoes : req[r] = "conexao" \/ verif[r]["postgres"] = "ocupando"}
HaConexao == pool = "aberto" /\ Cardinality(Ocupantes) < MaxConexoes

IrReq(r, de, para) == Vivo /\ req[r] = de /\ req' = [req EXCEPT ![r] = para]

Responder(r, de, s) ==
  IrReq(r, de, "respondida") /\ status' = [status EXCEPT ![r] = s]

AoFim(r, d, resultado) ==
  verif' = [verif EXCEPT ![r] = [verif[r] EXCEPT ![d] = resultado]]

------------------------------------------------------------------------------
(* The main goroutine *)

(* config.Carregar; the worker then builds its executor. *)
Carregar ==
  /\ \/ Sair("config", "um")
     \/ Ir("config", IF programa = "api" THEN "postgres" ELSE "executor") /\ UNCHANGED codigo
  /\ UNCHANGED <<programa, erro, sinal, recursos, servidor, pedidos, saudaveis>>

MontarExecutor ==
  /\ Sair("executor", "um") \/ (Ir("executor", "postgres") /\ UNCHANGED codigo)
  /\ UNCHANGED <<programa, erro, sinal, recursos, servidor, pedidos, saudaveis>>

(* A failed ping closes the pool; the signal ends its context. *)
ConectarPostgres ==
  /\ \/ Sair("postgres", "um") /\ pool' \in {"nenhum", "fechado"}
     \/ /\ ~sinal /\ "postgres" \in saudaveis
        /\ Ir("postgres", "redis") /\ UNCHANGED codigo
        /\ pool' = "aberto"
  /\ UNCHANGED <<programa, erro, sinal, redis, servidor, pedidos, saudaveis>>

(* On failure the client is closed, and the pool by its defer. *)
ConectarRedis ==
  /\ \/ /\ Ir("redis", "fechar_pool") /\ erro' = TRUE
        /\ redis' \in {"nenhum", "fechado"}
     \/ /\ ~sinal /\ "redis" \in saudaveis
        /\ Ir("redis", IF programa = "api" THEN "montagem" ELSE "servindo")
        /\ redis' = "aberto" /\ UNCHANGED erro
  /\ UNCHANGED <<programa, codigo, sinal, pool, servidor, pedidos, saudaveis>>

(* montarAcoesRemotas may refuse the credentials; else the goroutine of
   ListenAndServe starts. *)
Montar ==
  /\ \/ Retornar("montagem", TRUE) /\ UNCHANGED escuta
     \/ Ir("montagem", "servindo") /\ escuta' = "iniciando" /\ UNCHANGED erro
  /\ UNCHANGED <<programa, codigo, sinal, recursos, encerrando, pedidos, saudaveis>>

(* The worker has nothing to stop. *)
EncerrarWorker ==
  /\ programa = "worker" /\ sinal
  /\ Retornar("servindo", FALSE)
  /\ UNCHANGED <<programa, codigo, sinal, recursos, servidor, pedidos, saudaveis>>

DesistirDaEscuta ==
  /\ escuta = "falhou"
  /\ Retornar("servindo", TRUE)
  /\ UNCHANGED <<programa, codigo, sinal, recursos, servidor, pedidos, saudaveis>>

(* Shutdown closes the listener and waits for Serve to let it go. *)
ComecarDesligamento ==
  /\ programa = "api" /\ sinal
  /\ Ir("servindo", "desligando")
  /\ encerrando' = TRUE
  /\ escuta' = IF escuta = "aceitando" THEN "encerrada" ELSE escuta
  /\ UNCHANGED <<programa, codigo, erro, sinal, recursos, pedidos, saudaveis>>

HaEmCurso == \E r \in Requisicoes : req[r] \in EmCurso

(* Variant: the error of Shutdown is not returned. *)
DesligarSemErro ==
  /\ Retornar("desligando", FALSE)
  /\ UNCHANGED <<programa, codigo, sinal, recursos, servidor, pedidos, saudaveis>>

(* Shutdown returns: every connection is idle, or its 10 seconds have passed. *)
Desligar ==
  /\ Retornar("desligando", HaEmCurso)
  /\ UNCHANGED <<programa, codigo, sinal, recursos, servidor, pedidos, saudaveis>>

FecharRedis ==
  /\ Ir("fechar_redis", "fechar_pool")
  /\ redis' = "fechado"
  /\ UNCHANGED <<programa, codigo, erro, sinal, pool, servidor, pedidos, saudaveis>>

(* Variant: the pool does not wait for the connections in use. *)
FecharPoolSemEsperar ==
  /\ Ir("fechar_pool", "fim")
  /\ pool' = "fechado"
  /\ codigo' = IF erro THEN "um" ELSE "zero"
  /\ UNCHANGED <<programa, erro, sinal, redis, servidor, pedidos, saudaveis>>

(* Close: no connection is handed out any more; those in use are waited for.
   Then executar returns and main ends the process. *)
FecharPool ==
  /\ fase = "fechar_pool"
  /\ \/ /\ pool = "aberto" /\ pool' = "fechando"
        /\ UNCHANGED <<fase, codigo>>
     \/ /\ pool = "fechando" /\ Ocupantes = {}
        /\ pool' = "fechado"
        /\ Sair("fechar_pool", IF erro THEN "um" ELSE "zero")
  /\ UNCHANGED <<programa, erro, sinal, redis, servidor, pedidos, saudaveis>>

(* SIGINT or SIGTERM: before NotifyContext it kills the process. *)
Sinalizar ==
  /\ Vivo /\ ~sinal
  /\ sinal' = TRUE
  /\ IF fase \in {"config", "executor"} THEN fase' = "fim" /\ codigo' = "sinal"
     ELSE UNCHANGED <<fase, codigo>>
  /\ UNCHANGED <<programa, erro, recursos, servidor, pedidos, saudaveis>>

------------------------------------------------------------------------------
(* The goroutine of ListenAndServe.  ErrServerClosed is dropped; any other error
   goes to the buffered channel, where nobody may be reading any more. *)

IrEscuta(de, para) == Vivo /\ escuta = de /\ escuta' = para

Escutar ==
  /\ \/ IrEscuta("iniciando", IF encerrando THEN "encerrada" ELSE "abrindo")
     \/ IrEscuta("abrindo", "falhou")
     \/ IrEscuta("abrindo", IF encerrando THEN "encerrada" ELSE "aceitando")
  /\ UNCHANGED <<principal, sinal, recursos, encerrando, pedidos, saudaveis>>

(* Accept fails for good. *)
FalharAceite ==
  /\ IrEscuta("aceitando", "falhou")
  /\ UNCHANGED <<principal, sinal, recursos, encerrando, pedidos, saudaveis>>

------------------------------------------------------------------------------
(* The handlers *)

Aceitar(r) ==
  /\ escuta = "aceitando"
  /\ IrReq(r, "fora", "aceita")
  /\ UNCHANGED <<principal, sinal, recursos, servidor, status, verif, vistas, negadas, saudaveis>>

(* No request comes: ReadHeaderTimeout, the client, or Shutdown, which closes a
   connection on which nothing was read for five seconds. *)
Abandonar(r) ==
  /\ IrReq(r, "aceita", "abandonada")
  /\ UNCHANGED <<principal, sinal, recursos, servidor, status, verif, vistas, negadas, saudaveis>>

(* The router calls the handler; the probe starts its checks. *)
Rotear(r) ==
  /\ IrReq(r, "aceita", "tratando")
  /\ IF r \in Prontidoes
     THEN /\ verif' = [verif EXCEPT ![r] = [d \in Dependencias |-> "verificando"]]
          /\ vistas' = [vistas EXCEPT ![r] = saudaveis]
     ELSE UNCHANGED <<verif, vistas>>
  /\ UNCHANGED <<principal, sinal, recursos, servidor, status, negadas, saudaveis>>

(* A request that uses neither dependency, or whose body is refused. *)
ResponderDireto(r) ==
  /\ r \notin Prontidoes
  /\ Responder(r, "tratando", 200) \/ (r \in Webhooks /\ Responder(r, "tratando", 400))
  /\ UNCHANGED <<principal, sinal, recursos, servidor, verif, vistas, negadas, saudaveis>>

Adquirir(r) ==
  /\ r \in Webhooks /\ HaConexao
  /\ IrReq(r, "tratando", "conexao")
  /\ UNCHANGED <<principal, sinal, recursos, servidor, status, verif, vistas, negadas, saudaveis>>

(* The pool is closed, or the 30 seconds of middleware.Timeout passed. *)
FalharConexao(r) ==
  /\ r \in Webhooks
  /\ Responder(r, "tratando", 500)
  /\ negadas' = IF pool = "aberto" THEN negadas ELSE negadas \union {r}
  /\ UNCHANGED <<principal, sinal, recursos, servidor, verif, vistas, saudaveis>>

(* Variant: the statement is not made with the request's context. *)
ConsultarSemContexto(r) ==
  /\ IrReq(r, "conexao", "resposta")
  /\ "postgres" \in saudaveis
  /\ status' = [status EXCEPT ![r] = 200]
  /\ UNCHANGED <<principal, sinal, recursos, servidor, verif, vistas, negadas, saudaveis>>

(* The statement ends, or its context does, and the connection goes back. *)
ConsultarBanco(r) ==
  /\ IrReq(r, "conexao", "resposta")
  /\ \/ "postgres" \in saudaveis /\ status' = [status EXCEPT ![r] = 200]
     \/ status' = [status EXCEPT ![r] = 500]
  /\ UNCHANGED <<principal, sinal, recursos, servidor, verif, vistas, negadas, saudaveis>>

EnviarResposta(r) ==
  /\ IrReq(r, "resposta", "respondida")
  /\ UNCHANGED <<principal, sinal, recursos, servidor, status, verif, vistas, negadas, saudaveis>>

(* Dependencia.Verificar, in the goroutine of one dependency. *)
OcuparConexao(r) ==
  /\ Vivo /\ verif[r]["postgres"] = "verificando" /\ HaConexao
  /\ AoFim(r, "postgres", "ocupando")
  /\ UNCHANGED <<principal, sinal, recursos, servidor, req, status, vistas, negadas, saudaveis>>

Aberta(d) == IF d = "postgres" THEN pool = "aberto" ELSE redis = "aberto"

TerminarVerificacao(r, d) ==
  /\ Vivo /\ req[r] = "tratando"
  /\ \/ /\ verif[r][d] = IF d = "postgres" THEN "ocupando" ELSE "verificando"
        /\ d \in saudaveis /\ (d = "redis" => redis = "aberto")
        /\ AoFim(r, d, "ok")
        /\ UNCHANGED negadas
     \/ /\ verif[r][d] \in {"verificando", "ocupando"}
        /\ AoFim(r, d, "falha")
        /\ negadas' = IF Aberta(d) \/ verif[r][d] = "ocupando" THEN negadas ELSE negadas \union {r}
  /\ UNCHANGED <<principal, sinal, recursos, servidor, req, status, vistas, saudaveis>>

(* Variant: the probe does not wait for its goroutines; an error that was not
   written yet is nil. *)
ConcluirSemEsperar(r) ==
  /\ r \in Prontidoes
  /\ Responder(r, "tratando", IF \E d \in Dependencias : verif[r][d] = "falha" THEN 503 ELSE 200)
  /\ UNCHANGED <<principal, sinal, recursos, servidor, verif, vistas, negadas, saudaveis>>

(* verificacoes.Wait and the answer *)
ConcluirProntidao(r) ==
  /\ r \in Prontidoes
  /\ \A d \in Dependencias : verif[r][d] \in {"ok", "falha"}
  /\ Responder(r, "tratando", IF \E d \in Dependencias : verif[r][d] = "falha" THEN 503 ELSE 200)
  /\ UNCHANGED <<principal, sinal, recursos, servidor, verif, vistas, negadas, saudaveis>>

(* A dependency goes down or comes back. *)
Oscilar(d) ==
  /\ Vivo
  /\ saudaveis' = IF d \in saudaveis THEN saudaveis \ {d} ELSE saudaveis \union {d}
  /\ vistas' = [r \in Requisicoes |->
       IF req[r] = "tratando" THEN vistas[r] \union (saudaveis' \ saudaveis) ELSE vistas[r]]
  /\ UNCHANGED <<principal, sinal, recursos, servidor, req, status, verif, negadas>>

------------------------------------------------------------------------------
Init ==
  /\ programa \in {"api", "worker"}
  /\ fase = "config" /\ codigo = "nenhum" /\ erro = FALSE /\ sinal = FALSE
  /\ pool = "nenhum" /\ redis = "nenhum"
  /\ escuta = "nenhuma" /\ encerrando = FALSE
  /\ req = [r \in Requisicoes |-> "fora"]
  /\ status = [r \in Requisicoes |-> 0]
  /\ verif = [r \in Requisicoes |-> [d \in Dependencias |-> "nenhuma"]]
  /\ saudaveis \in SUBSET Dependencias
  /\ vistas = [r \in Requisicoes |-> {}]
  /\ negadas = {}

Executar ==
  \/ Carregar \/ MontarExecutor \/ ConectarPostgres \/ ConectarRedis \/ Montar
  \/ EncerrarWorker \/ DesistirDaEscuta \/ ComecarDesligamento \/ Desligar
  \/ FecharRedis \/ FecharPool

Tratar(r) ==
  \/ Abandonar(r) \/ Rotear(r) \/ ResponderDireto(r) \/ Adquirir(r) \/ FalharConexao(r)
  \/ ConsultarBanco(r) \/ EnviarResposta(r) \/ OcuparConexao(r) \/ ConcluirProntidao(r)
  \/ \E d \in Dependencias : TerminarVerificacao(r, d)

Next ==
  \/ Executar \/ Sinalizar \/ Escutar \/ FalharAceite
  \/ \E r \in Requisicoes : Aceitar(r) \/ Tratar(r)
  \/ \E d \in Dependencias : Oscilar(d)

Spec == Init /\ [][Next]_vars

(* Every goroutine is scheduled, and every call in it has a limit: 5 s to
   connect, 10 s for the header and for Shutdown, 2 s for the checks and 30 s
   for a request. *)
SpecJusta ==
  /\ Spec
  /\ WF_vars(Executar) /\ WF_vars(Escutar)
  /\ \A r \in Requisicoes : WF_vars(Tratar(r))

------------------------------------------------------------------------------
(* Properties *)

TypeOK ==
  /\ programa \in {"api", "worker"}
  /\ fase \in Fases
  /\ codigo \in {"nenhum", "zero", "um", "sinal"}
  /\ erro \in BOOLEAN /\ sinal \in BOOLEAN /\ encerrando \in BOOLEAN
  /\ pool \in {"nenhum", "aberto", "fechando", "fechado"}
  /\ redis \in {"nenhum", "aberto", "fechado"}
  /\ escuta \in Escutas
  /\ req \in [Requisicoes -> Lugares]
  /\ status \in [Requisicoes -> {0, 200, 400, 500, 503}]
  /\ verif \in [Requisicoes -> [Dependencias -> Verificacoes]]
  /\ saudaveis \subseteq Dependencias
  /\ vistas \in [Requisicoes -> SUBSET Dependencias]
  /\ negadas \subseteq Requisicoes

(* The process ends with code 0 only after a signal, with every request it had
   accepted answered, none of them having found a dependency closed under it. *)
SaidaHonesta ==
  codigo = "zero" =>
    /\ sinal /\ negadas = {}
    /\ \A r \in Requisicoes : req[r] \notin EmCurso

(* However executar ends, what it had opened is closed, and no statement of a
   request nor ping of a probe is cut by it: the pool waits for those under way,
   although Shutdown may have given up on their requests. *)
NadaAbertoNemCortado ==
  fase = "fim" =>
    /\ pool \in {"nenhum", "fechado"} /\ redis \in {"nenhum", "fechado"}
    /\ Ocupantes = {}

(* GET /ready answers 200 only if every check succeeded, each dependency having
   answered at some instant since the probe began, and 503 only if a check
   failed; it answers nothing else, and no check is still running. *)
ProntidaoFiel ==
  \A r \in Prontidoes :
    /\ status[r] = 200 =>
         vistas[r] = Dependencias /\ \A d \in Dependencias : verif[r][d] = "ok"
    /\ status[r] = 503 => \E d \in Dependencias : verif[r][d] = "falha"
    /\ status[r] # 0 =>
         status[r] \in {200, 503} /\ \A d \in Dependencias : verif[r][d] \in {"ok", "falha"}

(* After a signal the process ends, whatever its requests are doing. *)
SinalEncerra == sinal ~> fase = "fim"
==============================================================================
