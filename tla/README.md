# A verification project for aPRova

aPRova receives GitHub webhooks about pull requests, records one `task_run` for
each, is meant to generate and run tests for it in a sandbox, and lets a reviewer
approve from Slack through "remote actions". This directory models the parts of
the program that decide something, checks them with TLC on small instances, and
proves the properties that matter most with TLAPS, for every value of the
constants.

Names follow the code (which is in Portuguese): `Receber`, `Reservar`, `Apurar`,
`Parar`... The line ranges every definition stands for are in `PROJECT.json`
(`map`); paths below are relative to the repository.

Contents: [1 The system](#1-the-system) ·
[2 The modules](#2-the-modules) ·
[3 The runs](#3-the-runs) ·
[4 Fairness](#4-fairness) ·
[5 The proofs](#5-the-proofs) ·
[6 Where the code and its documents disagree](#6-where-the-code-and-its-documents-disagree) ·
[7 What is not modelled](#7-what-is-not-modelled) ·
[8 Plan](#8-plan) ·
[9 Running it](#9-running-it)

## 1 The system

Three processes share one PostgreSQL: the **api** (`cmd/api`, HTTP), the
**worker** (`cmd/worker`, which does not take work yet) and the **program in the
container** (`cmd/sandbox`), which runs the code of one pull request.

```
 GitHub ──webhook──▶ api ─────────▶ PostgreSQL ◀──────── collector ◀── program in the
                      │  task_runs, approvals,              ▲          container: clone,
 Slack channel ──────▶│  acoes_remotas, task_steps,         │          build, go test,
   (signed POST)      │  sandbox_results, receipts...       │          classify, deliver
                      ▼                                     │              ▲
                   GitHub API ◀── installation tokens    executor ─────────┘
                   (permission, author, review)          (Azure job or docker)
```

### Inventory

| Component | State it keeps | Operations | What is hard | What makes it correct |
|---|---|---|---|---|
| Remote-action channel: `internal/api/acoes_remotas.go`, `internal/acaoremota` | reservations of `id_acao` in memory; attempts in memory or in `acoes_remotas`; published reviews (on GitHub) | `Processar`: interpret, identity, permission, author, reserve, execute, register, answer | repeated clicks at once; lost reply of the POST; a role revoked half-way; restart | one review per `id_acao` and life; only for who may write, never for the author; the answer never contradicts the effect |
| Webhook reception: `internal/api/webhooks.go` | none of its own | `pull_request`, `pull_request_review` | redelivery, two deliveries at once, review before push, lost reply of a commit | 202 means exactly one right row; redelivery changes nothing; a review is not lost |
| Repository: `internal/repository/postgres.go`, `queries/`, `migrations/` | `task_runs`, `approvals`, `task_steps`, `sandbox_results`, `acoes_remotas`, `receipts`, `risk_gates`, vectors | idempotent insertions, `EmTransacao`, `TransicionarTaskRun`, `GravarResultado`, `AnexarRecibo`... | concurrent transactions, row locks, deadlocks, savepoints, lost replies | histories are chains, transactions are whole, ids become visible in order |
| Sandbox executors: `internal/sandbox/executor_azure.go`, `executor_local.go`, `jobsazure` | `iniciou` and the deadlines of each call; the job and the container (external) | start, follow, stop, wait for the collector, remove | the context ends at any step; lost replies; a host that dies; a start deadline | a call returns its own result, leaves nothing running, and ends |
| Program in the container: `internal/sandbox/conteiner`, `cmd/sandbox` | its deadline, its result, its exit code | read, clone, run, deliver | signal or deadline between two steps; delivery that fails after the commit; a deadline handed over as seconds that remain | the exit code says no more than what was delivered; it delivers while the executor still waits |
| Go runner: `internal/sandbox/golang`, `internal/sandbox/processo` | `apurador` (counts, failures per package) | download, build, vet, `go test -json`, classify | killed commands, cut and interleaved lines, a `-timeout` that must fire first | no failure hidden, nobody blamed without cause, counts the database accepts |
| GitHub App authenticator: `internal/platform/autenticacao.go` | token cache, singleflight group | `TokenParaInstalacao` | stale tokens, concurrent renewals, retries | living tokens of the right installation, one request at a time |
| GitHub client: `internal/platform/cliente.go` | none | permission, author, review | lost replies | an error never becomes an authorization |
| Recording of sandbox results: `postgres.go` 319-360 | `sandbox_results` | `Gravar`, `Aguardar` | two executions record attempt 1; a recording inside a transaction that is then undone | one result kept, the caller told which |
| Receipts and risk gates: `postgres.go` 265-317 | `receipts`, `risk_gates` | `GravarGateDeRisco`, `AnexarRecibo` | appends that cannot see each other, aborted transactions, keys taken in opposite orders | a linear chain per tenant, one gate and one receipt per task_run, and nothing confirmed that was not written |
| Processes: `cmd/api/main.go`, `cmd/worker/main.go`, `conexao.go` | the pool, the redis client, the listener, the exit code | start, serve, shut down | `Shutdown` gives up before the handlers do; a start that fails half-way; a signal at any moment | code 0 only after a clean end; all closed, nothing cut; a signal ends it |
| Health and readiness: `internal/api/saude.go` | the errors of one probe | `GET /health`, `GET /ready` | one goroutine per dependency, each writing an error; the pings compete with the handlers for the pool | 200 only if each dependency answered |
| Configuration: `internal/config` | none after the start | `Carregar` | - | a pure function of the environment |
| Code memory, identity links | vectors, links of the configuration | searches | none of its own | - |
| Maintenance scripts, generated queries, directories without code | - | - | - | - |

Interactions: the api calls the repository and the GitHub client; the client
asks the authenticator for a token in every request; the executor starts the
program in the container and waits for what that program put in the collector,
which is the same table the executor reads; the runner's verdict is the result the
program delivers; the process closes redis and the pool under whatever handlers
`Shutdown` left behind. The hazards of this code, each at its line, are listed in
`PROJECT.json` (`hazards`) with the properties that look at them.

## 2 The modules

| Module | Models | Composed with |
|---|---|---|
| `AcaoUnica` | the abstract promise of the remote-action channel about an `id_acao` | implemented by `AcoesRemotas` |
| `AcoesRemotas` | the whole channel: door, service, reservation, register, GitHub | `INSTANCE AcaoUnica` |
| `Webhooks` | both webhook handlers with `task_runs` and `approvals` | - |
| `TaskRuns` | `EmTransacao` and `TransicionarTaskRun` under READ COMMITTED | - |
| `ResultadoUnico` | the abstract promise of the executors about the result of a task_run | implemented by `Sandbox` |
| `Sandbox` | `Executor.Executar` (Azure, docker), the program in the container, the collector | `INSTANCE ResultadoUnico`; takes the verdict of `Linguagem` as one step |
| `Linguagem` | the runner: commands, deadline, `go test` and its output, classification | its result is what `Sandbox`'s `Testar` chooses |
| `Tokens` | `TokenParaInstalacao` | - |
| `Recibos` | `AnexarRecibo`, `GravarGateDeRisco`, `Gravar`, alone and in transactions | the collector of `Sandbox` is its `Gravar` |
| `Processo` | `executar` of the api and of the worker, the listener, handlers, probes, the pool | its handlers stand for `Webhooks` and the other routes |
| `X_proofs` | the theorems about X (eight modules) | EXTENDS X |
| `MCX` | small instances of X for TLC | EXTENDS X |

Every module is written the same way: parameters with a named assumption, the
variables, helpers, one action per step of the code that another actor may see
or interrupt (a call to the database, to GitHub, to Azure, a command), `Next`,
`Spec`, one type invariant and the properties. The inductive invariant, in named
parts, opens the module of the proofs. What lies between two such steps of the
code is one action. Operators named as *variants* in a comment are plausible
bugs in the code; substituted for the definition right after them, each makes
some property fail, which shows that the property can.

### 2.1 AcoesRemotas: POST /acoes-remotas

*State.* `pc`, `pedido`, `situacao`, `desfecho`, `cancelado`, `status` are the
locals of each request's goroutine; `reservados` is `ReservaEmMemoria`,
`tentativas` the register (memory or PostgreSQL: `RegistroDuravel`);
`permissao`, `rede`, `reviews`, `retorno` are GitHub and the network;
`reservou`, `escritaVista` and `semRegistro` (the requests whose write in the
register failed) are history.

| Action | Code |
|---|---|
| `RejeitarNaPorta`, `RejeitarCorpo`, `Receber` | signature and size at the door, then `interpretarPedido` |
| `Identificar` | `LoginGitHub` of the Slack user, and the refusal without a link |
| `ConsultarPermissao`, `ConsultarAutor`, `FalharVerificacao` | `levantarSituacao`: the two GitHub queries, then the policy (`Politica.Avaliar`, `strings.EqualFold`) |
| `Reservar` | `efetivar`: `Reservar(id_acao)`; an id already taken is `repetida` |
| `EnviarReview`, `FalharAntesDoEnvio`, `ReceberRetorno`, `DesistirDoEnvio` | `Executar` of `executor_github.go`: the POST may be published, refused or lost, before or after the caller gives up |
| `Registrar`, `Responder` | `concluir` (an error of the register is only logged) and the status code |
| `Cancelar` | the client is gone or the 30 s middleware fires |
| `Publicar`, `RecusarReview`, `PerderEnvio`, `MudarPermissao` | GitHub and the network (external) |
| `Reiniciar` | the process ends with its requests and its memory; POSTs on the way stay on the way |

*Properties.* `EfeitoAutorizado` (write access seen during this request by the
linked account, which is not the author in any spelling),
`RespostaFielAoEfeito` (202 only with a public review; after 400, 401, 403 and
409 nothing is public nor will be), `RepetidaTemVencedor` (a 409 has another
request behind it that was authorized and took the id),
`RegistroFielAoEfeito` (what is in the register happened: an accepted row has
its own review public, a refused one nothing on GitHub; and with PostgreSQL a
request that was answered and had an effect, cancelled or not, has a row of its
id, unless its own write failed), `RegistroImutavel`, `PedidoRespondido`, and the
refinement `ImplementaAcaoUnica`. `EfeitoUnicoPorVida` (one review per id and
life) is the core of the refinement and a theorem of its own.

Three things these properties allow and a reader should know. `servico.go`
reserves before executing and never releases, so a retry after a *failed* or lost
execution gets 409: that the effect is public is not implied, although
README.md:150 describes 409 as "já executado"; `RepetidaTemVencedor` says no more
than that another request took the id. An error of the register is only logged
(`servico.go:167`), so an effect can be left without a row, and
`RegistroFielAoEfeito` excuses exactly the requests this happened to. And with
PostgreSQL the first attempt of an id to reach the table keeps the row: the row an
effect finds there may be of another request, whose outcome it tells. The property
says which: one that did not reserve the id in the same life of the process (it
was refused before, or is of another life), and never a repetition.

### 2.2 Webhooks: POST /webhooks/github

*State.* locals per request (`pc`, `entrega`, `chegada`, `alvo`, `status`);
tables `execucoes` (task_runs) and `aprovacoes`; the database clock `relogio`;
`conhecidas` is history (what GitHub had seen acknowledged when a request
arrived). *Actions.* `RejeitarNaPorta`; `Receber` (triage and validation with
every early return); `CriarTaskRun` and `BuscarExistente` (insert with ON
CONFLICT, then the existing row); `BuscarMaisRecente`, `GravarAprovacao`,
`ConferirTaskRun` (the review: latest task_run of the pull request and tenant,
then an insertion that may conflict); `FalharNoBanco` (before or after the
commit); `Reiniciar`; `PassarTempo`. A delivery id determines the event GitHub
sends under it, and any number of requests may carry it.

*Properties.* `RespostaCumprida`, `RevisaoNaoPerdida`, `AprovacaoRecente`,
`ReentregaNaoMuda`.

### 2.3 TaskRuns: transitions and their transactions

*State.* committed `estado`, `etapas`, the sequence `proximoId`; per transaction
`pc`, `passo`, `versao` (its uncommitted write, which is its row lock), `novas`.
*Actions.* `Abrir`, `Validar`, `Atualizar` (the compare-and-set, waiting for the
row lock and re-reading the row as READ COMMITTED does), `InserirEtapa`,
`Conferir` (no row: nonexistent or concurrent), `Impasse` (PostgreSQL ends one
of a cycle), `Desfazer`, `Confirmar`, `FalharComando` (one statement of a
transition fails and the connection stays), `Falhar` (the connection or the
commit, whose reply may also be lost). Nested transitions are savepoints of the
caller's transaction: one that was refused, or whose second statement failed after
its `UPDATE`, gives the row back the version it had (`Anterior`), which unlocks it
if the transaction had not written it before; it is an answer, and the caller's
function may go on and commit the rest. On the pool the same failure leaves only
the rollback. `MaxFalhas` bounds how many statements fail alone.

*Properties.* `HistoricoEncadeado`, `TransacaoInteira`, `LeituraEstavel`,
`AlguemVence`, `TodaChamadaTermina`.

### 2.4 Sandbox: Executor.Executar and the program in the container

*State.* per call `pc`, `ctxFim`, `vencido`, `iniciou`, `devolvido`; external
`job` (status in Azure) and `cont` (the container); `mao` (the result the
program holds), `coletor` (recorded for each task_run); `viu` and `abandono` are
history. *Actions.* `Rejeitar`/`Partir`; Azure: `Disparar`, `ReceberNome` (BeginStart and
the poll that gives the name), `Consultar`, `Dormir`, `Parar`, `ConfirmarParada`,
`LerResultado`, `DesistirDoColetor`, `FalharNaLeitura`; docker: `RodarDocker`,
`DockerTermina`, `PerderDocker`, `Remover`; the program: `Ler`, `Clonar`,
`Testar`, `Entregar`; around them `IniciarJob`, `EncerrarJob`, `InterromperJob`,
`PerderHost`, `EsgotarPrazo`, `VencerInicio`. `ColetorNoJob` TRUE is the program
that records its result; `cmd/sandbox` today builds it without a collector
(FALSE), with which an Azure call can only wait. What docker returns is what can be
read in the last line of its output (`Publicados`): the exit code is not looked
at, a result that was written counts although the container or the client was
killed afterwards, and without a whole line the result is of infrastructure.

*Properties.* `ImplementaResultadoUnico`: the executors, with their polling,
stops, retries and lost replies, implement `ResultadoUnico`, whose only state is
the result recorded for each task_run and the answer of each call - the first
recorded stays, a call answers once, with a result of its own, and what it says
about the pull request is what is on record. `NadaSobrevive`: a call that returned
left nothing running, except in three cases, which it names by what `abandono`
remembers: a stop or a removal that was tried and not confirmed in time
(`parada_falhou`); in Azure, an execution whose name never came (`sem_nome`, the
case of the run `abandonada_sem_parada`); in docker, a client that ended by itself
before its container (`cliente_terminou`). In the last one the code knows the name
it gave the container (`executor_local.go:78`) and does not remove it, because it
does so only when the context ended (89-97): a container can be left there without
any stop having been tried. `PrazoDeInicioSoAntesDeRodar`, `TodaExecucaoTermina`,
`ConcluidaEntrega`.

### 2.5 Linguagem: the Go runner

*State.* `relogio`, `sinal`; the step and its command (`etapa`, `fase`,
`terminouEm`, `codigo`); `timeout`; `go test` itself (`pacote`, `desde`, `feito`,
`saida`, external); the reading (`lida`, `apurado`) and `resultado`. `pontual` is
a prophecy chosen with the `-timeout`: whether `go test` will start and end its
packages without delay, so that a property can speak about a punctual one without
excluding the others. `cortado` and `naoCompila` are history.
*Actions.* `Ler`, `Verificar`, `Iniciar`/`NaoIniciar` (each command: clone,
download, build, vet, test), `Cancelar` and `Interpretar` (rodador: the
context is looked at before the exit code), `Calcular` (the `-timeout`),
`Considerar` (one event of `-json`; broken lines are skipped), `Concluir`
(`classificarTeste`, `apurador.concluir`), `Entregar`; `ComandoTermina` and the steps of
`go test`, which writes lines of its packages in any order; `PassarTempo`,
`Sinalizar`.

The deadline crosses from one machine to another as a number of seconds:
`Prazo` (`variaveis.go`, `prazoEmSegundos`) is what remains when the container is
dispatched less `Subida` (`margemParaSubirOContainer`), at least one second, or
the default of the container when the call has none; `Ler` refuses what lies
beyond `PrazoMaximo`. `ambiente.go:109` multiplies before it compares, so a
large enough text would wrap; what the platform writes is the seconds of a
`time.Duration`, which come back as they were, and the model has numbers there.

*Properties.* `NaoEscondeFalha`, `CulpaComprovada`, `ContagemFiel`,
`AceitoPeloBanco`, `TravaEhCulpaDoPR`, `TodaExecucaoTermina`, and
`EntregaATempo`: if the container took no longer to come up than the margin less
what follows a killed command, the program delivers while its executor waits.

### 2.6 Tokens: installation tokens

*State.* `relogio`, the cache `tokens`, the leader of each key of the
singleflight group `lider`, per call `pc`, `inicio`, `mao`, `erros`.
*Actions.* `Chamar` (look at the cache), `Entrar` (lead or wait), `Reconferir`
(the second look), `Obter`, `Retentar`, `Desistir`, `Guardar`, `Concluir` (all
that waited get the same), `Retornar`, `PassarTempo`. The bound `Duracao` on a
call is a guard of `PassarTempo`: three requests with a ten-second client
timeout and two short waits, against a margin of five minutes.

*Properties.* `TokenVivo`, `RenovacaoNecessaria`, `RetentativaContida`,
`TodaChamadaRetorna`.

### 2.7 Recibos: receipts, gates and results in transactions

*State.* `linhas` (committed rows of the three tables), `proximoId`; per call
`pc`, the operation it is at (`passo`), the row it is entering in the indexes
(`linha`), what its open transaction inserted (`novas`) and what each operation
answered (`respostas`); `vitima` is history. A call is one statement on the pool,
or a function handed to `EmTransacao` (`Explicitas`), whose nested transactions
are savepoints whose errors it ignores. Nothing in `src/` composes these
operations yet; the interface lets a caller compose them in any order, so the
sequence of operations of a call is a constant and the instance mixes them.
*Actions.* `Abrir`, `Validar` (the checks before the database; `Gravar` has
none), `Consultar` (the SELECT of the INSERT under READ COMMITTED: the task_run
and the predecessor it can see), `RecusarPeloCheck` (of a row of a task_run that
exists: of one that does not, nothing is inserted and nothing is checked), `Indexar` and `Suceder` (one
unique index after the other; each waits for an open transaction that holds the
key, and decides when that one ends), `Ignorar` (a statement in an aborted
transaction), `Impasse`, `Desfazer`, `Confirmar` (COMMIT of an aborted transaction
is a ROLLBACK and an error), `Falhar` (the connection, or the reply of the
commit).

*Properties.* `CadeiaLinear` (one row of each table per task_run, one successor
per receipt, predecessors committed, older and of the same tenant),
`TransacaoRegistrada` (success means every row that was answered for is there,
and no error that aborts was swallowed; failure means none is, unless the
commit's reply was lost), `DuplicadoTemDono` (`ErrDuplicado` and
`ErrResultadoJaGravado` only for a row that stays), `TodaChamadaTermina`.

### 2.8 Processo: the api and the worker, from start to exit code

*State.* `executar` (`fase`, `erro`, `codigo`), `sinal`; the `pool` and `redis`;
the goroutine of `ListenAndServe` (`escuta`) and `encerrando`; per request `req`,
`status` and, for a probe of `/ready`, its checks (`verif`); `saudaveis` says which
dependency answers at the moment; `vistas` and `negadas` are history.
*Actions.* `Carregar`, `MontarExecutor`, `ConectarPostgres`, `ConectarRedis`,
`Montar`; `DesistirDaEscuta`, `ComecarDesligamento`, `Desligar` (idle, or ten
seconds), `EncerrarWorker`; the deferred calls `FecharRedis` and `FecharPool`
(which waits for the connections in use); `Sinalizar` (before `NotifyContext` it
kills); `Escutar`, `FalharAceite`; per request `Aceitar`, `Abandonar`, `Rotear`,
`ResponderDireto`, `Adquirir`, `FalharConexao`, `ConsultarBanco`,
`EnviarResposta`; per probe `OcuparConexao`, `TerminarVerificacao`,
`ConcluirProntidao`; `Oscilar`.

*Properties.* `SaidaHonesta` (code 0 only after a signal, with every accepted
request answered and none that found a dependency closed), `NadaAbertoNemCortado`
(however it ends after its start, what it opened is closed and no statement is
cut, although `Shutdown` gives up on handlers that have thirty seconds),
`ProntidaoFiel` (200 only if each dependency answered since the probe began, 503
only if the check of one failed), `SinalEncerra`.

## 3 The runs

Distinct states as TLC counts them; every run ends within five minutes with two
workers. The definitions of the instances are in the `MC` modules.

| Run | Instance | Shows |
|---|---|---|
| `acoes` | 2 requests, 5 bodies on one id (types and users mixed), roles write/read, reservation, register and POSTs that fail, cancellation, PostgreSQL register, 1 restart, symmetry; 4,319,258 states | authorized effects, faithful answers, a winner behind every 409, rows that say what happened and an answered effect that has one unless its write failed, the table is append-only with one row per id |
| `acoes_cliques` | 3 deliveries of one click on the in-memory register, an identity query that fails, lost POSTs, 1 restart, fairness; 122,569 states | the channel implements `AcaoUnica`; every accepted body is answered or lost in the restart |
| `webhooks` | up to 3 requests, 10 kinds of events, 2 installations, 1 pull request, 2 uuids, failing database, restarts, symmetry; 246,254 states | the four properties of 2.2 |
| `transicoes` | 2 direct transitions and 2 transactions of 3 and 4 (in opposite row orders, one transition invalid, one of a row that does not exist), connections that fail, 2 statements that fail alone, lost replies, fairness; 466,496 states | the five properties of 2.3 |
| `execucoes` | 2 executions of one task_run, one with a deadline, Azure or docker, every failure, fairness; 429,633 states | the five properties of 2.4 |
| `linguagem` | 2 packages of one test each, run together, a deadline of 7 less 2 to come up, margin 2, subtests and broken lines 1, fairness; 2,196,773 states | the seven properties of 2.5 |
| `tokens` | 3 calls, 2 installations, validity 3, margin 2, calls of at most 1, clock up to 5, fairness; 133,013 states | the four properties of 2.6 |
| `recibos` | 3 transactions of 3 insertions and a direct one over 4 task_runs of 2 tenants: chained and forking receipts, keys in opposite orders, nested ones whose errors are ignored, invalid rows, one of them of a task_run that does not exist, one call that may lose its connection, fairness; 388,476 states | the four properties of 2.7 |
| `processo` | api or worker, one webhook and one probe on a pool of one connection, every failure, a signal at any moment, fairness; 122,180 states | the four properties of 2.8 |
| `aprovacao_no_mais_recente`, `abandonada_sem_parada`, `teste_que_trava` | small instances of the same modules | TLC finds the counterexample of a sentence of the documents, see 6 |

**Why the bounds are enough to see the interesting cases.** Two requests with
one id are the smallest race for a reservation; the third delivery of
`acoes_cliques` lets one be lost in a restart while two race afterwards. One
restart is enough for a POST of the old life to reach GitHub during the new one.
Three webhook requests are a push, a second push and a review, or three
deliveries of one event, which is what each property of them relates. Two rows
and two transactions in opposite orders are the smallest deadlock; two direct
transitions race from the same state. Two executions of one task_run are what
attempt 1 confuses. Three transactions and a statement are the smallest instance
in which one insertion meets a key that is then rolled back while two others wait
for each other; the fourth task_run gives a fork, the second tenant a predecessor
that must not be seen. A webhook and a probe on one connection are what
`Shutdown` and `Close` find under way, and what makes one of them wait for the
other. Two packages are the smallest interleaving of outputs. Three
calls are a leader, one that waits and one of another installation, and a clock
of 5 lets a token of validity 3 expire and be renewed. The clocks of `Tokens` and
`Linguagem` stop at `MaxRelogio`; the deadline, the `-timeout` and the expiry lie
below it. Counters are bounded by the guards named after `Max...`, `Extras`,
`Limpeza`, and by "each request arrives at most once". The proofs of section 5
do without these bounds wherever the property is a safety one.

Deadlock checking is off because all these systems stop rightly when every
request, call, run or process of the instance has ended. `TypeOK` is no invariant
of these runs: it is proved of every module (`TipoCorreto`, `TiposCorretos`).

## 4 Fairness

Only what the code or its platform guarantees is assumed, one weak fairness
condition for each actor that runs on:

* `AcoesRemotas`: `WF(Servir(p))`. The Go scheduler runs every goroutine that can
  run, the GitHub client gives up after 10 s and the middleware after 30 s, so
  that a goroutine that waits for GitHub always has `DesistirDoEnvio`. Nothing is
  asked of GitHub or of the network.
* `TaskRuns`: `WF(Andar(c))`. A statement answers; a wait for a lock ends when its
  holder does, or `deadlock_timeout` of PostgreSQL ends one of a cycle
  (`Impasse`). Failures need no fairness.
* `Sandbox`: `WF(Chamada(e))` and `WF(EsgotarPrazo(e))` - a call runs until it
  waits, and deadlines pass; stopping is bounded by 30 s, removing by 15 s.
  Nothing is asked of Azure, docker, the container or the code it runs; liveness
  is claimed only for the calls that have a deadline.
* `Linguagem`: `WF(Programa)`, `WF(PassarTempo)`, and `WF(pontual /\ GoTest)`. The
  program acts, time passes (`Cancel` kills at the deadline, `WaitDelay` of 5 s
  ends a command whose output is still held), and *if* `go test` is the punctual
  one of the prophecy, it goes on. A command may otherwise never end by itself.
* `Tokens`: `WF(Andar(c))`: client timeout of 10 s, three attempts.
* `Recibos`: `WF(Andar(c))` for a call that began: its goroutine is scheduled, a
  statement that waits for nobody answers, and PostgreSQL ends one of a cycle. Not
  for `Abrir` (nobody has to call) nor `Falhar`.
* `Processo`: `WF(Executar)`, `WF(Escutar)`, `WF(Tratar(r))`. Every goroutine is
  scheduled and every call in it has a limit: 5 s to connect, 10 s for the header
  and for `Shutdown`, 2 s for a check, 30 s for a request and so for the statements
  made with its context. Nothing is asked of the dependencies, of a client or of
  whoever sends signals.
* `Webhooks` claims no liveness and assumes no fairness: GitHub redelivers when
  someone asks it to.

## 5 The proofs

Eight modules `X_proofs`, all obligations proved by TLAPS (SMT, Zenon, LS4 for the
temporal steps). Each follows the same argument: `TypeOK` and the property are
not inductive, so an invariant `IndInv` is stated in named parts at the beginning of
the module, checked with TLC on the instances of section 3 (a module that EXTENDS
`X_proofs` and has it as INVARIANT), `Init => IndInv` and `IndInv /\ [Next]_vars => IndInv'` are proved with one
lemma per action (or per part of the invariant), and the properties follow.
The theorems hold for every value of the constants that satisfies the named
assumption of the module: any number of requests, ids, users, rows, calls,
packages; no finiteness is needed except where said.

| Module | What the invariant adds, and why | Theorems |
|---|---|---|
| `AcoesRemotas_proofs` | where a request is determines its body, its reservation and its traces (`CorpoInv`); reserved ids belong to one request of this life (`ReservaInv`); what was seen before each step of the authorization (`AutorizacaoInv`); a POST on the way is the one its request would send after reserving (`EfeitoInv`); what each decision says of the effect (`DecisaoInv`). Without `EfeitoInv` for `rede`, a POST of an earlier life could double an effect; without `AutorizacaoInv` the role read two calls earlier is forgotten | `TipoCorreto`, `NoMaximoUmEfeito`, `SoEfeitoAutorizado`, `RespostaFiel`, `RepetidaComVencedor`, `RegistroSoCresce`, `EfeitoFicaRegistrado`, `ImplementaPromessa` |
| `Webhooks_proofs` | unique rows made of their payloads; a request being served passed the triage; the row a review is aimed at is of its pull request and not older than what GitHub knew at its arrival | `TiposCorretos`, `RespostasCumpridas`, `RevisoesNaoPerdidas`, `AprovacoesRecentes`, `ReentregasNaoMudam` |
| `TaskRuns_proofs` | a row is locked by one transaction; what each open transaction *sees* is a chain as well, which is what its commit publishes; ids a transaction inserted come after the committed ones of its rows; a call that lost the race lost it to a committed transition (`VencedorInv`); what an open transaction would commit is, row by row, a chain from the state the row has to the one it gets (`TrechoInv`) of transitions asked for and answered (`FielInv`) | `TiposCorretos`, `HistoricosEncadeados`, `TransacoesInteiras`, `LeiturasEstaveis`, `AlguemSempreVence`, `TransacoesAtomicas`, `TodaChamadaAvanca` |
| `Sandbox_proofs` | the line from the container's exit code to the collector, to the status in Azure and to the caller; `iniciou` remembers what was seen | `TiposCorretos`, `DevolveOProprio`, `ImplementaPromessa`, `PrimeiroResultadoFica`, `NadaFicaRodando`, `RodandoNaoPerdeOPrazo`, `NaoEsperaEmVao` |
| `Tokens_proofs` | one leader by installation; no call lasts longer than `Duracao`; a leader's token is good for `Validade` from its beginning, and the one handed to those that waited still covers their call, because the margin covers two (`2 * Duracao <= Margem`, an assumption of the module); a leader about to write holds a token newer than the cached one (`GuardarInv`); who waits has a leader | `TiposCorretos`, `TokenEntregueVive`, `SoRenovaSePrecisa`, `RetentativasContidas`, `CacheSoAvanca`, `TodaChamadaAvanca` |
| `Linguagem_proofs` | what an exit code and each line prove about the packages and tests, what the apurador rests on, and where a command that was cut can lead; `MargemInv` ties the clock to the `-timeout`, `TempoInv` to the deadline; `ContagemInv` ties the lines to the tests and packages they are about, one each, and the counts to the lines read so far, so that no induction over the output is needed: each line read adds its test to a set and one to its cardinality, and the packages that failed alone are in bijection with their entries in the list | `TiposCorretos`, `FalhaNaoSeEsconde`, `SemCulpaSemProva`, `BancoAceita`, `ContaCerto`, `TravaAcabaNoTimeout`, `ChegaAntes` |
| `Recibos_proofs` | keys and predecessors are unique over committed *and* open rows (`ChavesInv`, `SucessoresInv`), which is what waiting in the index buys; what an open transaction inserted is answered for and its predecessor is in its sight (`NovasInv`, `LinhaInv`); an answer and its row, an error and the abort (`RespostasInv`) | `TiposCorretos`, `CadeiaNaoBifurca`, `CommitGuardaTudo`, `DuplicadoNaoSome`, `TodaChamadaAvanca` |
| `Processo_proofs` | what is open in each phase (`FaseInv`); when a request can be accepted (`EscutaInv`); how far a request is tells what it has done (`PedidoInv`); on the way out without an error no request is left and none will come (`SaidaInv`); a check runs only while its handler waits for it (`VerificacaoInv`) | `TiposCorretos`, `ZeroEhHonesto`, `TudoFechado`, `ProntidaoNaoMente`, `NadaPrendeOProcesso` |

The two theorems `ImplementaPromessa` prove refinements: `Sandbox` implements
`ResultadoUnico` (the register is the collector, the answers are what each call
returned), and `AcoesRemotas` implements `AcaoUnica` with the mapping (`tomadas`
from the history of reservations,
`publicadas` from GitHub, `confirmadas` from the 202s): initial states map to
initial states, and every step to a step or a stutter.
`EfeitoFicaRegistrado` is proved for both registers and any failures; that an
answered effect has a row is claimed with the one of PostgreSQL
(`RegistroDuravel`), because a restart empties the other.
`TravaAcabaNoTimeout` has hypotheses of its own: `Margem > 0` and no more packages than
`Paralelos`. The run `teste_que_trava` shows that the second one cannot be
dropped.

Two results say of whole histories what the invariants say of states.
`TransacoesAtomicas` is the abstract transition of `TaskRuns`: every change of
the tables is all that one call asked for, in order, starting from the state its
rows have, so no update is lost and no part of a transaction is seen.
`PrimeiroResultadoFica` is what `ResultadoUnico` means for a reader, and is proved
from it through the refinement: of all calls for a task_run one at most answers
about the pull request, and nothing recorded or answered changes afterwards.

**The safety half of termination.** Five theorems (`TodaChamadaAvanca` of `TaskRuns`,
`Tokens` and `Recibos`, `NaoEsperaEmVao`, `NadaPrendeOProcesso`) prove, for every
value of the constants, what the liveness properties rest on: each step of a call
lowers a natural number (`Falta`, how many steps it has left at most) that no
other step raises, and somebody can always step. `NemTodasPresas`: the open calls do not
all wait unless in a cycle, which the database breaks, and any number of
transactions and rows is covered by the choice of the cycle as the set of all
open calls. `EsperaTemLider`: who waits for a renewal has a leader that runs it.
`NadaPrende`: after a signal executar goes on, or waits for requests that can
give their connections back, and none takes one from a pool that closes.
For calls of the sandbox the count begins when the context ends, because before
that it is Azure that decides; what a call without a deadline waits for at the
collector is already there (`AguardaOQueExiste`). "Can step" is stated by the guards (`Pronta`,
`Prossegue`, `Solta`); that these guards imply ENABLED of the actions was checked
with TLC on the instances of section 3, since TLAPS does not reason about
ENABLED.

**Only model-checked.** Liveness itself (`PedidoRespondido`, `TodaChamadaTermina` of
`TaskRuns` and of `Recibos`, `TodaExecucaoTermina` of `Sandbox` and of
`Linguagem`, `ConcluidaEntrega`, `TodaChamadaRetorna`, `SinalEncerra`): the step
from the counts above to "every call ends" needs fairness and ENABLED, which TLAPS
does not handle. `PedidoRespondido` and `TodaExecucaoTermina` of `Linguagem` have no theorem for
their safety half either: the first rests on the limits of GitHub and of the
register, the second on two clocks.

## 6 Where the code and its documents disagree

Each has a run in which TLC shows the program doing something other than a
document, comment or test says.

* `aprovacao_no_mais_recente`: `postgres.go:194` says `RegistrarRevisao`
  records the decision on the latest task_run. Looking it up and inserting are
  two statements without a transaction; a push in between makes it the previous
  one. What does hold, and is proved, is `AprovacaoRecente`: never older than what
  had been acknowledged when the review arrived.
* `abandonada_sem_parada`: `executor_azure_test.go:174` says an execution that was
  abandoned should have been stopped. When the context ends after BeginStart and
  before the name is known, nobody can stop it, and it runs on.
* `teste_que_trava`: `sandbox_go_test.go:223` says a test that hangs is the fault
  of the pull request. The `-timeout` of `go test` counts for each test binary
  from its own start; with more packages than run at once, a late one that hangs
  outlives the deadline, and the result is `infraestrutura`.

## 7 What is not modelled

* Formats, wording, logs, HTTP headers, JWT signing, decoding of answers,
  command lines and environment variables: conversions no property here depends
  on. Where one matters it is modelled by what it does (two spellings of a login,
  broken JSON lines, top-level tests and subtests, the order of uuids).
* In `Sandbox`, the time of SIGTERM and of the replica retries of Azure: an
  interruption may hit the program at any step, which includes those times; a
  retried replica would run the program again under the same name, and the
  collector treats it as a second execution of the task_run.
* In `Linguagem`, what `kill` does to process groups, and the credential.
* The worker takes no task_run yet, so the order of states of
  `docs/maquina-estados.mmd` has no code to be checked against:
  `TransicionarTaskRun` accepts any pair. `cmd/worker` runs an in-memory
  collector and `cmd/sandbox` none, hence `ColetorNoJob`.
* Configuration: `config.Carregar` is a pure function of the environment, called
  once before anything is shared; it is the first step of `Processo`, which
  succeeds or fails, and the links it reads are a constant of `AcoesRemotas`. What
  it accepts is text against text, which its tests enumerate.
* The vector search (one query over an index of PostgreSQL), the maintenance
  scripts (one-shot and sequential), the generated queries (the SQL they come from
  is modelled), and the directories without code (`internal/worker`, `gate`,
  `receipt`, `events`, `llm`, `sarif`).
* The access log, request ids and the recovery of panics of the HTTP server.
* Some behaviour the models have and no property judges, because the code does it
  by design or promises nothing against it:
  - the latest task_run is the latest *created* one (`queries/task_runs.sql:18`),
    and the code keeps no order of the pushes it could be compared with;
  - the calls that wait for a leader's token get its error when the leader's
    context ends (`autenticacao.go:121`); `TodaChamadaRetorna` asks only that they
    return;
  - a retry of a click that had no effect is answered 409, for the reservation is
    kept after a failure (`servico.go:127`);
  - an effect stays without an audit row when the register's write fails
    (`servico.go:167`); `RegistroFielAoEfeito` shows that nothing else leaves an
    answered one without;
  - a container runs on when its docker client ends by itself before the deadline:
    its name is known, but only the end of the context removes it
    (`executor_local.go:93`). `NadaSobrevive` names it as one of its exceptions.

## 8 Plan

Built, in this order: the remote actions with their abstract promise (the
component whose mistakes are public), the webhooks, the transitions, the sandbox
executors with theirs, the tokens, the runner, the append-only rows and the
processes, each with its proofs.

Left, in this order:

1. `Execucao`, which composes `Sandbox` and `Linguagem` through an abstract run
   (request, one verdict or infrastructure, at most one delivery), both shown to
   implement it: today the verdict of `Linguagem` is one step of `Sandbox`, and
   only `EntregaATempo` relates their clocks.
2. The worker's loop, the order of states of `docs/maquina-estados.mmd` and the
   composition of gates, receipts and transitions, once they have code.
3. Latest by the order of the pushes, if the code comes to keep one.

## 9 Running it

```
tlc -workers 2 -config acoes.cfg MCAcoesRemotas   # any row of the table
tlapm AcoesRemotas_proofs.tla                     # any X_proofs
```

`PROJECT.json` lists the runs, the theorems, the hazards of the code with the
properties that look at each, the definitions with the lines they model, and for
every property a variant of a definition that breaks it.
