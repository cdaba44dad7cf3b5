-------------------------------- MODULE Sandbox --------------------------------
(***************************************************************************)
(* Executor.Executar of internal/sandbox, from the request to the result:  *)
(* the executor that starts a job on Azure Container Apps, follows it and  *)
(* waits for the ColetorResultado, the one that runs docker locally, and   *)
(* the program inside the container (internal/sandbox/conteiner), which    *)
(* clones, runs the tests of the language and delivers the result.         *)
(* Azure, docker and the clocks are external: they act on their own.       *)
(***************************************************************************)
EXTENDS Naturals, FiniteSets

CONSTANTS
  Execucoes,     \* calls of Executar, each with a container of its own
  TaskRunIds,    \* the ids of the task_runs they name
  TaskRunDe,     \* TaskRunDe[e]: the one of a call
  ComPrazo,      \* the calls whose context has a deadline
  Veredictos,    \* the TipoFalha that are about the code of the PR
  ColetorNoJob,  \* TRUE: the program in the container has a ColetorResultado
  Falhas,        \* TRUE: Azure, docker, the host, the database may fail
  Nenhum         \* no result

Infra == "infraestrutura"
Resultados == [de : Execucoes, tipo : Veredictos \union {Infra}]

ASSUME SandboxAssumption ==
  /\ TaskRunDe \in [Execucoes -> TaskRunIds]
  /\ ComPrazo \subseteq Execucoes
  /\ Infra \notin Veredictos
  /\ ColetorNoJob \in BOOLEAN /\ Falhas \in BOOLEAN
  /\ Nenhum \notin Resultados

VARIABLES
  executor,   \* SANDBOX_EXECUTOR, chosen when the process starts
  pc,         \* where each call is
  ctxFim,     \* ctx.Done() of the call is closed
  vencido,    \* the clock passed limiteParaIniciar
  iniciou,    \* iniciou of acompanhar
  devolvido,  \* the result a call returned
  job,        \* the status of the execution in Azure
  cont,       \* where the program in the container is, or how it ended
  mao,        \* the result it delivers, which stays in its stdout
  coletor,    \* the result recorded for each task_run
  viu,        \* history: the calls that were told the job was running
  abandono    \* history: why a call may have left its container behind

vars == <<executor, pc, ctxFim, vencido, iniciou, devolvido, job, cont,
          mao, coletor, viu, abandono>>

doConteiner == <<cont, mao, coletor>>
doAcompanhar == <<vencido, iniciou, viu>>

Etapas == {"nova", "disparar", "criar", "consultar", "dormir", "parar", "parando",
           "aguardar", "docker", "remover", "fim"}
Ativos == {"Processing", "Running", "Stopping"}
Terminados == {"Succeeded", "Failed", "Stopped"}
Rodando == {"lendo", "clonando", "testando", "entregando"}
Encerrados == {"saiu0", "saiu1", "morto"}

------------------------------------------------------------------------------
Ir(e, para) == pc' = [pc EXCEPT ![e] = para]

Devolver(e, r) == Ir(e, "fim") /\ devolvido' = [devolvido EXCEPT ![e] = r]
ResultadoDe(e, t) == [de |-> e, tipo |-> t]
DevolverInfra(e) == Devolver(e, ResultadoDe(e, Infra))

Abandonar(e, motivo) == abandono' = [abandono EXCEPT ![e] = motivo]

(* What a call of cliente.Status says: its error, a missing status and the
   ones interpretarStatusAzure does not know count as a job yet to start. *)
Lidos(e) ==
  (IF ctxFim[e] THEN {} ELSE {job[e]}) \union (IF ctxFim[e] \/ Falhas THEN {"Unknown"} ELSE {})

------------------------------------------------------------------------------
(* The calls. *)

(* The request is not valid, or no image is configured: nothing is started. *)
Rejeitar(e) ==
  /\ pc[e] = "nova"
  /\ Devolver(e, Nenhum) \/ DevolverInfra(e)
  /\ UNCHANGED <<executor, ctxFim, job, abandono, doAcompanhar, doConteiner>>

Partir(e) ==
  /\ pc[e] = "nova" /\ executor = "azure"
  /\ Ir(e, "disparar")
  /\ UNCHANGED <<executor, ctxFim, devolvido, job, abandono, doAcompanhar, doConteiner>>

(* Cliente.Iniciar, until BeginStart answers: when it fails the execution may
   have been created all the same. *)
Disparar(e) ==
  /\ pc[e] = "disparar"
  /\ \/ /\ ~ctxFim[e]
        /\ job' = [job EXCEPT ![e] = "Processing"]
        /\ Ir(e, "criar")
        /\ UNCHANGED <<devolvido, abandono>>
     \/ /\ ctxFim[e] \/ Falhas
        /\ DevolverInfra(e)
        /\ UNCHANGED <<job, abandono>>
     \/ /\ Falhas /\ ~ctxFim[e]
        /\ job' = [job EXCEPT ![e] = "Processing"]
        /\ DevolverInfra(e)
        /\ Abandonar(e, "sem_nome")
  /\ UNCHANGED <<executor, ctxFim, doAcompanhar, doConteiner>>

(* Cliente.Iniciar, its PollUntilDone: without it there is no name to stop. *)
ReceberNome(e) ==
  /\ pc[e] = "criar"
  /\ \/ /\ ~ctxFim[e]
        /\ Ir(e, "consultar")
        /\ UNCHANGED <<devolvido, abandono>>
     \/ /\ ctxFim[e] \/ Falhas
        /\ DevolverInfra(e)
        /\ Abandonar(e, "sem_nome")
  /\ UNCHANGED <<executor, ctxFim, job, doAcompanhar, doConteiner>>

(* Variant: iniciou is what the last status says. *)
IniciouPeloUltimo(e, s) == s = "Running"

Iniciou(e, s) == iniciou[e] \/ s = "Running"

(* A turn of the loop of acompanhar, to the select. *)
Consultar(e) ==
  /\ pc[e] = "consultar"
  /\ \E s \in Lidos(e) :
       \/ /\ s = "Succeeded"
          /\ Ir(e, "aguardar")
          /\ UNCHANGED <<devolvido, iniciou, viu>>
       \/ /\ s \in {"Failed", "Stopped"}
          /\ DevolverInfra(e)
          /\ UNCHANGED <<iniciou, viu>>
       \/ /\ s \notin Terminados
          /\ iniciou' = [iniciou EXCEPT ![e] = Iniciou(e, s)]
          /\ viu' = IF s = "Running" THEN viu \union {e} ELSE viu
          /\ Ir(e, IF ~Iniciou(e, s) /\ vencido[e] THEN "parar" ELSE "dormir")
          /\ UNCHANGED devolvido
  /\ UNCHANGED <<executor, ctxFim, vencido, job, abandono, doConteiner>>

(* Variant: the select does not look at the context. *)
DormirSemContexto(e) ==
  /\ pc[e] = "dormir"
  /\ Ir(e, "consultar")
  /\ UNCHANGED <<executor, ctxFim, devolvido, job, abandono, doAcompanhar, doConteiner>>

Dormir(e) ==
  /\ pc[e] = "dormir"
  /\ Ir(e, IF ctxFim[e] THEN "parar" ELSE "consultar")
  /\ UNCHANGED <<executor, ctxFim, devolvido, job, abandono, doAcompanhar, doConteiner>>

(* Variant: the stop is asked for and not waited for. *)
PararSemEsperar(e) ==
  /\ pc[e] = "parar"
  /\ job' = [job EXCEPT ![e] = IF @ \in Ativos THEN "Stopping" ELSE @]
  /\ DevolverInfra(e)
  /\ UNCHANGED <<executor, ctxFim, abandono, doAcompanhar, doConteiner>>

(* parar: Cliente.Parar up to BeginStopExecution, in a context that the end of
   the call's does not cancel. *)
Parar(e) ==
  /\ pc[e] = "parar"
  /\ \/ /\ job' = [job EXCEPT ![e] = IF @ \in Ativos THEN "Stopping" ELSE @]
        /\ Ir(e, "parando")
        /\ UNCHANGED <<devolvido, abandono>>
     \/ /\ Falhas
        /\ DevolverInfra(e)
        /\ Abandonar(e, "parada_falhou")
        /\ UNCHANGED job
  /\ UNCHANGED <<executor, ctxFim, doAcompanhar, doConteiner>>

(* Azure confirms, or tempoLimiteParada passes. *)
ConfirmarParada(e) ==
  /\ pc[e] = "parando"
  /\ DevolverInfra(e)
  /\ \/ job[e] \in Terminados /\ UNCHANGED abandono
     \/ Abandonar(e, "parada_falhou")
  /\ UNCHANGED <<executor, ctxFim, job, doAcompanhar, doConteiner>>

(* ColetorResultado.Aguardar finds the result. *)
LerResultado(e) ==
  /\ pc[e] = "aguardar"
  /\ coletor[TaskRunDe[e]] # Nenhum
  /\ Devolver(e, coletor[TaskRunDe[e]])
  /\ UNCHANGED <<executor, ctxFim, job, abandono, doAcompanhar, doConteiner>>

(* ColetorResultado.Aguardar returns the error of the context. *)
DesistirDoColetor(e) ==
  /\ pc[e] = "aguardar" /\ ctxFim[e]
  /\ DevolverInfra(e)
  /\ UNCHANGED <<executor, ctxFim, job, abandono, doAcompanhar, doConteiner>>

(* ColetorResultado.Aguardar returns an error of the database. *)
FalharNaLeitura(e) ==
  /\ pc[e] = "aguardar" /\ Falhas
  /\ DevolverInfra(e)
  /\ UNCHANGED <<executor, ctxFim, job, abandono, doAcompanhar, doConteiner>>

(* docker run *)
RodarDocker(e) ==
  /\ pc[e] = "nova" /\ executor = "local"
  /\ \/ /\ ~ctxFim[e]
        /\ Ir(e, "docker")
        /\ cont' = [cont EXCEPT ![e] = "lendo"]
        /\ UNCHANGED devolvido
     \/ /\ ctxFim[e]
        /\ Ir(e, "remover")
        /\ UNCHANGED <<cont, devolvido>>
     \/ /\ ~ctxFim[e] /\ Falhas
        /\ DevolverInfra(e)
        /\ UNCHANGED cont
  /\ UNCHANGED <<executor, ctxFim, job, mao, coletor, abandono, doAcompanhar>>

(* interpretarResultadoPublicado: what the client's stdout says, whatever its
   exit code.  A result that was delivered is there, unless the client failed;
   without a whole line of it the result is of infrastructure. *)
Publicados(e) ==
  ({mao[e]} \ {Nenhum})
    \union (IF cont[e] = "saiu0" /\ ~Falhas THEN {} ELSE {ResultadoDe(e, Infra)})

(* docker run ended with its container, or was killed with the context. *)
DockerTermina(e) ==
  /\ pc[e] = "docker"
  /\ \/ /\ ctxFim[e]
        /\ Ir(e, "remover")
        /\ UNCHANGED devolvido
     \/ /\ ~ctxFim[e] /\ cont[e] \in Encerrados
        /\ \E r \in Publicados(e) : Devolver(e, r)
  /\ UNCHANGED <<executor, ctxFim, job, abandono, doAcompanhar, doConteiner>>

(* The docker client ends on its own, and the container does not.  The call
   knows its name, and removes it only when its own context ended. *)
PerderDocker(e) ==
  /\ pc[e] = "docker" /\ ~ctxFim[e] /\ cont[e] \in Rodando /\ Falhas
  /\ \E r \in Publicados(e) : Devolver(e, r)
  /\ Abandonar(e, "cliente_terminou")
  /\ UNCHANGED <<executor, ctxFim, job, doAcompanhar, doConteiner>>

(* removerContainer, within tempoLimiteRemocao. *)
Remover(e) ==
  /\ pc[e] = "remover"
  /\ DevolverInfra(e)
  /\ \/ /\ cont' = [cont EXCEPT ![e] = IF @ \in Rodando THEN "morto" ELSE @]
        /\ UNCHANGED abandono
     \/ Abandonar(e, "parada_falhou") /\ UNCHANGED cont
  /\ UNCHANGED <<executor, ctxFim, job, mao, coletor, doAcompanhar>>

------------------------------------------------------------------------------
(* Programa.Executar, in the container of a call. *)

Escrever(e, t) ==
  /\ mao' = [mao EXCEPT ![e] = ResultadoDe(e, t)]
  /\ cont' = [cont EXCEPT ![e] = "entregando"]

(* Azure gives the program APROVA_SAIDA=coletor, docker gives stdout. *)
NoColetor == executor = "azure" /\ ColetorNoJob

(* EscolherPublicador, LerAmbiente and the language; without a collector the
   result is of infrastructure and goes to stdout. *)
Ler(e) ==
  /\ cont[e] = "lendo"
  /\ \/ Escrever(e, Infra)
     \/ /\ executor = "azure" => ColetorNoJob
        /\ cont' = [cont EXCEPT ![e] = "clonando"] /\ UNCHANGED mao
  /\ UNCHANGED <<executor, pc, ctxFim, devolvido, job, coletor, abandono, doAcompanhar>>

(* Clonador.Clonar and localizarProjeto.  Here and in Testar a command may fail
   for a reason of its own, or be cut short: the program's deadline passed, or
   it got a SIGTERM. *)
Clonar(e) ==
  /\ cont[e] = "clonando"
  /\ \/ Escrever(e, Infra)
     \/ cont' = [cont EXCEPT ![e] = "testando"] /\ UNCHANGED mao
  /\ UNCHANGED <<executor, pc, ctxFim, devolvido, job, coletor, abandono, doAcompanhar>>

(* Linguagem.Executar *)
Testar(e) ==
  /\ cont[e] = "testando"
  /\ \/ Escrever(e, Infra)
     \/ \E t \in Veredictos : Escrever(e, t)
  /\ UNCHANGED <<executor, pc, ctxFim, devolvido, job, coletor, abandono, doAcompanhar>>

Sair(e, como) == cont' = [cont EXCEPT ![e] = como]

(* Variant: ErrResultadoJaGravado counts as delivered. *)
GravarAceitandoRepetido(e) ==
  \/ /\ coletor[TaskRunDe[e]] = Nenhum
     /\ coletor' = [coletor EXCEPT ![TaskRunDe[e]] = mao[e]]
     /\ Sair(e, "saiu0")
  \/ /\ coletor[TaskRunDe[e]] # Nenhum
     /\ Sair(e, "saiu0")
     /\ UNCHANGED coletor

(* Variant: a delivery that failed ends the program with code 0. *)
GravarSemCodigo(e) ==
  /\ Sair(e, "saiu0")
  /\ \/ /\ coletor[TaskRunDe[e]] = Nenhum
        /\ coletor' = [coletor EXCEPT ![TaskRunDe[e]] = mao[e]]
     \/ UNCHANGED coletor

(* ColetorResultado.Gravar: the first result stays, a second one is refused;
   the reply of the database may be lost. *)
Gravar(e) ==
  \/ /\ coletor[TaskRunDe[e]] = Nenhum
     /\ coletor' = [coletor EXCEPT ![TaskRunDe[e]] = mao[e]]
     /\ Sair(e, "saiu0") \/ (Falhas /\ Sair(e, "saiu1"))
  \/ /\ coletor[TaskRunDe[e]] # Nenhum \/ Falhas
     /\ Sair(e, "saiu1")
     /\ UNCHANGED coletor

(* entregar: the exit code says whether the result was delivered. *)
Entregar(e) ==
  /\ cont[e] = "entregando"
  /\ \/ NoColetor /\ Gravar(e)
     \/ /\ ~NoColetor /\ UNCHANGED coletor
        /\ Sair(e, "saiu0") \/ (Falhas /\ Sair(e, "saiu1"))
  /\ UNCHANGED <<executor, pc, ctxFim, devolvido, job, mao, abandono, doAcompanhar>>

------------------------------------------------------------------------------
(* Azure, the host and the clocks. *)

IniciarJob(e) ==
  /\ job[e] = "Processing"
  /\ job' = [job EXCEPT ![e] = "Running"]
  /\ cont' = [cont EXCEPT ![e] = "lendo"]
  /\ UNCHANGED <<executor, pc, ctxFim, devolvido, mao, coletor, abandono, doAcompanhar>>

(* Succeeded is what Azure says of a container that ended with code 0. *)
EncerrarJob(e) ==
  /\ job[e] \in {"Running", "Stopping"} /\ cont[e] \in Encerrados
  /\ job' = [job EXCEPT ![e] = IF cont[e] = "saiu0" THEN "Succeeded" ELSE "Failed"]
  /\ UNCHANGED <<executor, pc, ctxFim, devolvido, abandono, doAcompanhar, doConteiner>>

(* The grace period of a stopped execution ends. *)
InterromperJob(e) ==
  /\ job[e] = "Stopping"
  /\ job' = [job EXCEPT ![e] = "Stopped"]
  /\ cont' = [cont EXCEPT ![e] = IF @ \in Rodando THEN "morto" ELSE @]
  /\ UNCHANGED <<executor, pc, ctxFim, devolvido, mao, coletor, abandono, doAcompanhar>>

(* The image cannot be pulled, the host is lost, the program is killed. *)
PerderHost(e) ==
  /\ Falhas
  /\ \/ /\ job[e] = "Processing"
        /\ job' = [job EXCEPT ![e] = "Failed"] /\ UNCHANGED cont
     \/ /\ cont[e] \in Rodando
        /\ cont' = [cont EXCEPT ![e] = "morto"] /\ UNCHANGED job
  /\ UNCHANGED <<executor, pc, ctxFim, devolvido, mao, coletor, abandono, doAcompanhar>>

EsgotarPrazo(e) ==
  /\ e \in ComPrazo /\ pc[e] # "fim" /\ ~ctxFim[e]
  /\ ctxFim' = [ctxFim EXCEPT ![e] = TRUE]
  /\ UNCHANGED <<executor, pc, devolvido, job, abandono, doAcompanhar, doConteiner>>

(* limiteParaIniciar, which counts only until the job is seen running. *)
VencerInicio(e) ==
  /\ pc[e] \in {"consultar", "dormir"} /\ ~iniciou[e] /\ ~vencido[e]
  /\ vencido' = [vencido EXCEPT ![e] = TRUE]
  /\ UNCHANGED <<executor, pc, ctxFim, devolvido, job, iniciou, viu, abandono, doConteiner>>

------------------------------------------------------------------------------
Init ==
  /\ executor \in {"azure", "local"}
  /\ pc = [e \in Execucoes |-> "nova"]
  /\ ctxFim = [e \in Execucoes |-> FALSE]
  /\ vencido = [e \in Execucoes |-> FALSE]
  /\ iniciou = [e \in Execucoes |-> FALSE]
  /\ devolvido = [e \in Execucoes |-> Nenhum]
  /\ job = [e \in Execucoes |-> "nenhum"]
  /\ cont = [e \in Execucoes |-> "nenhum"]
  /\ mao = [e \in Execucoes |-> Nenhum]
  /\ coletor = [t \in TaskRunIds |-> Nenhum]
  /\ viu = {}
  /\ abandono = [e \in Execucoes |-> "nao"]

Chamada(e) ==
  \/ Rejeitar(e) \/ Partir(e) \/ Disparar(e) \/ ReceberNome(e) \/ Consultar(e)
  \/ Dormir(e) \/ Parar(e) \/ ConfirmarParada(e) \/ LerResultado(e)
  \/ DesistirDoColetor(e) \/ RodarDocker(e) \/ DockerTermina(e) \/ Remover(e)

Programa(e) == Ler(e) \/ Clonar(e) \/ Testar(e) \/ Entregar(e)

Ambiente(e) ==
  \/ IniciarJob(e) \/ EncerrarJob(e) \/ InterromperJob(e)
  \/ PerderHost(e) \/ PerderDocker(e) \/ FalharNaLeitura(e) \/ EsgotarPrazo(e) \/ VencerInicio(e)

Next == \E e \in Execucoes : Chamada(e) \/ Programa(e) \/ Ambiente(e)

Spec == Init /\ [][Next]_vars

(* A call runs until it has to wait, and deadlines do pass.  Nothing is asked
   of the jobs, of the containers or of what may fail. *)
SpecJusta ==
  Spec /\ \A e \in Execucoes : WF_vars(Chamada(e)) /\ WF_vars(EsgotarPrazo(e))

------------------------------------------------------------------------------
(* Properties *)

TypeOK ==
  /\ executor \in {"azure", "local"}
  /\ pc \in [Execucoes -> Etapas]
  /\ ctxFim \in [Execucoes -> BOOLEAN] /\ vencido \in [Execucoes -> BOOLEAN]
  /\ iniciou \in [Execucoes -> BOOLEAN]
  /\ devolvido \in [Execucoes -> Resultados \union {Nenhum}]
  /\ mao \in [Execucoes -> Resultados \union {Nenhum}]
  /\ job \in [Execucoes -> Ativos \union Terminados \union {"nenhum"}]
  /\ cont \in [Execucoes -> Rodando \union Encerrados \union {"nenhum"}]
  /\ coletor \in [TaskRunIds -> Resultados \union {Nenhum}]
  /\ viu \subseteq Execucoes
  /\ abandono \in [Execucoes -> {"nao", "sem_nome", "parada_falhou", "cliente_terminou"}]

(* Executor.Executar with two executions of one task_run, of which the job of
   one may have been left running: what a call returns about the PR is what
   its own container found, and in Azure it is the result recorded. *)
ResultadoProprio ==
  \A e \in Execucoes : devolvido[e] # Nenhum =>
    /\ devolvido[e].de = e
    /\ executor = "azure" /\ devolvido[e].tipo # Infra =>
         coletor[TaskRunDe[e]] = devolvido[e]

(* The calls implement the abstract promise about the result of a task_run. *)
Promessa == INSTANCE ResultadoUnico WITH registra <- (executor = "azure"),
                                         registro <- coletor, resposta <- devolvido
ImplementaResultadoUnico == Promessa!AbsSpec

(* parar and removerContainer: a call that returned left no job active and no
   container running, and none comes up later, but for three cases: the stop or
   the removal was tried and not confirmed in time; Azure never gave the name of
   the execution; or the docker client ended by itself, before its container
   and before the call's context, and then Executar, which knows the name,
   tries no removal (executor_local.go:89-97). *)
NadaSobrevive ==
  \A e \in Execucoes : pc[e] = "fim" /\ (job[e] \in Ativos \/ cont[e] \in Rodando) =>
    \/ abandono[e] = "parada_falhou"
    \/ executor = "azure" /\ abandono[e] = "sem_nome"
    \/ executor = "local" /\ abandono[e] = "cliente_terminou"

(* limiteParaIniciar: a call that once saw its job running stops it only
   because its own context ended, whatever the status calls answered since. *)
SoParaSeAcabou ==
  \A e \in Execucoes :
    pc[e] # "parar" /\ pc'[e] = "parar" /\ e \in viu' => ctxFim[e]
PrazoDeInicioSoAntesDeRodar == [][SoParaSeAcabou]_vars

(* A call whose context has a deadline returns, whatever Azure, docker and
   the program in the container do or fail to do. *)
TodaExecucaoTermina == \A e \in ComPrazo : <>(pc[e] = "fim")

(* A job that Azure says succeeded has its result in the collector: even a
   call without a deadline does not wait for it forever. *)
ConcluidaEntrega ==
  \A e \in Execucoes : pc[e] = "aguardar" ~> pc[e] = "fim"

(* executor_azure_test.go says that an abandoned execution goes on being
   charged and has to be stopped: a call never returns with its job active
   without having asked for the stop. *)
AbandonadaEhParada ==
  \A e \in Execucoes : pc[e] = "fim" /\ job[e] \in Ativos => abandono[e] = "parada_falhou"
==============================================================================
