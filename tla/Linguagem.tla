------------------------------- MODULE Linguagem -------------------------------
(***************************************************************************)
(* What the program in the container does between reading its request and  *)
(* delivering a result: the commands it runs under one deadline, the test  *)
(* packages go test runs in the last of them, the events it makes of them, *)
(* and the result golang.Linguagem concludes from those.  Sandbox takes    *)
(* the verdict of this module as one step.                                 *)
(***************************************************************************)
EXTENDS Integers, Sequences, FiniteSets

CONSTANTS
  Pacotes,      \* packages of the repository that have tests
  Testes,       \* their top-level tests, by name
  PacoteDe,     \* PacoteDe[t]: the package of a test
  Paralelos,    \* how many packages go test runs at once
  ComPrazo,     \* TRUE: the executor was called with a deadline
  PrazoDoPedido, \* the time left until it, when the container is dispatched
  Subida,       \* margemParaSubirOContainer
  PrazoPadrao,  \* prazoPadraoDoContainer
  PrazoMaximo,  \* the longest deadline LerAmbiente accepts
  Margem,       \* margemParaEntregar
  Minimo,       \* tempoMinimoDosTestes
  Limpeza,      \* a bound on what follows the end of a command
  Extras,       \* bound on the lines of subtests and on broken lines
  MaxRelogio,   \* bound on the clock
  Nenhum        \* no result yet

SemTeste == "sem teste"
Subteste == "Teste/sub"

ASSUME LinguagemAssumption ==
  /\ PacoteDe \in [Testes -> Pacotes]
  /\ SemTeste \notin Testes /\ Subteste \notin Testes
  /\ Paralelos \in Nat \ {0}
  /\ ComPrazo \in BOOLEAN /\ PrazoDoPedido \in Nat /\ Subida \in Nat
  /\ PrazoPadrao \in Nat \ {0} /\ PrazoMaximo \in Nat /\ Margem \in Nat /\ Minimo \in Nat
  /\ Limpeza \in Nat /\ Extras \in Nat /\ MaxRelogio \in Nat
  /\ Nenhum \notin [compilou : BOOLEAN, passaram : Nat, falharam : Nat,
                    tipo : {"nenhuma", "teste", "compilacao", "infraestrutura"}]

VARIABLES
  relogio,     \* time since the program began
  sinal,       \* has the program been told to stop?
  etapa,       \* what it is doing
  fase,        \* of the command of this step: "parado", "rodando", "terminado"
  terminouEm,  \* when the command ended
  codigo,      \* its exit code, 0 or 1
  timeout,     \* the -timeout of go test
  pacote,      \* state of each package in go test
  desde,       \* when go test started it
  feito,       \* what each test reported: "pass", "fail", nothing ("correndo"), nothing ever ("travado")
  saida,       \* the lines go test wrote
  extras,      \* how many of them are of subtests or broken
  lida,        \* how many of them were considered
  apurado,     \* the apurador
  resultado,   \* the ResultadoSandbox
  pontual,     \* prophecy: does go test start and end its packages in time?
  cortado,     \* history: did the deadline or the signal end a command?
  naoCompila   \* history: did a build end with an error of its own?

relogios == <<relogio, sinal>>
doGoTest == <<pacote, desde, feito, saida, extras>>
historia == <<pontual, cortado, naoCompila>>
vars == <<relogios, etapa, fase, terminouEm, codigo, timeout, doGoTest, lida, apurado, resultado,
          historia>>

Compilacoes == {"compilar", "compilar_testes"}
Comandos == {"clonar", "baixar", "testar"} \union Compilacoes
Etapas == {"ler", "verificar", "calcular", "apurar", "entregar", "fim"} \union Comandos

Resultados == [compilou : BOOLEAN, passaram : Nat, falharam : Nat,
               tipo : {"nenhuma", "teste", "compilacao", "infraestrutura"}]
Linhas == [acao : {"pass", "fail", "build-fail", "invalida"}, pacote : Pacotes,
           teste : Testes \union {SemTeste, Subteste}, compilacaoFalhou : BOOLEAN]
Apurados == [passaram : Nat, falharam : Nat, falhaDeCompilacao : BOOLEAN,
             falhasPorPacote : [Pacotes -> Nat], pacotesQueFalharam : Seq(Pacotes)]

------------------------------------------------------------------------------
(* Variant: nothing is set apart for the start of the container. *)
PrazoSemMargem == IF ComPrazo /\ PrazoDoPedido > 1 THEN PrazoDoPedido ELSE 1

(* APROVA_PRAZO_SEGUNDOS, which the program counts from its own start: what is
   left to the executor, less the time a container takes to start. *)
Prazo ==
  CASE ~ComPrazo -> PrazoPadrao
    [] ComPrazo /\ PrazoDoPedido > Subida -> PrazoDoPedido - Subida
    [] OTHER -> 1

(* The context of the program ends with a signal or at its deadline. *)
CtxFim == sinal \/ relogio >= Prazo

Infra == [compilou |-> FALSE, passaram |-> 0, falharam |-> 0, tipo |-> "infraestrutura"]
FalhaDeCompilacao == [compilou |-> FALSE, passaram |-> 0, falharam |-> 0, tipo |-> "compilacao"]

Responder(r) == resultado' = r /\ etapa' = "entregar" /\ fase' = "parado" /\ terminouEm' = 0

Ir(e) == etapa' = e /\ fase' = "parado" /\ terminouEm' = 0 /\ UNCHANGED resultado

(* The step after a command that ended well. *)
Seguinte(e) ==
  CASE e = "clonar" -> "verificar" [] e = "baixar" -> "compilar"
    [] e = "compilar" -> "compilar_testes" [] e = "compilar_testes" -> "calcular"
    [] OTHER -> "apurar"

Seguir == Ir(Seguinte(etapa))

------------------------------------------------------------------------------
(* The program *)

(* LerAmbiente, and the language: what it refuses is infraestrutura. *)
Ler ==
  /\ etapa = "ler"
  /\ Responder(Infra) \/ (Prazo <= PrazoMaximo /\ Ir("clonar"))
  /\ UNCHANGED <<relogios, codigo, timeout, doGoTest, lida, apurado, historia>>

(* localizarProjeto and existeGoModNaRaiz. *)
Verificar ==
  /\ etapa = "verificar"
  /\ Responder(Infra) \/ Ir("baixar")
  /\ UNCHANGED <<relogios, codigo, timeout, doGoTest, lida, apurado, historia>>

(* Rodar: exec starts nothing when the context has ended. *)
Iniciar ==
  /\ etapa \in Comandos /\ fase = "parado"
  /\ ~CtxFim
  /\ fase' = "rodando"
  /\ UNCHANGED <<relogios, etapa, terminouEm, codigo, timeout, doGoTest, lida, apurado, resultado,
                 historia>>

(* Rodar: the context has ended, the user cannot be changed, there is no such
   binary. *)
NaoIniciar ==
  /\ etapa \in Comandos /\ fase = "parado"
  /\ Responder(Infra)
  /\ UNCHANGED <<relogios, codigo, timeout, doGoTest, lida, apurado, historia>>

(* Variant: Cancel is called for the signal, not for the deadline. *)
CancelarSoPeloSinal ==
  /\ fase = "rodando" /\ sinal
  /\ fase' = "terminado" /\ terminouEm' = relogio /\ codigo' = 1 /\ cortado' = TRUE
  /\ UNCHANGED <<relogios, etapa, timeout, doGoTest, lida, apurado, resultado, pontual,
                 naoCompila>>

(* Cancel: the end of the context kills the command and all it started. *)
Cancelar ==
  /\ fase = "rodando" /\ CtxFim
  /\ fase' = "terminado" /\ terminouEm' = relogio /\ codigo' = 1 /\ cortado' = TRUE
  /\ UNCHANGED <<relogios, etapa, timeout, doGoTest, lida, apurado, resultado, pontual,
                 naoCompila>>

(* Variant: the exit code of the command is looked at before the context. *)
InterpretarOCodigoAntes ==
  /\ fase = "terminado"
  /\ \/ codigo = 0 /\ CtxFim /\ Responder(Infra)
     \/ codigo = 0 /\ ~CtxFim /\ Seguir
     \/ codigo # 0 /\ etapa = "testar" /\ Seguir
     \/ codigo # 0 /\ etapa \in Compilacoes /\ Responder(FalhaDeCompilacao)
     \/ codigo # 0 /\ etapa \notin Compilacoes \union {"testar"} /\ Responder(Infra)
  /\ UNCHANGED <<relogios, codigo, timeout, doGoTest, lida, apurado, historia>>

(* interpretar, once limparRestantes is done: a context that ended meanwhile
   counts, whatever the command answered.  classificarCompilacao blames the PR
   for the error of a build; the one of git or of the download is ours, and the
   one of go test depends on its events. *)
Interpretar ==
  /\ fase = "terminado"
  /\ \/ CtxFim /\ Responder(Infra)
     \/ ~CtxFim /\ (codigo = 0 \/ etapa = "testar") /\ Seguir
     \/ ~CtxFim /\ codigo # 0 /\ etapa \in Compilacoes /\ Responder(FalhaDeCompilacao)
     \/ ~CtxFim /\ codigo # 0 /\ etapa \in {"clonar", "baixar"} /\ Responder(Infra)
  /\ UNCHANGED <<relogios, codigo, timeout, doGoTest, lida, apurado, historia>>

(* Variant: go test may use all the time there is. *)
CalcularSemMargem ==
  /\ etapa = "calcular"
  /\ LET restante == Prazo - relogio IN
     \/ restante < Minimo /\ Responder(Infra) /\ UNCHANGED <<timeout, pontual>>
     \/ /\ restante >= Minimo
        /\ timeout' = restante /\ Ir("testar") /\ pontual' \in BOOLEAN
  /\ UNCHANGED <<relogios, codigo, doGoTest, lida, apurado, cortado, naoCompila>>

(* The -timeout leaves time to deliver, or the tests are not run. *)
Calcular ==
  /\ etapa = "calcular"
  /\ LET restante == Prazo - relogio - Margem IN
     \/ restante < Minimo /\ Responder(Infra) /\ UNCHANGED <<timeout, pontual>>
     \/ /\ restante >= Minimo
        /\ timeout' = restante /\ Ir("testar") /\ pontual' \in BOOLEAN
  /\ UNCHANGED <<relogios, codigo, doGoTest, lida, apurado, cortado, naoCompila>>

(* ehTesteDeNivelSuperior *)
NivelSuperior(teste) == teste \notin {SemTeste, Subteste}

(* registrarFalhaDePacote *)
RegistrarFalhaDePacote(a, linha) ==
  IF linha.compilacaoFalhou
  THEN [a EXCEPT !.falhaDeCompilacao = TRUE]
  ELSE [a EXCEPT !.pacotesQueFalharam = Append(@, linha.pacote)]

(* contarTeste *)
ContarTeste(a, linha) ==
  IF linha.acao = "pass"
  THEN [a EXCEPT !.passaram = @ + 1]
  ELSE LET falhas == [a.falhasPorPacote EXCEPT ![linha.pacote] = @ + 1] IN
       [a EXCEPT !.falharam = a.falharam + 1, !.falhasPorPacote = falhas]

(* considerar *)
Apurado(a, linha) ==
  CASE linha.acao = "invalida" -> a
    [] linha.acao = "build-fail" -> [a EXCEPT !.falhaDeCompilacao = TRUE]
    [] linha.acao = "fail" /\ linha.teste = SemTeste -> RegistrarFalhaDePacote(a, linha)
    [] linha.acao \in {"pass", "fail"} /\ NivelSuperior(linha.teste) -> ContarTeste(a, linha)
    [] OTHER -> a

Considerar ==
  /\ etapa = "apurar" /\ lida < Len(saida)
  /\ apurado' = Apurado(apurado, saida[lida + 1])
  /\ lida' = lida + 1
  /\ UNCHANGED <<relogios, etapa, fase, terminouEm, codigo, timeout, doGoTest, resultado, historia>>

(* Variant: a package with a failed test counts once more. *)
ContandoTodoPacote == apurado.falharam + Len(apurado.pacotesQueFalharam)

(* concluir: a package that failed with no failed test counts as one. *)
Falharam ==
  apurado.falharam
    + Cardinality({k \in 1 .. Len(apurado.pacotesQueFalharam) :
                     apurado.falhasPorPacote[apurado.pacotesQueFalharam[k]] = 0})

Medido(compilou, tipo) ==
  [compilou |-> compilou, passaram |-> apurado.passaram, falharam |-> Falharam, tipo |-> tipo]

(* Variant: the exit code of go test is not looked at. *)
ClassificadoSemCodigo ==
  CASE apurado.falhaDeCompilacao -> Medido(FALSE, "compilacao")
    [] ~apurado.falhaDeCompilacao /\ Falharam > 0 -> Medido(TRUE, "teste")
    [] OTHER -> Medido(TRUE, "nenhuma")

(* Variant: a build that fails inside go test does not change Compilou. *)
ClassificadoComoCompilado ==
  CASE apurado.falhaDeCompilacao -> Medido(TRUE, "compilacao")
    [] ~apurado.falhaDeCompilacao /\ Falharam > 0 -> Medido(TRUE, "teste")
    [] ~apurado.falhaDeCompilacao /\ Falharam = 0 /\ codigo # 0 -> Infra
    [] OTHER -> Medido(TRUE, "nenhuma")

(* classificarTeste *)
Classificado ==
  CASE apurado.falhaDeCompilacao -> Medido(FALSE, "compilacao")
    [] ~apurado.falhaDeCompilacao /\ Falharam > 0 -> Medido(TRUE, "teste")
    [] ~apurado.falhaDeCompilacao /\ Falharam = 0 /\ codigo # 0 -> Infra
    [] OTHER -> Medido(TRUE, "nenhuma")

Concluir ==
  /\ etapa = "apurar" /\ lida = Len(saida)
  /\ Responder(Classificado)
  /\ UNCHANGED <<relogios, codigo, timeout, doGoTest, lida, apurado, historia>>

(* entregar, in a context that does not end. *)
Entregar ==
  /\ etapa = "entregar"
  /\ etapa' = "fim"
  /\ UNCHANGED <<relogios, fase, terminouEm, codigo, timeout, doGoTest, lida, apurado, resultado,
                 historia>>

------------------------------------------------------------------------------
(* The commands *)

(* git, the download or a build ends by itself, well or not. *)
ComandoTermina ==
  /\ etapa \in Comandos \ {"testar"} /\ fase = "rodando"
  /\ codigo' \in {0, 1}
  /\ fase' = "terminado" /\ terminouEm' = relogio
  /\ naoCompila' = (naoCompila \/ (etapa \in Compilacoes /\ codigo' = 1))
  /\ UNCHANGED <<relogios, etapa, timeout, doGoTest, lida, apurado, resultado, pontual,
                 cortado>>

NoGoTest == etapa = "testar" /\ fase = "rodando"
ForaDoGoTest == <<relogios, etapa, timeout, lida, apurado, resultado, historia>>

Linha(acao, p, teste, falhouBuild) ==
  [acao |-> acao, pacote |-> p, teste |-> teste, compilacaoFalhou |-> falhouBuild]

(* A line reaches the output, or is broken by what the commands of go test
   write between its events. *)
Escrever(linha) ==
  \/ saida' = Append(saida, linha) /\ UNCHANGED extras
  \/ /\ extras < Extras
     /\ saida' = Append(saida, [linha EXCEPT !.acao = "invalida"])
     /\ extras' = extras + 1

EmExecucao == {p \in Pacotes : pacote[p] = "rodando"}
DoPacote(p) == {t \in Testes : PacoteDe[t] = p}

IniciarPacote(p) ==
  /\ NoGoTest /\ pacote[p] = "fila" /\ Cardinality(EmExecucao) < Paralelos
  /\ pacote' = [pacote EXCEPT ![p] = "rodando"]
  /\ desde' = [desde EXCEPT ![p] = relogio]
  /\ UNCHANGED <<ForaDoGoTest, fase, terminouEm, codigo, feito, saida, extras>>

(* The build or the vet of a package fails inside go test. *)
PacoteNaoCompila(p) ==
  /\ NoGoTest /\ pacote[p] = "fila"
  /\ pacote' = [pacote EXCEPT ![p] = "nao_compila"]
  /\ saida' = saida \o <<Linha("build-fail", p, SemTeste, FALSE), Linha("fail", p, SemTeste, TRUE)>>
  /\ UNCHANGED <<ForaDoGoTest, fase, terminouEm, codigo, desde, feito, extras>>

TesteTermina(t) ==
  /\ NoGoTest /\ pacote[PacoteDe[t]] = "rodando" /\ feito[t] = "correndo"
  /\ \E acao \in {"pass", "fail"} :
       /\ feito' = [feito EXCEPT ![t] = acao]
       /\ Escrever(Linha(acao, PacoteDe[t], t, FALSE))
  /\ UNCHANGED <<ForaDoGoTest, fase, terminouEm, codigo, pacote, desde>>

(* A test that will not end, and reports nothing. *)
Travar(t) ==
  /\ NoGoTest /\ pacote[PacoteDe[t]] = "rodando" /\ feito[t] = "correndo"
  /\ feito' = [feito EXCEPT ![t] = "travado"]
  /\ UNCHANGED <<ForaDoGoTest, fase, terminouEm, codigo, pacote, desde, saida, extras>>

SubtesteTermina(t) ==
  /\ NoGoTest /\ pacote[PacoteDe[t]] = "rodando" /\ feito[t] = "correndo"
  /\ extras < Extras /\ extras' = extras + 1
  /\ \E acao \in {"pass", "fail"} : saida' = Append(saida, Linha(acao, PacoteDe[t], Subteste, FALSE))
  /\ UNCHANGED <<ForaDoGoTest, fase, terminouEm, codigo, pacote, desde, feito>>

PacotePassa(p) ==
  /\ NoGoTest /\ pacote[p] = "rodando"
  /\ \A t \in DoPacote(p) : feito[t] = "pass"
  /\ pacote' = [pacote EXCEPT ![p] = "passou"]
  /\ desde' = [desde EXCEPT ![p] = 0]
  /\ Escrever(Linha("pass", p, SemTeste, FALSE))
  /\ UNCHANGED <<ForaDoGoTest, fase, terminouEm, codigo, feito>>

(* A test failed, the binary crashed, or its -timeout passed. *)
PacoteFalha(p) ==
  /\ NoGoTest /\ pacote[p] = "rodando"
  /\ pacote' = [pacote EXCEPT ![p] = "falhou"]
  /\ desde' = [desde EXCEPT ![p] = 0]
  /\ Escrever(Linha("fail", p, SemTeste, FALSE))
  /\ UNCHANGED <<ForaDoGoTest, fase, terminouEm, codigo, feito>>

Acabou == \A p \in Pacotes : pacote[p] \notin {"fila", "rodando"}

(* go test ends: with 0 only if every package passed; with another code also
   when it is killed before its packages end. *)
GoTestTermina ==
  /\ NoGoTest
  /\ codigo' \in {0, 1}
  /\ codigo' = 0 => \A p \in Pacotes : pacote[p] = "passou"
  /\ fase' = "terminado" /\ terminouEm' = relogio
  /\ UNCHANGED <<ForaDoGoTest, doGoTest>>

------------------------------------------------------------------------------
(* The clock and the signal *)

Estourado(p) == pacote[p] = "rodando" /\ relogio >= desde[p] + timeout

(* Time passes while a command runs or is left behind, the steps of the program
   itself take none, and only when nothing that is due is left: Cancel acts at once, a command
   that ended is left behind within Limpeza, and go test, when it is punctual,
   starts a package as soon as it may, ends one at its -timeout, and ends after
   the last. *)
PassarTempo ==
  /\ relogio < MaxRelogio /\ fase # "parado"
  /\ ~(fase = "rodando" /\ CtxFim)
  /\ fase = "terminado" => relogio < terminouEm + Limpeza
  /\ NoGoTest /\ pontual =>
       /\ ~Acabou
       /\ \A p \in Pacotes : ~Estourado(p)
       /\ \A p \in Pacotes : pacote[p] = "fila" => Cardinality(EmExecucao) >= Paralelos
  /\ relogio' = relogio + 1
  /\ UNCHANGED <<sinal, etapa, fase, terminouEm, codigo, timeout, doGoTest, lida, apurado, resultado,
                 historia>>

(* SIGTERM: Azure or docker stops the container; once the commands are over it
   changes nothing. *)
Sinalizar ==
  /\ ~sinal /\ etapa \in Comandos
  /\ sinal' = TRUE
  /\ UNCHANGED <<relogio, etapa, fase, terminouEm, codigo, timeout, doGoTest, lida, apurado,
                 resultado, historia>>

------------------------------------------------------------------------------
Init ==
  /\ relogio = 0 /\ sinal = FALSE
  /\ etapa = "ler" /\ fase = "parado" /\ terminouEm = 0 /\ codigo = 0 /\ timeout = 0
  /\ pacote = [p \in Pacotes |-> "fila"]
  /\ desde = [p \in Pacotes |-> 0]
  /\ feito = [t \in Testes |-> "correndo"]
  /\ saida = <<>> /\ extras = 0 /\ lida = 0
  /\ apurado = [passaram |-> 0, falharam |-> 0, falhaDeCompilacao |-> FALSE,
                falhasPorPacote |-> [p \in Pacotes |-> 0], pacotesQueFalharam |-> <<>>]
  /\ resultado = Nenhum
  /\ pontual = FALSE /\ cortado = FALSE /\ naoCompila = FALSE

Programa ==
  \/ Ler \/ Verificar \/ Iniciar \/ NaoIniciar \/ Cancelar \/ Interpretar \/ Calcular
  \/ Considerar \/ Concluir \/ Entregar

GoTest ==
  \/ \E p \in Pacotes :
       IniciarPacote(p) \/ PacoteNaoCompila(p) \/ PacotePassa(p) \/ PacoteFalha(p)
  \/ \E t \in Testes : TesteTermina(t) \/ Travar(t) \/ SubtesteTermina(t)
  \/ GoTestTermina

Next == Programa \/ ComandoTermina \/ GoTest \/ PassarTempo \/ Sinalizar

Spec == Init /\ [][Next]_vars

(* The program runs on, time passes, and a punctual go test goes on; any other
   command, and a go test that is not punctual, may never end by itself. *)
SpecJusta ==
  Spec /\ WF_vars(Programa) /\ WF_vars(PassarTempo) /\ WF_vars(pontual /\ GoTest)

------------------------------------------------------------------------------
(* Properties *)

TypeOK ==
  /\ relogio \in Nat /\ sinal \in BOOLEAN
  /\ etapa \in Etapas /\ fase \in {"parado", "rodando", "terminado"}
  /\ terminouEm \in Nat /\ codigo \in {0, 1} /\ timeout \in Nat
  /\ pacote \in [Pacotes -> {"fila", "rodando", "passou", "falhou", "nao_compila"}]
  /\ desde \in [Pacotes -> Nat]
  /\ feito \in [Testes -> {"correndo", "pass", "fail", "travado"}]
  /\ saida \in Seq(Linhas) /\ extras \in Nat /\ lida \in 0 .. Len(saida)
  /\ apurado \in Apurados
  /\ resultado \in Resultados \union {Nenhum}
  /\ pontual \in BOOLEAN /\ cortado \in BOOLEAN /\ naoCompila \in BOOLEAN

(* A PR passes only if every package of it passed, whatever go test wrote, in
   whatever order, and however it ended. *)
NaoEscondeFalha ==
  resultado # Nenhum /\ resultado.tipo = "nenhuma" => \A p \in Pacotes : pacote[p] = "passou"

(* TipoFalha: the PR is blamed only for what it did: a command that the deadline
   or a signal ended proves nothing, a compilation failed by itself, and behind
   a failed test there is a test or a package that failed. *)
CulpaComprovada ==
  resultado # Nenhum =>
    /\ cortado => resultado.tipo = "infraestrutura"
    /\ resultado.tipo = "compilacao" => naoCompila \/ \E p \in Pacotes : pacote[p] = "nao_compila"
    /\ resultado.tipo = "teste" =>
         (\E t \in Testes : feito[t] = "fail") \/ \E p \in Pacotes : pacote[p] = "falhou"

(* A failed package with no failed test of its own counts as one failure. *)
FalhouSozinho(p) == pacote[p] = "falhou" /\ \A t \in DoPacote(p) : feito[t] # "fail"

(* TestesPassaram and TestesFalharam: if no line was broken and go test was not
   killed, they count the top-level tests, and the packages that failed alone,
   in whatever order the lines came. *)
ContagemFiel ==
  /\ resultado # Nenhum /\ resultado.tipo \in {"nenhuma", "teste"}
  /\ \A k \in 1 .. Len(saida) : saida[k].acao # "invalida"
  =>
  /\ resultado.passaram = Cardinality({t \in Testes : feito[t] = "pass"})
  /\ resultado.falharam = Cardinality({t \in Testes : feito[t] = "fail"})
                            + Cardinality({p \in Pacotes : FalhouSozinho(p)})

(* sandbox_results: the CHECKs of the table accept every result. *)
AceitoPeloBanco ==
  resultado # Nenhum =>
    /\ resultado.tipo = "nenhuma" => resultado.compilou /\ resultado.falharam = 0
    /\ resultado.tipo = "compilacao" => ~resultado.compilou

(* margemParaEntregar: the deadline never cuts a punctual go test while a test
   that does not end holds it; that test runs into the -timeout before. *)
TravaEhCulpaDoPR ==
  resultado # Nenhum /\ pontual /\ cortado /\ ~sinal =>
    \A t \in Testes : feito[t] = "travado" => pacote[PacoteDe[t]] # "rodando"

(* margemParaSubirOContainer: the executor that dispatched the container still
   waits when the program delivers, if what the container took to start and what
   followed its last command fit in that margin. *)
EntregaATempo ==
  etapa \in {"entregar", "fim"} /\ ComPrazo /\ PrazoDoPedido > Subida =>
    \A atraso \in 0 .. Subida - Limpeza : atraso + relogio <= PrazoDoPedido

(* The program ends, although a command may never end by itself. *)
TodaExecucaoTermina == <>(etapa = "fim")
==============================================================================
