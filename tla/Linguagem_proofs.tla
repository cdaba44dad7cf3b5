--------------------------- MODULE Linguagem_proofs ---------------------------
(* Proofs about Linguagem.  IndInv ties what the program concludes to what the
   commands did: an exit code and a line of go test prove something about the
   packages, the apurador rests on the lines it read, and a command that was cut
   can only end in infraestrutura.  MargemInv ties the clock to the -timeout of
   the packages; it holds when no package has to wait for another. *)
EXTENDS Linguagem, FiniteSetTheorems, TLAPS

------------------------------------------------------------------------------
(* The inductive invariant *)

(* A result is there from Responder on, commands run in their own steps, and one
   that was cut is on its way to infraestrutura. *)
EtapaInv ==
  /\ resultado # Nenhum => etapa \in {"entregar", "fim"}
  /\ fase # "parado" => etapa \in Comandos
  /\ cortado => (fase = "terminado" /\ CtxFim)
                  \/ (resultado # Nenhum /\ resultado.tipo = "infraestrutura")

(* What an exit code proves. *)
CodigoInv ==
  /\ codigo = 0 /\ (etapa = "apurar" \/ (etapa = "testar" /\ fase = "terminado")) =>
       \A p \in Pacotes : pacote[p] = "passou"
  /\ fase = "terminado" /\ codigo = 1 /\ etapa \in Compilacoes => cortado \/ naoCompila

(* What a line proves. *)
LinhaVerdadeira(linha) ==
  /\ linha.acao = "build-fail" => pacote[linha.pacote] = "nao_compila"
  /\ linha.acao = "fail" =>
       /\ linha.teste = SemTeste /\ linha.compilacaoFalhou => pacote[linha.pacote] = "nao_compila"
       /\ linha.teste = SemTeste /\ ~linha.compilacaoFalhou => pacote[linha.pacote] = "falhou"
       /\ linha.teste \in Testes => feito[linha.teste] = "fail"

LinhasInv == \A k \in 1 .. Len(saida) : LinhaVerdadeira(saida[k])

(* What the apurador has rests on the lines it read. *)
ApuradoInv ==
  /\ apurado.falhaDeCompilacao => \E p \in Pacotes : pacote[p] = "nao_compila"
  /\ apurado.falharam > 0 => \E t \in Testes : feito[t] = "fail"
  /\ apurado.pacotesQueFalharam # <<>> => \E p \in Pacotes : pacote[p] = "falhou"

IndInv ==
  TypeOK /\ EtapaInv /\ CodigoInv /\ LinhasInv /\ ApuradoInv /\ NaoEscondeFalha
    /\ CulpaComprovada /\ AceitoPeloBanco

(* Every test that ended has one line, and it says what the test reported unless
   it is broken. *)
TestesEscritos ==
  /\ \A k \in 1 .. Len(saida) : saida[k].teste \in Testes =>
       /\ saida[k].pacote = PacoteDe[saida[k].teste]
       /\ feito[saida[k].teste] \in {"pass", "fail"}
       /\ saida[k].acao \in {feito[saida[k].teste], "invalida"}
  /\ \A j, k \in 1 .. Len(saida) :
       saida[j].teste \in Testes /\ saida[j].teste = saida[k].teste => j = k
  /\ \A t \in Testes : feito[t] \in {"pass", "fail"} =>
       \E k \in 1 .. Len(saida) : saida[k].teste = t

(* So does every package that failed, but for the ones that did not compile. *)
DePacote(linha) == linha.teste = SemTeste /\ ~linha.compilacaoFalhou /\ linha.acao # "build-fail"

PacotesEscritos ==
  /\ \A k \in 1 .. Len(saida) : DePacote(saida[k]) =>
       \/ pacote[saida[k].pacote] = "passou" /\ saida[k].acao \in {"pass", "invalida"}
       \/ pacote[saida[k].pacote] = "falhou" /\ saida[k].acao \in {"fail", "invalida"}
  /\ \A j, k \in 1 .. Len(saida) :
       DePacote(saida[j]) /\ DePacote(saida[k]) /\ saida[j].pacote = saida[k].pacote => j = k
  /\ \A p \in Pacotes : pacote[p] = "falhou" =>
       \E k \in 1 .. Len(saida) : DePacote(saida[k]) /\ saida[k].pacote = p

(* The apurador has counted each test and each failed package of the lines it
   read once. *)
Lidos(acao) == {t \in Testes : \E k \in 1 .. lida : saida[k].teste = t /\ saida[k].acao = acao}
FalhaLida(p) ==
  \E k \in 1 .. lida : DePacote(saida[k]) /\ saida[k].acao = "fail" /\ saida[k].pacote = p

TestesContados ==
  /\ \A acao \in {"pass", "fail"} : IsFiniteSet(Lidos(acao))
  /\ apurado.passaram = Cardinality(Lidos("pass"))
  /\ apurado.falharam = Cardinality(Lidos("fail"))
  /\ \A p \in Pacotes : apurado.falhasPorPacote[p] = 0 <=> DoPacote(p) \intersect Lidos("fail") = {}

PacotesContados ==
  LET s == apurado.pacotesQueFalharam IN
  /\ \A p \in Pacotes : FalhaLida(p) <=> \E i \in 1 .. Len(s) : s[i] = p
  /\ \A i, j \in 1 .. Len(s) : s[i] = s[j] => i = j

(* A result with counts is concluded once every line was read. *)
ConclusaoInv ==
  resultado # Nenhum /\ resultado.tipo \in {"nenhuma", "teste"} =>
    /\ lida = Len(saida)
    /\ resultado.passaram = apurado.passaram /\ resultado.falharam = Falharam

ContagemInv ==
  TestesEscritos /\ PacotesEscritos /\ TestesContados /\ PacotesContados /\ ConclusaoInv

(* No command runs past the deadline, and little follows the last one. *)
TempoInv ==
  /\ fase = "rodando" => relogio <= Prazo
  /\ fase = "terminado" => terminouEm <= Prazo /\ relogio <= terminouEm + Limpeza
  /\ relogio <= Prazo + Limpeza

(* While a punctual go test runs and no package has to wait for another, the
   -timeout of every package lies Margem before the deadline. *)
AntesDosTestes == etapa \in Etapas \ {"testar", "apurar", "entregar", "fim"}

MargemInv ==
  /\ AntesDosTestes \/ (etapa = "testar" /\ fase = "parado") => \A p \in Pacotes : pacote[p] = "fila"
  /\ AntesDosTestes => ~pontual
  /\ pontual /\ etapa = "testar" /\ fase = "parado" => relogio + timeout + Margem = Prazo
  /\ pontual /\ NoGoTest =>
       \A p \in Pacotes :
         /\ pacote[p] = "fila" => relogio + timeout + Margem = Prazo
         /\ pacote[p] = "rodando" =>
              desde[p] + timeout + Margem = Prazo /\ relogio <= desde[p] + timeout
  /\ pontual /\ cortado /\ ~sinal => \A p \in Pacotes : pacote[p] # "rodando"

------------------------------------------------------------------------------
(* APROVA_PRAZO_SEGUNDOS is a number of seconds. *)
LEMMA PrazoNatural == Prazo \in Nat
  <1>1. PrazoDoPedido > Subida => PrazoDoPedido - Subida \in Nat
    BY LinguagemAssumption
  <1> QED
    BY <1>1, LinguagemAssumption DEF Prazo

(* The packages that failed alone are finitely many, none when none failed. *)
LEMMA FatoDeFalharam ==
  ASSUME TypeOK
  PROVE  /\ Falharam \in Nat
         /\ Falharam > 0 => apurado.falharam > 0 \/ apurado.pacotesQueFalharam # <<>>
  <1> DEFINE Sozinhos == {k \in 1 .. Len(apurado.pacotesQueFalharam) :
                            apurado.falhasPorPacote[apurado.pacotesQueFalharam[k]] = 0}
  <1>1. apurado.falharam \in Nat /\ Len(apurado.pacotesQueFalharam) \in Nat
    BY DEF TypeOK, Apurados
  <1>2. IsFiniteSet(1 .. Len(apurado.pacotesQueFalharam))
    BY <1>1, FS_Interval
  <1>3. IsFiniteSet(Sozinhos)
    BY <1>2, FS_Subset
  <1>4. Cardinality(Sozinhos) \in Nat
    BY <1>3, FS_CardinalityType
  <1>5. apurado.pacotesQueFalharam = <<>> => Cardinality(Sozinhos) = 0
    <2> SUFFICES ASSUME apurado.pacotesQueFalharam = <<>> PROVE Cardinality(Sozinhos) = 0
      OBVIOUS
    <2>1. Sozinhos = {}
      OBVIOUS
    <2> QED
      BY <2>1, FS_EmptySet
  <1>6. Falharam = apurado.falharam + Cardinality(Sozinhos)
    BY DEF Falharam
  <1> HIDE DEF Sozinhos
  <1> QED
    BY <1>1, <1>4, <1>5, <1>6

(* What classificarTeste may answer, and what it takes. *)
LEMMA FatoDeClassificado ==
  ASSUME TypeOK
  PROVE  /\ Classificado \in Resultados
         /\ Classificado.tipo = "nenhuma" =>
              codigo = 0 /\ Classificado.compilou /\ Classificado.falharam = 0
         /\ Classificado.tipo = "compilacao" => ~Classificado.compilou /\ apurado.falhaDeCompilacao
         /\ Classificado.tipo = "teste" =>
              apurado.falharam > 0 \/ apurado.pacotesQueFalharam # <<>>
  <1>1. Falharam \in Nat /\ apurado.passaram \in Nat /\ apurado.falhaDeCompilacao \in BOOLEAN
    BY FatoDeFalharam DEF TypeOK, Apurados
  <1>2. CASE apurado.falhaDeCompilacao
    BY <1>1, <1>2 DEF Classificado, Medido, Resultados
  <1>3. CASE ~apurado.falhaDeCompilacao /\ Falharam > 0
    BY <1>1, <1>3, FatoDeFalharam DEF Classificado, Medido, Resultados
  <1>4. CASE ~apurado.falhaDeCompilacao /\ Falharam = 0 /\ codigo # 0
    BY <1>1, <1>4 DEF Classificado, Infra, Resultados
  <1>5. CASE ~apurado.falhaDeCompilacao /\ Falharam = 0 /\ codigo = 0
    BY <1>1, <1>5 DEF Classificado, Medido, Resultados
  <1> QED
    BY <1>1, <1>2, <1>3, <1>4, <1>5

(* considerar keeps the shape of the apurador, and a line counts as a failure
   only if it is one. *)
LEMMA FatoDeApurado ==
  ASSUME NEW a \in Apurados, NEW linha \in Linhas
  PROVE  /\ Apurado(a, linha) \in Apurados
         /\ Apurado(a, linha).falhaDeCompilacao =>
              a.falhaDeCompilacao \/ linha.acao = "build-fail"
                \/ (linha.acao = "fail" /\ linha.teste = SemTeste /\ linha.compilacaoFalhou)
         /\ Apurado(a, linha).falharam > 0 =>
              a.falharam > 0 \/ (linha.acao = "fail" /\ linha.teste \in Testes)
         /\ Apurado(a, linha).pacotesQueFalharam # <<>> =>
              a.pacotesQueFalharam # <<>>
                \/ (linha.acao = "fail" /\ linha.teste = SemTeste /\ ~linha.compilacaoFalhou)
  <1>1. CASE linha.acao = "invalida"
    BY <1>1 DEF Apurado
  <1>2. CASE linha.acao = "build-fail"
    BY <1>2 DEF Apurado, Apurados
  <1>3. CASE linha.acao = "fail" /\ linha.teste = SemTeste
    <2>1. Apurado(a, linha) = RegistrarFalhaDePacote(a, linha)
      BY <1>3 DEF Apurado, NivelSuperior
    <2>2. linha.compilacaoFalhou \in BOOLEAN /\ linha.pacote \in Pacotes
      BY DEF Linhas
    <2>3. CASE linha.compilacaoFalhou
      BY <1>3, <2>1, <2>3 DEF RegistrarFalhaDePacote, Apurados
    <2>4. CASE ~linha.compilacaoFalhou
      <3> DEFINE b == [a EXCEPT !.pacotesQueFalharam = Append(@, linha.pacote)]
      <3>1. Append(a.pacotesQueFalharam, linha.pacote) \in Seq(Pacotes)
        BY <2>2 DEF Apurados
      <3>2. b \in Apurados /\ b.falharam = a.falharam /\ b.falhaDeCompilacao = a.falhaDeCompilacao
        BY <3>1 DEF Apurados
      <3>3. Apurado(a, linha) = b
        BY <2>1, <2>4 DEF RegistrarFalhaDePacote
      <3> HIDE DEF b
      <3> QED
        BY <1>3, <2>4, <3>2, <3>3
    <2> QED
      BY <2>2, <2>3, <2>4
  <1>4. CASE linha.acao = "pass" /\ NivelSuperior(linha.teste)
    <2> DEFINE mais == a.passaram + 1
               b == [a EXCEPT !.passaram = mais]
    <2>1. Apurado(a, linha) = b
      BY <1>4 DEF Apurado, ContarTeste, NivelSuperior
    <2>k. mais \in Nat
      BY DEF Apurados
    <2> HIDE DEF mais
    <2>2. /\ b \in Apurados /\ b.falharam = a.falharam /\ b.falhaDeCompilacao = a.falhaDeCompilacao
          /\ b.pacotesQueFalharam = a.pacotesQueFalharam
      BY <2>k DEF Apurados
    <2> HIDE DEF b
    <2> QED
      BY <2>1, <2>2
  <1>5. CASE linha.acao = "fail" /\ NivelSuperior(linha.teste)
    <2> DEFINE novas == [a.falhasPorPacote EXCEPT ![linha.pacote] = @ + 1]
               mais == a.falharam + 1
               b == [a EXCEPT !.falharam = mais, !.falhasPorPacote = novas]
    <2>1. Apurado(a, linha) = b
      BY <1>5 DEF Apurado, ContarTeste, NivelSuperior
    <2>2. linha.teste \in Testes /\ linha.pacote \in Pacotes
      BY <1>5 DEF NivelSuperior, Linhas
    <2>3. novas \in [Pacotes -> Nat]
      BY <2>2 DEF Apurados
    <2>k. mais \in Nat
      BY DEF Apurados
    <2> HIDE DEF novas, mais
    <2>4. /\ b \in Apurados /\ b.falhaDeCompilacao = a.falhaDeCompilacao
          /\ b.pacotesQueFalharam = a.pacotesQueFalharam
      BY <2>3, <2>k DEF Apurados
    <2> HIDE DEF b
    <2> QED
      BY <1>5, <2>1, <2>2, <2>4
  <1>6. CASE /\ linha.acao \in {"pass", "fail"} /\ ~NivelSuperior(linha.teste)
             /\ ~(linha.acao = "fail" /\ linha.teste = SemTeste)
    BY <1>6 DEF Apurado
  <1>7. linha.acao \in {"pass", "fail", "build-fail", "invalida"}
    BY DEF Linhas
  <1> QED
    BY <1>1, <1>2, <1>3, <1>4, <1>5, <1>6, <1>7

LEMMA InitIndInv == Init => IndInv
  <1> SUFFICES ASSUME Init PROVE IndInv
    OBVIOUS
  <1>1. apurado \in Apurados
    BY DEF Init, Apurados
  <1>2. saida \in Seq(Linhas) /\ lida \in 0 .. Len(saida) /\ Len(saida) = 0
    BY DEF Init
  <1>3. TypeOK
    BY <1>1, <1>2, LinguagemAssumption DEF Init, TypeOK, Etapas, Comandos, Compilacoes
  <1>4. EtapaInv /\ CodigoInv /\ NaoEscondeFalha /\ CulpaComprovada /\ AceitoPeloBanco
    BY DEF Init, EtapaInv, CodigoInv, NaoEscondeFalha, CulpaComprovada, AceitoPeloBanco, Compilacoes
  <1>5. LinhasInv /\ ApuradoInv
    BY <1>2 DEF Init, LinhasInv, ApuradoInv
  <1> QED
    BY <1>3, <1>4, <1>5 DEF IndInv

(* A step of the program, but for the end of a command, keeps the invariant. *)
LEMMA PassoDoPrograma ==
  ASSUME IndInv, Ler \/ Verificar \/ Iniciar \/ NaoIniciar \/ Cancelar
           \/ Calcular \/ Considerar \/ Concluir \/ Entregar \/ ComandoTermina
  PROVE  IndInv'
  <1> USE LinguagemAssumption, PrazoNatural
  <1>0. TypeOK /\ EtapaInv /\ CodigoInv /\ LinhasInv /\ ApuradoInv
        /\ NaoEscondeFalha /\ CulpaComprovada /\ AceitoPeloBanco
    BY DEF IndInv
  <1>n. Infra \in Resultados /\ FalhaDeCompilacao \in Resultados /\ Nenhum \notin Resultados
    BY LinguagemAssumption DEF Infra, FalhaDeCompilacao, Resultados
  <1>1. CASE Ler
    <2>1. TypeOK'
      BY <1>0, <1>n, <1>1 DEF Ler, Responder, Ir, relogios, doGoTest, historia, TypeOK,
                              Etapas, Comandos, Compilacoes
    <2>2. EtapaInv'
      BY <1>0, <1>n, <1>1 DEF Ler, Responder, Ir, relogios, doGoTest, historia, TypeOK,
                              EtapaInv, CtxFim, Comandos, Compilacoes, Infra
    <2>3. CodigoInv'
      BY <1>0, <1>n, <1>1 DEF Ler, Responder, Ir, relogios, doGoTest, historia, TypeOK,
                              CodigoInv, EtapaInv, Comandos, Compilacoes
    <2>4. LinhasInv'
      BY <1>0, <1>n, <1>1 DEF Ler, Responder, Ir, relogios, doGoTest, historia, LinhasInv,
                              LinhaVerdadeira
    <2>5. ApuradoInv'
      BY <1>0, <1>n, <1>1 DEF Ler, Responder, Ir, relogios, doGoTest, historia, ApuradoInv
    <2>6. NaoEscondeFalha'
      BY <1>0, <1>n, <1>1 DEF Ler, Responder, Ir, relogios, doGoTest, historia,
                              NaoEscondeFalha, EtapaInv, CodigoInv, Comandos, Compilacoes,
                              Infra
    <2>7. CulpaComprovada'
      BY <1>0, <1>n, <1>1 DEF Ler, Responder, Ir, relogios, doGoTest, historia,
                              CulpaComprovada, EtapaInv, Comandos, Compilacoes, Infra
    <2>8. AceitoPeloBanco'
      BY <1>0, <1>n, <1>1 DEF Ler, Responder, Ir, relogios, doGoTest, historia,
                              AceitoPeloBanco, EtapaInv, Comandos, Compilacoes, Infra
    <2> QED
      BY <2>1, <2>2, <2>3, <2>4, <2>5, <2>6, <2>7, <2>8 DEF IndInv
  <1>2. CASE Verificar
    <2>1. TypeOK'
      BY <1>0, <1>n, <1>2 DEF Verificar, Responder, Ir, relogios, doGoTest, historia,
                              TypeOK, Etapas, Comandos, Compilacoes
    <2>2. EtapaInv'
      BY <1>0, <1>n, <1>2 DEF Verificar, Responder, Ir, relogios, doGoTest, historia,
                              TypeOK, EtapaInv, CtxFim, Comandos, Compilacoes, Infra
    <2>3. CodigoInv'
      BY <1>0, <1>n, <1>2 DEF Verificar, Responder, Ir, relogios, doGoTest, historia,
                              TypeOK, CodigoInv, EtapaInv, Comandos, Compilacoes
    <2>4. LinhasInv'
      BY <1>0, <1>n, <1>2 DEF Verificar, Responder, Ir, relogios, doGoTest, historia,
                              LinhasInv, LinhaVerdadeira
    <2>5. ApuradoInv'
      BY <1>0, <1>n, <1>2 DEF Verificar, Responder, Ir, relogios, doGoTest, historia,
                              ApuradoInv
    <2>6. NaoEscondeFalha'
      BY <1>0, <1>n, <1>2 DEF Verificar, Responder, Ir, relogios, doGoTest, historia,
                              NaoEscondeFalha, EtapaInv, CodigoInv, Comandos, Compilacoes,
                              Infra
    <2>7. CulpaComprovada'
      BY <1>0, <1>n, <1>2 DEF Verificar, Responder, Ir, relogios, doGoTest, historia,
                              CulpaComprovada, EtapaInv, Comandos, Compilacoes, Infra
    <2>8. AceitoPeloBanco'
      BY <1>0, <1>n, <1>2 DEF Verificar, Responder, Ir, relogios, doGoTest, historia,
                              AceitoPeloBanco, EtapaInv, Comandos, Compilacoes, Infra
    <2> QED
      BY <2>1, <2>2, <2>3, <2>4, <2>5, <2>6, <2>7, <2>8 DEF IndInv
  <1>3. CASE Iniciar
    <2>1. TypeOK'
      BY <1>0, <1>n, <1>3 DEF Iniciar, relogios, doGoTest, historia, TypeOK, Etapas,
                              Comandos, Compilacoes
    <2>2. EtapaInv'
      BY <1>0, <1>n, <1>3 DEF Iniciar, relogios, doGoTest, historia, TypeOK, EtapaInv,
                              CtxFim, Comandos, Compilacoes
    <2>3. CodigoInv'
      BY <1>0, <1>n, <1>3 DEF Iniciar, relogios, doGoTest, historia, TypeOK, CodigoInv,
                              EtapaInv, Comandos, Compilacoes
    <2>4. LinhasInv'
      BY <1>0, <1>n, <1>3 DEF Iniciar, relogios, doGoTest, historia, LinhasInv,
                              LinhaVerdadeira
    <2>5. ApuradoInv'
      BY <1>0, <1>n, <1>3 DEF Iniciar, relogios, doGoTest, historia, ApuradoInv
    <2>6. NaoEscondeFalha'
      BY <1>0, <1>n, <1>3 DEF Iniciar, relogios, doGoTest, historia, NaoEscondeFalha,
                              EtapaInv, CodigoInv, Comandos, Compilacoes
    <2>7. CulpaComprovada'
      BY <1>0, <1>n, <1>3 DEF Iniciar, relogios, doGoTest, historia, CulpaComprovada,
                              EtapaInv, Comandos, Compilacoes
    <2>8. AceitoPeloBanco'
      BY <1>0, <1>n, <1>3 DEF Iniciar, relogios, doGoTest, historia, AceitoPeloBanco,
                              EtapaInv, Comandos, Compilacoes
    <2> QED
      BY <2>1, <2>2, <2>3, <2>4, <2>5, <2>6, <2>7, <2>8 DEF IndInv
  <1>4. CASE NaoIniciar
    <2>1. TypeOK'
      BY <1>0, <1>n, <1>4 DEF NaoIniciar, Responder, Ir, relogios, doGoTest, historia,
                              TypeOK, Etapas, Comandos, Compilacoes
    <2>2. EtapaInv'
      BY <1>0, <1>n, <1>4 DEF NaoIniciar, Responder, Ir, relogios, doGoTest, historia,
                              TypeOK, EtapaInv, CtxFim, Comandos, Compilacoes, Infra
    <2>3. CodigoInv'
      BY <1>0, <1>n, <1>4 DEF NaoIniciar, Responder, Ir, relogios, doGoTest, historia,
                              TypeOK, CodigoInv, EtapaInv, Comandos, Compilacoes
    <2>4. LinhasInv'
      BY <1>0, <1>n, <1>4 DEF NaoIniciar, Responder, Ir, relogios, doGoTest, historia,
                              LinhasInv, LinhaVerdadeira
    <2>5. ApuradoInv'
      BY <1>0, <1>n, <1>4 DEF NaoIniciar, Responder, Ir, relogios, doGoTest, historia,
                              ApuradoInv
    <2>6. NaoEscondeFalha'
      BY <1>0, <1>n, <1>4 DEF NaoIniciar, Responder, Ir, relogios, doGoTest, historia,
                              NaoEscondeFalha, EtapaInv, CodigoInv, Comandos, Compilacoes,
                              Infra
    <2>7. CulpaComprovada'
      BY <1>0, <1>n, <1>4 DEF NaoIniciar, Responder, Ir, relogios, doGoTest, historia,
                              CulpaComprovada, EtapaInv, Comandos, Compilacoes, Infra
    <2>8. AceitoPeloBanco'
      BY <1>0, <1>n, <1>4 DEF NaoIniciar, Responder, Ir, relogios, doGoTest, historia,
                              AceitoPeloBanco, EtapaInv, Comandos, Compilacoes, Infra
    <2> QED
      BY <2>1, <2>2, <2>3, <2>4, <2>5, <2>6, <2>7, <2>8 DEF IndInv
  <1>5. CASE Cancelar
    <2>1. TypeOK'
      BY <1>0, <1>n, <1>5 DEF Cancelar, relogios, doGoTest, historia, TypeOK, Etapas,
                              Comandos, Compilacoes
    <2>2. EtapaInv'
      BY <1>0, <1>n, <1>5 DEF Cancelar, relogios, doGoTest, historia, TypeOK, EtapaInv,
                              CtxFim, Comandos, Compilacoes
    <2>3. CodigoInv'
      BY <1>0, <1>n, <1>5 DEF Cancelar, relogios, doGoTest, historia, TypeOK, CodigoInv,
                              EtapaInv, Comandos, Compilacoes
    <2>4. LinhasInv'
      BY <1>0, <1>n, <1>5 DEF Cancelar, relogios, doGoTest, historia, LinhasInv,
                              LinhaVerdadeira
    <2>5. ApuradoInv'
      BY <1>0, <1>n, <1>5 DEF Cancelar, relogios, doGoTest, historia, ApuradoInv
    <2>6. NaoEscondeFalha'
      BY <1>0, <1>n, <1>5 DEF Cancelar, relogios, doGoTest, historia, NaoEscondeFalha,
                              EtapaInv, CodigoInv, Comandos, Compilacoes
    <2>7. CulpaComprovada'
      BY <1>0, <1>n, <1>5 DEF Cancelar, relogios, doGoTest, historia, CulpaComprovada,
                              EtapaInv, Comandos, Compilacoes
    <2>8. AceitoPeloBanco'
      BY <1>0, <1>n, <1>5 DEF Cancelar, relogios, doGoTest, historia, AceitoPeloBanco,
                              EtapaInv, Comandos, Compilacoes
    <2> QED
      BY <2>1, <2>2, <2>3, <2>4, <2>5, <2>6, <2>7, <2>8 DEF IndInv
  <1>6. CASE Calcular
    <2>1. TypeOK'
      BY <1>0, <1>n, <1>6 DEF Calcular, Responder, Ir, relogios, doGoTest, historia, TypeOK,
                              Etapas, Comandos, Compilacoes
    <2>2. EtapaInv'
      BY <1>0, <1>n, <1>6 DEF Calcular, Responder, Ir, relogios, doGoTest, historia, TypeOK,
                              EtapaInv, CtxFim, Comandos, Compilacoes, Infra
    <2>3. CodigoInv'
      BY <1>0, <1>n, <1>6 DEF Calcular, Responder, Ir, relogios, doGoTest, historia, TypeOK,
                              CodigoInv, EtapaInv, Comandos, Compilacoes
    <2>4. LinhasInv'
      BY <1>0, <1>n, <1>6 DEF Calcular, Responder, Ir, relogios, doGoTest, historia,
                              LinhasInv, LinhaVerdadeira
    <2>5. ApuradoInv'
      BY <1>0, <1>n, <1>6 DEF Calcular, Responder, Ir, relogios, doGoTest, historia,
                              ApuradoInv
    <2>6. NaoEscondeFalha'
      BY <1>0, <1>n, <1>6 DEF Calcular, Responder, Ir, relogios, doGoTest, historia,
                              NaoEscondeFalha, EtapaInv, CodigoInv, Comandos, Compilacoes,
                              Infra
    <2>7. CulpaComprovada'
      BY <1>0, <1>n, <1>6 DEF Calcular, Responder, Ir, relogios, doGoTest, historia,
                              CulpaComprovada, EtapaInv, Comandos, Compilacoes, Infra
    <2>8. AceitoPeloBanco'
      BY <1>0, <1>n, <1>6 DEF Calcular, Responder, Ir, relogios, doGoTest, historia,
                              AceitoPeloBanco, EtapaInv, Comandos, Compilacoes, Infra
    <2> QED
      BY <2>1, <2>2, <2>3, <2>4, <2>5, <2>6, <2>7, <2>8 DEF IndInv
  <1>7. CASE Considerar
    <2>1. TypeOK'
      <3>1. saida[lida + 1] \in Linhas /\ lida + 1 \in 1 .. Len(saida)
        BY <1>0, <1>7 DEF Considerar, TypeOK
      <3>2. apurado' \in Apurados
        BY <1>0, <1>7, <3>1, FatoDeApurado DEF Considerar, TypeOK
      <3> QED
        BY <1>0, <1>7, <3>1, <3>2 DEF Considerar, relogios, doGoTest, historia, TypeOK,
                                      Etapas, Comandos, Compilacoes
    <2>2. EtapaInv'
      BY <1>0, <1>n, <1>7 DEF Considerar, relogios, doGoTest, historia, TypeOK, EtapaInv,
                              CtxFim, Comandos, Compilacoes
    <2>3. CodigoInv'
      BY <1>0, <1>n, <1>7 DEF Considerar, relogios, doGoTest, historia, TypeOK, CodigoInv,
                              EtapaInv, Comandos, Compilacoes
    <2>4. LinhasInv'
      BY <1>0, <1>n, <1>7 DEF Considerar, relogios, doGoTest, historia, LinhasInv,
                              LinhaVerdadeira
    <2>5. ApuradoInv'
      <3> DEFINE linha == saida[lida + 1]
      <3>0. lida + 1 \in 1 .. Len(saida) /\ saida \in Seq(Linhas)
        BY <1>0, <1>7 DEF Considerar, TypeOK
      <3>1. linha \in Linhas /\ lida + 1 \in 1 .. Len(saida)
        BY <3>0
      <3>p. linha.pacote \in Pacotes
        BY <3>1 DEF Linhas
      <3>2. LinhaVerdadeira(linha)
        BY <1>0, <3>1 DEF LinhasInv
      <3>3. apurado \in Apurados /\ apurado' = Apurado(apurado, linha)
        BY <1>0, <1>7 DEF Considerar, TypeOK
      <3>4. pacote' = pacote /\ feito' = feito
        BY <1>7 DEF Considerar, doGoTest
      <3> HIDE DEF linha
      <3>5. apurado'.falhaDeCompilacao =>
              apurado.falhaDeCompilacao \/ linha.acao = "build-fail"
                \/ (linha.acao = "fail" /\ linha.teste = SemTeste /\ linha.compilacaoFalhou)
        BY <3>1, <3>3, FatoDeApurado
      <3>6. apurado'.falharam > 0 =>
              apurado.falharam > 0 \/ (linha.acao = "fail" /\ linha.teste \in Testes)
        BY <3>1, <3>3, FatoDeApurado
      <3>7. apurado'.pacotesQueFalharam # <<>> =>
              apurado.pacotesQueFalharam # <<>>
                \/ (linha.acao = "fail" /\ linha.teste = SemTeste /\ ~linha.compilacaoFalhou)
        BY <3>1, <3>3, FatoDeApurado
      <3> QED
        BY <1>0, <3>p, <3>2, <3>4, <3>5, <3>6, <3>7 DEF ApuradoInv, LinhaVerdadeira
    <2>6. NaoEscondeFalha'
      BY <1>0, <1>n, <1>7 DEF Considerar, relogios, doGoTest, historia, NaoEscondeFalha,
                              EtapaInv, CodigoInv, Comandos, Compilacoes
    <2>7. CulpaComprovada'
      BY <1>0, <1>n, <1>7 DEF Considerar, relogios, doGoTest, historia, CulpaComprovada,
                              EtapaInv, Comandos, Compilacoes
    <2>8. AceitoPeloBanco'
      BY <1>0, <1>n, <1>7 DEF Considerar, relogios, doGoTest, historia, AceitoPeloBanco,
                              EtapaInv, Comandos, Compilacoes
    <2> QED
      BY <2>1, <2>2, <2>3, <2>4, <2>5, <2>6, <2>7, <2>8 DEF IndInv
  <1>8. CASE Concluir
    <2>1. TypeOK'
      BY <1>0, <1>n, <1>8, FatoDeClassificado DEF Concluir, Responder, relogios, doGoTest,
                                                  historia, TypeOK, Etapas, Comandos,
                                                  Compilacoes
    <2>2. EtapaInv'
      BY <1>0, <1>n, <1>8, FatoDeClassificado DEF Concluir, Responder, relogios, doGoTest,
                                                  historia, TypeOK, EtapaInv, CtxFim,
                                                  Comandos, Compilacoes
    <2>3. CodigoInv'
      BY <1>0, <1>n, <1>8, FatoDeClassificado DEF Concluir, Responder, relogios, doGoTest,
                                                  historia, TypeOK, CodigoInv, EtapaInv,
                                                  Comandos, Compilacoes
    <2>4. LinhasInv'
      BY <1>0, <1>n, <1>8, FatoDeClassificado DEF Concluir, Responder, relogios, doGoTest,
                                                  historia, LinhasInv, LinhaVerdadeira
    <2>5. ApuradoInv'
      BY <1>0, <1>n, <1>8, FatoDeClassificado DEF Concluir, Responder, relogios, doGoTest,
                                                  historia, ApuradoInv
    <2>6. NaoEscondeFalha'
      BY <1>0, <1>n, <1>8, FatoDeClassificado DEF Concluir, Responder, relogios, doGoTest,
                                                  historia, NaoEscondeFalha, EtapaInv,
                                                  CodigoInv, Comandos, Compilacoes
    <2>7. CulpaComprovada'
      BY <1>0, <1>n, <1>8, FatoDeClassificado DEF Concluir, Responder, relogios, doGoTest,
                                                  historia, CulpaComprovada, EtapaInv,
                                                  Comandos, Compilacoes, ApuradoInv
    <2>8. AceitoPeloBanco'
      BY <1>0, <1>n, <1>8, FatoDeClassificado DEF Concluir, Responder, relogios, doGoTest,
                                                  historia, AceitoPeloBanco, EtapaInv,
                                                  Comandos, Compilacoes
    <2> QED
      BY <2>1, <2>2, <2>3, <2>4, <2>5, <2>6, <2>7, <2>8 DEF IndInv
  <1>9. CASE Entregar
    <2>1. TypeOK'
      BY <1>0, <1>n, <1>9 DEF Entregar, relogios, doGoTest, historia, TypeOK, Etapas,
                              Comandos, Compilacoes
    <2>2. EtapaInv'
      BY <1>0, <1>n, <1>9 DEF Entregar, relogios, doGoTest, historia, TypeOK, EtapaInv,
                              CtxFim, Comandos, Compilacoes
    <2>3. CodigoInv'
      BY <1>0, <1>n, <1>9 DEF Entregar, relogios, doGoTest, historia, TypeOK, CodigoInv,
                              EtapaInv, Comandos, Compilacoes
    <2>4. LinhasInv'
      BY <1>0, <1>n, <1>9 DEF Entregar, relogios, doGoTest, historia, LinhasInv,
                              LinhaVerdadeira
    <2>5. ApuradoInv'
      BY <1>0, <1>n, <1>9 DEF Entregar, relogios, doGoTest, historia, ApuradoInv
    <2>6. NaoEscondeFalha'
      BY <1>0, <1>n, <1>9 DEF Entregar, relogios, doGoTest, historia, NaoEscondeFalha,
                              EtapaInv, CodigoInv, Comandos, Compilacoes
    <2>7. CulpaComprovada'
      BY <1>0, <1>n, <1>9 DEF Entregar, relogios, doGoTest, historia, CulpaComprovada,
                              EtapaInv, Comandos, Compilacoes
    <2>8. AceitoPeloBanco'
      BY <1>0, <1>n, <1>9 DEF Entregar, relogios, doGoTest, historia, AceitoPeloBanco,
                              EtapaInv, Comandos, Compilacoes
    <2> QED
      BY <2>1, <2>2, <2>3, <2>4, <2>5, <2>6, <2>7, <2>8 DEF IndInv
  <1>10. CASE ComandoTermina
    <2>1. TypeOK'
      BY <1>0, <1>n, <1>10 DEF ComandoTermina, relogios, doGoTest, historia, TypeOK, Etapas,
                               Comandos, Compilacoes
    <2>2. EtapaInv'
      BY <1>0, <1>n, <1>10 DEF ComandoTermina, relogios, doGoTest, historia, TypeOK,
                               EtapaInv, CtxFim, Comandos, Compilacoes
    <2>3. CodigoInv'
      BY <1>0, <1>n, <1>10 DEF ComandoTermina, relogios, doGoTest, historia, TypeOK,
                               CodigoInv, EtapaInv, Comandos, Compilacoes
    <2>4. LinhasInv'
      BY <1>0, <1>n, <1>10 DEF ComandoTermina, relogios, doGoTest, historia, LinhasInv,
                               LinhaVerdadeira
    <2>5. ApuradoInv'
      BY <1>0, <1>n, <1>10 DEF ComandoTermina, relogios, doGoTest, historia, ApuradoInv
    <2>6. NaoEscondeFalha'
      BY <1>0, <1>n, <1>10 DEF ComandoTermina, relogios, doGoTest, historia,
                               NaoEscondeFalha, EtapaInv, CodigoInv, Comandos, Compilacoes
    <2>7. CulpaComprovada'
      BY <1>0, <1>n, <1>10 DEF ComandoTermina, relogios, doGoTest, historia,
                               CulpaComprovada, EtapaInv, Comandos, Compilacoes
    <2>8. AceitoPeloBanco'
      BY <1>0, <1>n, <1>10 DEF ComandoTermina, relogios, doGoTest, historia,
                               AceitoPeloBanco, EtapaInv, Comandos, Compilacoes
    <2> QED
      BY <2>1, <2>2, <2>3, <2>4, <2>5, <2>6, <2>7, <2>8 DEF IndInv
  <1> QED
    BY <1>1, <1>2, <1>3, <1>4, <1>5, <1>6, <1>7, <1>8, <1>9, <1>10
(* The end of a command keeps it: what was cut is infraestrutura, and what was
   not ended by itself. *)
LEMMA PassoDeInterpretar ==
  ASSUME IndInv, Interpretar
  PROVE  IndInv'
  <1> USE LinguagemAssumption, PrazoNatural
  <1>0. TypeOK /\ EtapaInv /\ CodigoInv /\ LinhasInv /\ ApuradoInv
        /\ NaoEscondeFalha /\ CulpaComprovada /\ AceitoPeloBanco
    BY DEF IndInv
  <1>n. Infra \in Resultados /\ FalhaDeCompilacao \in Resultados /\ Nenhum \notin Resultados
    BY LinguagemAssumption DEF Infra, FalhaDeCompilacao, Resultados
  <1>u. /\ fase = "terminado" /\ etapa \in Comandos /\ resultado = Nenhum
        /\ UNCHANGED <<relogios, codigo, timeout, doGoTest, lida, apurado, historia>>
    BY <1>0 DEF Interpretar, EtapaInv, Comandos, Compilacoes
  <1>1. CASE CtxFim /\ Responder(Infra)
    <2>1. TypeOK'
      BY <1>0, <1>n, <1>u, <1>1 DEF Responder, Infra, relogios, doGoTest, historia, TypeOK,
                                    Etapas, Comandos, Compilacoes
    <2>2. EtapaInv'
      BY <1>0, <1>n, <1>u, <1>1 DEF Responder, Infra, relogios, doGoTest, historia, TypeOK,
                                    EtapaInv, CtxFim, Comandos, Compilacoes
    <2>3. CodigoInv'
      BY <1>0, <1>n, <1>u, <1>1 DEF Responder, Infra, relogios, doGoTest, historia, TypeOK,
                                    CodigoInv, EtapaInv, Comandos, Compilacoes
    <2>4. LinhasInv'
      BY <1>0, <1>n, <1>u, <1>1 DEF Responder, Infra, relogios, doGoTest, historia,
                                    LinhasInv, LinhaVerdadeira
    <2>5. ApuradoInv'
      BY <1>0, <1>n, <1>u, <1>1 DEF Responder, Infra, relogios, doGoTest, historia,
                                    ApuradoInv
    <2>6. NaoEscondeFalha'
      BY <1>0, <1>n, <1>u, <1>1 DEF Responder, Infra, relogios, doGoTest, historia,
                                    NaoEscondeFalha, EtapaInv, CodigoInv, Comandos,
                                    Compilacoes
    <2>7. CulpaComprovada'
      BY <1>0, <1>n, <1>u, <1>1 DEF Responder, Infra, relogios, doGoTest, historia,
                                    CulpaComprovada, EtapaInv, Comandos, Compilacoes,
                                    CodigoInv, TypeOK, CtxFim
    <2>8. AceitoPeloBanco'
      BY <1>0, <1>n, <1>u, <1>1 DEF Responder, Infra, relogios, doGoTest, historia,
                                    AceitoPeloBanco, EtapaInv, Comandos, Compilacoes
    <2> QED
      BY <2>1, <2>2, <2>3, <2>4, <2>5, <2>6, <2>7, <2>8 DEF IndInv
  <1>2. CASE ~CtxFim /\ (codigo = 0 \/ etapa = "testar") /\ Seguir
    <2>1. TypeOK'
      BY <1>0, <1>n, <1>u, <1>2 DEF Seguir, Ir, Seguinte, relogios, doGoTest, historia,
                                    TypeOK, Etapas, Comandos, Compilacoes
    <2>2. EtapaInv'
      BY <1>0, <1>n, <1>u, <1>2 DEF Seguir, Ir, Seguinte, relogios, doGoTest, historia,
                                    TypeOK, EtapaInv, CtxFim, Comandos, Compilacoes
    <2>3. CodigoInv'
      BY <1>0, <1>n, <1>u, <1>2 DEF Seguir, Ir, Seguinte, relogios, doGoTest, historia,
                                    TypeOK, CodigoInv, EtapaInv, Comandos, Compilacoes
    <2>4. LinhasInv'
      BY <1>0, <1>n, <1>u, <1>2 DEF Seguir, Ir, Seguinte, relogios, doGoTest, historia,
                                    LinhasInv, LinhaVerdadeira
    <2>5. ApuradoInv'
      BY <1>0, <1>n, <1>u, <1>2 DEF Seguir, Ir, Seguinte, relogios, doGoTest, historia,
                                    ApuradoInv
    <2>6. NaoEscondeFalha'
      BY <1>0, <1>n, <1>u, <1>2 DEF Seguir, Ir, Seguinte, relogios, doGoTest, historia,
                                    NaoEscondeFalha, EtapaInv, CodigoInv, Comandos,
                                    Compilacoes
    <2>7. CulpaComprovada'
      BY <1>0, <1>n, <1>u, <1>2 DEF Seguir, Ir, Seguinte, relogios, doGoTest, historia,
                                    CulpaComprovada, EtapaInv, Comandos, Compilacoes,
                                    CodigoInv, TypeOK, CtxFim
    <2>8. AceitoPeloBanco'
      BY <1>0, <1>n, <1>u, <1>2 DEF Seguir, Ir, Seguinte, relogios, doGoTest, historia,
                                    AceitoPeloBanco, EtapaInv, Comandos, Compilacoes
    <2> QED
      BY <2>1, <2>2, <2>3, <2>4, <2>5, <2>6, <2>7, <2>8 DEF IndInv
  <1>3. CASE ~CtxFim /\ codigo # 0 /\ etapa \in Compilacoes /\ Responder(FalhaDeCompilacao)
    <2>1. TypeOK'
      BY <1>0, <1>n, <1>u, <1>3 DEF Responder, FalhaDeCompilacao, relogios, doGoTest,
                                    historia, TypeOK, Etapas, Comandos, Compilacoes
    <2>2. EtapaInv'
      BY <1>0, <1>n, <1>u, <1>3 DEF Responder, FalhaDeCompilacao, relogios, doGoTest,
                                    historia, TypeOK, EtapaInv, CtxFim, Comandos,
                                    Compilacoes
    <2>3. CodigoInv'
      BY <1>0, <1>n, <1>u, <1>3 DEF Responder, FalhaDeCompilacao, relogios, doGoTest,
                                    historia, TypeOK, CodigoInv, EtapaInv, Comandos,
                                    Compilacoes
    <2>4. LinhasInv'
      BY <1>0, <1>n, <1>u, <1>3 DEF Responder, FalhaDeCompilacao, relogios, doGoTest,
                                    historia, LinhasInv, LinhaVerdadeira
    <2>5. ApuradoInv'
      BY <1>0, <1>n, <1>u, <1>3 DEF Responder, FalhaDeCompilacao, relogios, doGoTest,
                                    historia, ApuradoInv
    <2>6. NaoEscondeFalha'
      BY <1>0, <1>n, <1>u, <1>3 DEF Responder, FalhaDeCompilacao, relogios, doGoTest,
                                    historia, NaoEscondeFalha, EtapaInv, CodigoInv,
                                    Comandos, Compilacoes
    <2>7. CulpaComprovada'
      BY <1>0, <1>n, <1>u, <1>3 DEF Responder, FalhaDeCompilacao, relogios, doGoTest,
                                    historia, CulpaComprovada, EtapaInv, Comandos,
                                    Compilacoes, CodigoInv, TypeOK, CtxFim
    <2>8. AceitoPeloBanco'
      BY <1>0, <1>n, <1>u, <1>3 DEF Responder, FalhaDeCompilacao, relogios, doGoTest,
                                    historia, AceitoPeloBanco, EtapaInv, Comandos,
                                    Compilacoes
    <2> QED
      BY <2>1, <2>2, <2>3, <2>4, <2>5, <2>6, <2>7, <2>8 DEF IndInv
  <1>4. CASE ~CtxFim /\ codigo # 0 /\ etapa \in {"clonar", "baixar"} /\ Responder(Infra)
    <2>1. TypeOK'
      BY <1>0, <1>n, <1>u, <1>4 DEF Responder, Infra, relogios, doGoTest, historia, TypeOK,
                                    Etapas, Comandos, Compilacoes
    <2>2. EtapaInv'
      BY <1>0, <1>n, <1>u, <1>4 DEF Responder, Infra, relogios, doGoTest, historia, TypeOK,
                                    EtapaInv, CtxFim, Comandos, Compilacoes
    <2>3. CodigoInv'
      BY <1>0, <1>n, <1>u, <1>4 DEF Responder, Infra, relogios, doGoTest, historia, TypeOK,
                                    CodigoInv, EtapaInv, Comandos, Compilacoes
    <2>4. LinhasInv'
      BY <1>0, <1>n, <1>u, <1>4 DEF Responder, Infra, relogios, doGoTest, historia,
                                    LinhasInv, LinhaVerdadeira
    <2>5. ApuradoInv'
      BY <1>0, <1>n, <1>u, <1>4 DEF Responder, Infra, relogios, doGoTest, historia,
                                    ApuradoInv
    <2>6. NaoEscondeFalha'
      BY <1>0, <1>n, <1>u, <1>4 DEF Responder, Infra, relogios, doGoTest, historia,
                                    NaoEscondeFalha, EtapaInv, CodigoInv, Comandos,
                                    Compilacoes
    <2>7. CulpaComprovada'
      BY <1>0, <1>n, <1>u, <1>4 DEF Responder, Infra, relogios, doGoTest, historia,
                                    CulpaComprovada, EtapaInv, Comandos, Compilacoes,
                                    CodigoInv, TypeOK, CtxFim
    <2>8. AceitoPeloBanco'
      BY <1>0, <1>n, <1>u, <1>4 DEF Responder, Infra, relogios, doGoTest, historia,
                                    AceitoPeloBanco, EtapaInv, Comandos, Compilacoes
    <2> QED
      BY <2>1, <2>2, <2>3, <2>4, <2>5, <2>6, <2>7, <2>8 DEF IndInv
  <1> QED
    BY <1>1, <1>2, <1>3, <1>4 DEF Interpretar

(* What a step of go test adds to the output is true, and it undoes nothing. *)
Acrescentado ==
  /\ UNCHANGED <<ForaDoGoTest, fase, terminouEm, codigo>>
  /\ \A p \in Pacotes : pacote[p] \notin {"fila", "rodando"} => pacote'[p] = pacote[p]
  /\ \A t \in Testes : feito[t] = "fail" => feito'[t] = "fail"
  /\ Len(saida) <= Len(saida')
  /\ \A k \in 1 .. Len(saida) : saida'[k] = saida[k]
  /\ \A k \in 1 .. Len(saida') : k > Len(saida) => LinhaVerdadeira(saida[k])'

(* A step of one line: it is written whole or broken. *)
LEMMA FatoDeEscrever ==
  ASSUME TypeOK, NEW linha \in Linhas, linha.acao # "invalida", Escrever(linha)
  PROVE  /\ saida' \in Seq(Linhas) /\ extras' \in Nat /\ Len(saida') = Len(saida) + 1
         /\ \A k \in 1 .. Len(saida) : saida'[k] = saida[k]
         /\ saida'[Len(saida')] \in {linha, [linha EXCEPT !.acao = "invalida"]}
  <1>1. [linha EXCEPT !.acao = "invalida"] \in Linhas
    BY DEF Linhas
  <1>2. saida \in Seq(Linhas) /\ extras \in Nat /\ Len(saida) \in Nat
    BY DEF TypeOK
  <1>3. CASE saida' = Append(saida, linha) /\ UNCHANGED extras
    BY <1>2, <1>3
  <1>4. CASE saida' = Append(saida, [linha EXCEPT !.acao = "invalida"]) /\ extras' = extras + 1
    <2> DEFINE l == [linha EXCEPT !.acao = "invalida"]
    <2>1. l \in Linhas /\ saida' = Append(saida, l)
      BY <1>1, <1>4
    <2> HIDE DEF l
    <2>2. /\ saida' \in Seq(Linhas) /\ Len(saida') = Len(saida) + 1
          /\ \A k \in 1 .. Len(saida) : saida'[k] = saida[k]
          /\ saida'[Len(saida')] = l
      BY <1>2, <2>1
    <2> QED
      BY <1>2, <1>4, <2>2 DEF l
  <1> QED
    BY <1>3, <1>4 DEF Escrever

(* A step of go test that writes keeps the types. *)
LEMMA TipoAoEscrever ==
  ASSUME TypeOK, UNCHANGED <<ForaDoGoTest, fase, terminouEm, codigo>>,
         saida' \in Seq(Linhas), extras' \in Nat, Len(saida) <= Len(saida'),
         pacote' \in [Pacotes -> {"fila", "rodando", "passou", "falhou", "nao_compila"}],
         desde' \in [Pacotes -> Nat],
         feito' \in [Testes -> {"correndo", "pass", "fail", "travado"}]
  PROVE  TypeOK'
  <1>1. lida' \in 0 .. Len(saida')
    <2>1. Len(saida) \in Nat /\ Len(saida') \in Nat /\ lida \in 0 .. Len(saida)
      BY DEF TypeOK
    <2> QED
      BY <2>1 DEF ForaDoGoTest
  <1> QED
    BY <1>1 DEF TypeOK, ForaDoGoTest, relogios, historia

(* A step that adds true lines keeps the invariant. *)
LEMMA PassoAcrescentado ==
  ASSUME IndInv, NoGoTest, Acrescentado, TypeOK'
  PROVE  IndInv'
  <1>0. TypeOK /\ EtapaInv /\ CodigoInv /\ LinhasInv /\ ApuradoInv
        /\ NaoEscondeFalha /\ CulpaComprovada /\ AceitoPeloBanco
    BY DEF IndInv
  <1>1. etapa = "testar" /\ fase = "rodando" /\ resultado = Nenhum /\ resultado' = Nenhum /\ ~cortado
    BY <1>0 DEF NoGoTest, EtapaInv, Acrescentado, ForaDoGoTest
  <1>2. EtapaInv'
    BY <1>0, <1>1 DEF Acrescentado, ForaDoGoTest, relogios, historia, EtapaInv
  <1>3. CodigoInv'
    BY <1>1 DEF Acrescentado, ForaDoGoTest, CodigoInv
  <1>4. LinhasInv'
    <2> SUFFICES ASSUME NEW k \in 1 .. Len(saida') PROVE LinhaVerdadeira(saida[k])'
      BY DEF LinhasInv
    <2>1. Len(saida) \in Nat /\ saida \in Seq(Linhas)
      BY <1>0 DEF TypeOK
    <2>2. CASE k > Len(saida)
      BY <2>2 DEF Acrescentado
    <2>3. CASE k \in 1 .. Len(saida)
      <3>1. saida'[k] = saida[k] /\ saida[k] \in Linhas /\ LinhaVerdadeira(saida[k])
        BY <1>0, <2>1, <2>3 DEF Acrescentado, LinhasInv
      <3>2. saida[k].pacote \in Pacotes
        BY <3>1 DEF Linhas
      <3> QED
        BY <3>1, <3>2 DEF Acrescentado, LinhaVerdadeira
    <2> QED
      BY <2>1, <2>2, <2>3
  <1>5. ApuradoInv'
    BY <1>0 DEF Acrescentado, ForaDoGoTest, ApuradoInv
  <1>6. NaoEscondeFalha' /\ CulpaComprovada' /\ AceitoPeloBanco'
    BY <1>1 DEF NaoEscondeFalha, CulpaComprovada, AceitoPeloBanco
  <1> QED
    BY <1>2, <1>3, <1>4, <1>5, <1>6 DEF IndInv

(* A step of go test keeps the invariant. *)
LEMMA PassoDoGoTest ==
  ASSUME IndInv, GoTest
  PROVE  IndInv'
  <1> USE LinguagemAssumption, PrazoNatural
  <1>0. TypeOK /\ EtapaInv /\ CodigoInv /\ LinhasInv /\ ApuradoInv
        /\ NaoEscondeFalha /\ CulpaComprovada /\ AceitoPeloBanco
    BY DEF IndInv
  <1>n. NoGoTest /\ resultado = Nenhum
    BY <1>0 DEF GoTest, IniciarPacote, PacoteNaoCompila, PacotePassa, PacoteFalha, TesteTermina,
                Travar, SubtesteTermina, GoTestTermina, NoGoTest, EtapaInv
  <1>1. ASSUME NEW p \in Pacotes, IniciarPacote(p) PROVE IndInv'
    <2>1. TypeOK'
      BY <1>0, <1>1 DEF IniciarPacote, TypeOK, ForaDoGoTest, relogios, historia, Etapas, Comandos, Compilacoes
    <2>2. Acrescentado
      BY <1>0, <1>1 DEF IniciarPacote, Acrescentado, TypeOK
    <2> QED
      BY <1>n, <2>1, <2>2, PassoAcrescentado
  <1>2. ASSUME NEW p \in Pacotes, PacoteNaoCompila(p) PROVE IndInv'
    <2> DEFINE l1 == Linha("build-fail", p, SemTeste, FALSE)
               l2 == Linha("fail", p, SemTeste, TRUE)
    <2>0. l1 \in Linhas /\ l2 \in Linhas
      BY DEF Linhas, Linha
    <2>a. saida' = saida \o <<l1, l2>> /\ saida \in Seq(Linhas) /\ Len(saida) \in Nat
      BY <1>0, <1>2 DEF PacoteNaoCompila, TypeOK
    <2> HIDE DEF l1, l2
    <2>b. /\ saida' \in Seq(Linhas) /\ Len(saida') = Len(saida) + 2
          /\ \A k \in 1 .. Len(saida) : saida'[k] = saida[k]
          /\ saida'[Len(saida) + 1] = l1 /\ saida'[Len(saida) + 2] = l2
      BY <2>0, <2>a
    <2>c. /\ UNCHANGED <<ForaDoGoTest, fase, terminouEm, codigo, feito, desde, extras>>
          /\ pacote[p] = "fila" /\ pacote' = [pacote EXCEPT ![p] = "nao_compila"]
      BY <1>2 DEF PacoteNaoCompila
    <2>t. /\ pacote' \in [Pacotes -> {"fila", "rodando", "passou", "falhou", "nao_compila"}]
          /\ desde' \in [Pacotes -> Nat] /\ extras' \in Nat
          /\ feito' \in [Testes -> {"correndo", "pass", "fail", "travado"}]
      BY <1>0, <2>c DEF TypeOK
    <2>1. TypeOK'
      BY <1>0, <2>a, <2>b, <2>c, <2>t, TipoAoEscrever
    <2>2. Acrescentado
      <3>1. UNCHANGED <<ForaDoGoTest, fase, terminouEm, codigo, feito>> /\ pacote[p] = "fila"
            /\ pacote' = [pacote EXCEPT ![p] = "nao_compila"]
        BY <2>c
      <3>2. LinhaVerdadeira(l1)' /\ LinhaVerdadeira(l2)'
        BY <1>0, <3>1 DEF LinhaVerdadeira, l1, l2, Linha, TypeOK
      <3>3. \A k \in 1 .. Len(saida') : k > Len(saida) => saida'[k] \in {l1, l2}
        BY <2>a, <2>b
      <3>4. \A k \in 1 .. Len(saida') : k > Len(saida) => LinhaVerdadeira(saida[k])'
        BY <3>2, <3>3 DEF LinhaVerdadeira
      <3>a. \A q \in Pacotes : pacote[q] \notin {"fila", "rodando"} => pacote'[q] = pacote[q]
        BY <1>0, <3>1 DEF TypeOK
      <3>b. \A u \in Testes : feito[u] = "fail" => feito'[u] = "fail"
        BY <1>0, <3>1 DEF TypeOK
      <3> QED
        BY <2>a, <2>b, <3>1, <3>4, <3>a, <3>b DEF Acrescentado
    <2> QED
      BY <1>n, <2>1, <2>2, PassoAcrescentado
  <1>3. ASSUME NEW p \in Pacotes, PacotePassa(p) PROVE IndInv'
    <2> DEFINE linha == Linha("pass", p, SemTeste, FALSE)
    <2>0. linha \in Linhas /\ linha.acao # "invalida"
      BY DEF Linhas, Linha
    <2>s. saida \in Seq(Linhas) /\ Len(saida) \in Nat
      BY <1>0 DEF TypeOK
    <2>a. Escrever(linha) /\ saida \in Seq(Linhas) /\ Len(saida) \in Nat
      BY <1>3, <2>s DEF PacotePassa
    <2>c. /\ UNCHANGED <<ForaDoGoTest, fase, terminouEm, codigo, feito>> /\ pacote[p] = "rodando"
          /\ pacote' = [pacote EXCEPT ![p] = "passou"] /\ desde' = [desde EXCEPT ![p] = 0]
      BY <1>3 DEF PacotePassa
    <2>d. LinhaVerdadeira(linha)' /\ LinhaVerdadeira([linha EXCEPT !.acao = "invalida"])'
      BY <1>0, <2>c DEF LinhaVerdadeira, Linha, TypeOK
    <2> HIDE DEF linha
    <2>b. /\ saida' \in Seq(Linhas) /\ extras' \in Nat /\ Len(saida') = Len(saida) + 1
          /\ \A k \in 1 .. Len(saida) : saida'[k] = saida[k]
          /\ saida'[Len(saida')] \in {linha, [linha EXCEPT !.acao = "invalida"]}
      BY <1>0, <2>0, <2>a, FatoDeEscrever
    <2>t. /\ pacote' \in [Pacotes -> {"fila", "rodando", "passou", "falhou", "nao_compila"}]
          /\ desde' \in [Pacotes -> Nat]
          /\ feito' \in [Testes -> {"correndo", "pass", "fail", "travado"}]
      BY <1>0, <2>c DEF TypeOK
    <2>1. TypeOK'
      BY <1>0, <2>a, <2>b, <2>c, <2>t, TipoAoEscrever
    <2>2. Acrescentado
      <3>1. ASSUME NEW k \in 1 .. Len(saida'), k > Len(saida) PROVE LinhaVerdadeira(saida[k])'
        <4>1. saida'[k] \in {linha, [linha EXCEPT !.acao = "invalida"]}
          BY <2>a, <2>b, <3>1
        <4>2. CASE saida'[k] = linha
          BY <2>d, <4>2 DEF LinhaVerdadeira
        <4>3. CASE saida'[k] = [linha EXCEPT !.acao = "invalida"]
          BY <2>d, <4>3 DEF LinhaVerdadeira
        <4> QED
          BY <4>1, <4>2, <4>3
      <3>a. \A q \in Pacotes : pacote[q] \notin {"fila", "rodando"} => pacote'[q] = pacote[q]
        BY <1>0, <2>c DEF TypeOK
      <3>b. \A u \in Testes : feito[u] = "fail" => feito'[u] = "fail"
        BY <1>0, <2>c DEF TypeOK
      <3> QED
        BY <2>a, <2>b, <2>c, <3>1, <3>a, <3>b DEF Acrescentado
    <2> QED
      BY <1>n, <2>1, <2>2, PassoAcrescentado
  <1>4. ASSUME NEW p \in Pacotes, PacoteFalha(p) PROVE IndInv'
    <2> DEFINE linha == Linha("fail", p, SemTeste, FALSE)
    <2>0. linha \in Linhas /\ linha.acao # "invalida"
      BY DEF Linhas, Linha
    <2>s. saida \in Seq(Linhas) /\ Len(saida) \in Nat
      BY <1>0 DEF TypeOK
    <2>a. Escrever(linha) /\ saida \in Seq(Linhas) /\ Len(saida) \in Nat
      BY <1>4, <2>s DEF PacoteFalha
    <2>c. /\ UNCHANGED <<ForaDoGoTest, fase, terminouEm, codigo, feito>> /\ pacote[p] = "rodando"
          /\ pacote' = [pacote EXCEPT ![p] = "falhou"] /\ desde' = [desde EXCEPT ![p] = 0]
      BY <1>4 DEF PacoteFalha
    <2>d. LinhaVerdadeira(linha)' /\ LinhaVerdadeira([linha EXCEPT !.acao = "invalida"])'
      BY <1>0, <2>c DEF LinhaVerdadeira, Linha, TypeOK
    <2> HIDE DEF linha
    <2>b. /\ saida' \in Seq(Linhas) /\ extras' \in Nat /\ Len(saida') = Len(saida) + 1
          /\ \A k \in 1 .. Len(saida) : saida'[k] = saida[k]
          /\ saida'[Len(saida')] \in {linha, [linha EXCEPT !.acao = "invalida"]}
      BY <1>0, <2>0, <2>a, FatoDeEscrever
    <2>t. /\ pacote' \in [Pacotes -> {"fila", "rodando", "passou", "falhou", "nao_compila"}]
          /\ desde' \in [Pacotes -> Nat]
          /\ feito' \in [Testes -> {"correndo", "pass", "fail", "travado"}]
      BY <1>0, <2>c DEF TypeOK
    <2>1. TypeOK'
      BY <1>0, <2>a, <2>b, <2>c, <2>t, TipoAoEscrever
    <2>2. Acrescentado
      <3>1. ASSUME NEW k \in 1 .. Len(saida'), k > Len(saida) PROVE LinhaVerdadeira(saida[k])'
        <4>1. saida'[k] \in {linha, [linha EXCEPT !.acao = "invalida"]}
          BY <2>a, <2>b, <3>1
        <4>2. CASE saida'[k] = linha
          BY <2>d, <4>2 DEF LinhaVerdadeira
        <4>3. CASE saida'[k] = [linha EXCEPT !.acao = "invalida"]
          BY <2>d, <4>3 DEF LinhaVerdadeira
        <4> QED
          BY <4>1, <4>2, <4>3
      <3>a. \A q \in Pacotes : pacote[q] \notin {"fila", "rodando"} => pacote'[q] = pacote[q]
        BY <1>0, <2>c DEF TypeOK
      <3>b. \A u \in Testes : feito[u] = "fail" => feito'[u] = "fail"
        BY <1>0, <2>c DEF TypeOK
      <3> QED
        BY <2>a, <2>b, <2>c, <3>1, <3>a, <3>b DEF Acrescentado
    <2> QED
      BY <1>n, <2>1, <2>2, PassoAcrescentado
  <1>5. ASSUME NEW t \in Testes, TesteTermina(t) PROVE IndInv'
    <2>0. PICK acao \in {"pass", "fail"} :
            feito' = [feito EXCEPT ![t] = acao] /\ Escrever(Linha(acao, PacoteDe[t], t, FALSE))
      BY <1>5 DEF TesteTermina
    <2> DEFINE linha == Linha(acao, PacoteDe[t], t, FALSE)
    <2>e. linha \in Linhas /\ linha.acao # "invalida"
      BY DEF Linhas, Linha
    <2>s. saida \in Seq(Linhas) /\ Len(saida) \in Nat
      BY <1>0 DEF TypeOK
    <2>a. Escrever(linha) /\ saida \in Seq(Linhas) /\ Len(saida) \in Nat
      BY <2>0, <2>s
    <2>c. UNCHANGED <<ForaDoGoTest, fase, terminouEm, codigo, pacote, desde>> /\ feito[t] = "correndo"
      BY <1>5 DEF TesteTermina
    <2>d. LinhaVerdadeira(linha)' /\ LinhaVerdadeira([linha EXCEPT !.acao = "invalida"])'
      BY <1>0, <2>0, <2>c DEF LinhaVerdadeira, Linha, TypeOK
    <2> HIDE DEF linha
    <2>b. /\ saida' \in Seq(Linhas) /\ extras' \in Nat /\ Len(saida') = Len(saida) + 1
          /\ \A k \in 1 .. Len(saida) : saida'[k] = saida[k]
          /\ saida'[Len(saida')] \in {linha, [linha EXCEPT !.acao = "invalida"]}
      BY <1>0, <2>a, <2>e, FatoDeEscrever
    <2>t. /\ pacote' \in [Pacotes -> {"fila", "rodando", "passou", "falhou", "nao_compila"}]
          /\ desde' \in [Pacotes -> Nat]
          /\ feito' \in [Testes -> {"correndo", "pass", "fail", "travado"}]
      BY <1>0, <2>0, <2>c DEF TypeOK
    <2>1. TypeOK'
      BY <1>0, <2>a, <2>b, <2>c, <2>t, TipoAoEscrever
    <2>2. Acrescentado
      <3>1. ASSUME NEW k \in 1 .. Len(saida'), k > Len(saida) PROVE LinhaVerdadeira(saida[k])'
        <4>1. saida'[k] \in {linha, [linha EXCEPT !.acao = "invalida"]}
          BY <2>a, <2>b, <3>1
        <4>2. CASE saida'[k] = linha
          BY <2>d, <4>2 DEF LinhaVerdadeira
        <4>3. CASE saida'[k] = [linha EXCEPT !.acao = "invalida"]
          BY <2>d, <4>3 DEF LinhaVerdadeira
        <4> QED
          BY <4>1, <4>2, <4>3
      <3>a. \A q \in Pacotes : pacote[q] \notin {"fila", "rodando"} => pacote'[q] = pacote[q]
        BY <1>0, <2>0, <2>c DEF TypeOK
      <3>b. \A u \in Testes : feito[u] = "fail" => feito'[u] = "fail"
        BY <1>0, <2>0, <2>c DEF TypeOK
      <3> QED
        BY <2>a, <2>b, <2>c, <3>1, <3>a, <3>b DEF Acrescentado
    <2> QED
      BY <1>n, <2>1, <2>2, PassoAcrescentado
  <1>6. ASSUME NEW t \in Testes, Travar(t) PROVE IndInv'
    <2>1. TypeOK'
      BY <1>0, <1>6 DEF Travar, TypeOK, ForaDoGoTest, relogios, historia, Etapas, Comandos, Compilacoes
    <2>2. Acrescentado
      BY <1>0, <1>6 DEF Travar, Acrescentado, TypeOK
    <2> QED
      BY <1>n, <2>1, <2>2, PassoAcrescentado
  <1>7. ASSUME NEW t \in Testes, SubtesteTermina(t) PROVE IndInv'
    <2>0. PICK acao \in {"pass", "fail"} : saida' = Append(saida, Linha(acao, PacoteDe[t], Subteste, FALSE))
      BY <1>7 DEF SubtesteTermina
    <2> DEFINE linha == Linha(acao, PacoteDe[t], Subteste, FALSE)
    <2>e. linha \in Linhas
      BY DEF Linhas, Linha
    <2>a. saida \in Seq(Linhas) /\ Len(saida) \in Nat
      BY <1>0 DEF TypeOK
    <2>c. /\ UNCHANGED <<ForaDoGoTest, fase, terminouEm, codigo, pacote, desde, feito>>
          /\ extras' = extras + 1
      BY <1>7 DEF SubtesteTermina
    <2>d. LinhaVerdadeira(linha)'
      BY DEF LinhaVerdadeira, Linha, SemTeste, Subteste
    <2>f. saida' = Append(saida, linha)
      BY <2>0
    <2> HIDE DEF linha
    <2>b. /\ saida' \in Seq(Linhas) /\ Len(saida') = Len(saida) + 1
          /\ \A k \in 1 .. Len(saida) : saida'[k] = saida[k]
          /\ saida'[Len(saida')] = linha
      BY <2>a, <2>e, <2>f
    <2>1. TypeOK'
      <3>1. extras' \in Nat
        BY <1>0, <2>c DEF TypeOK
      <3>2. pacote' = pacote /\ desde' = desde /\ feito' = feito
        BY <2>c
      <3>3. TypeOK
        BY <1>0
      <3> QED
        BY <2>a, <2>b, <2>c, <3>1, <3>2, <3>3, TipoAoEscrever DEF TypeOK
    <2>2. Acrescentado
      <3>1. \A k \in 1 .. Len(saida') : k > Len(saida) => LinhaVerdadeira(saida[k])'
        BY <2>a, <2>b, <2>d DEF LinhaVerdadeira
      <3>a. \A q \in Pacotes : pacote[q] \notin {"fila", "rodando"} => pacote'[q] = pacote[q]
        BY <1>0, <2>c DEF TypeOK
      <3>b. \A u \in Testes : feito[u] = "fail" => feito'[u] = "fail"
        BY <1>0, <2>c DEF TypeOK
      <3> QED
        BY <2>a, <2>b, <2>c, <3>1, <3>a, <3>b DEF Acrescentado
    <2> QED
      BY <1>n, <2>1, <2>2, PassoAcrescentado
  <1>8. CASE GoTestTermina
    <2>1. TypeOK'
      BY <1>0, <1>n, <1>8 DEF GoTestTermina, NoGoTest, ForaDoGoTest, relogios, doGoTest,
                              historia, TypeOK, Etapas, Comandos, Compilacoes
    <2>2. EtapaInv'
      BY <1>0, <1>n, <1>8 DEF GoTestTermina, NoGoTest, ForaDoGoTest, relogios, doGoTest,
                              historia, TypeOK, EtapaInv, CtxFim, Comandos, Compilacoes
    <2>3. CodigoInv'
      BY <1>0, <1>n, <1>8 DEF GoTestTermina, NoGoTest, ForaDoGoTest, relogios, doGoTest,
                              historia, TypeOK, CodigoInv, EtapaInv, Comandos, Compilacoes
    <2>4. LinhasInv'
      BY <1>0, <1>n, <1>8 DEF GoTestTermina, NoGoTest, ForaDoGoTest, relogios, doGoTest,
                              historia, LinhasInv, LinhaVerdadeira
    <2>5. ApuradoInv'
      BY <1>0, <1>n, <1>8 DEF GoTestTermina, NoGoTest, ForaDoGoTest, relogios, doGoTest,
                              historia, ApuradoInv
    <2>6. NaoEscondeFalha'
      BY <1>0, <1>n, <1>8 DEF GoTestTermina, NoGoTest, ForaDoGoTest, relogios, doGoTest,
                              historia, NaoEscondeFalha, EtapaInv, CodigoInv, Comandos,
                              Compilacoes
    <2>7. CulpaComprovada'
      BY <1>0, <1>n, <1>8 DEF GoTestTermina, NoGoTest, ForaDoGoTest, relogios, doGoTest,
                              historia, CulpaComprovada, EtapaInv, Comandos, Compilacoes
    <2>8. AceitoPeloBanco'
      BY <1>0, <1>n, <1>8 DEF GoTestTermina, NoGoTest, ForaDoGoTest, relogios, doGoTest,
                              historia, AceitoPeloBanco, EtapaInv, Comandos, Compilacoes
    <2> QED
      BY <2>1, <2>2, <2>3, <2>4, <2>5, <2>6, <2>7, <2>8 DEF IndInv
  <1> QED
    BY <1>1, <1>2, <1>3, <1>4, <1>5, <1>6, <1>7, <1>8 DEF GoTest

(* Time and the signal keep it: a context that ended stays ended. *)
LEMMA PassoDoRelogio ==
  ASSUME IndInv, PassarTempo \/ Sinalizar
  PROVE  IndInv'
  <1> USE LinguagemAssumption, PrazoNatural
  <1>0. TypeOK /\ EtapaInv /\ CodigoInv /\ LinhasInv /\ ApuradoInv
        /\ NaoEscondeFalha /\ CulpaComprovada /\ AceitoPeloBanco
    BY DEF IndInv
  <1>n. Infra \in Resultados /\ FalhaDeCompilacao \in Resultados /\ Nenhum \notin Resultados
    BY LinguagemAssumption DEF Infra, FalhaDeCompilacao, Resultados
  <1>1. CASE PassarTempo
    <2>1. TypeOK'
      BY <1>0, <1>1 DEF PassarTempo, relogios, doGoTest, historia, TypeOK, Etapas, Comandos,
                        Compilacoes
    <2>2. EtapaInv'
      BY <1>0, <1>1 DEF PassarTempo, relogios, doGoTest, historia, TypeOK, EtapaInv, CtxFim,
                        Comandos, Compilacoes
    <2>3. CodigoInv'
      BY <1>0, <1>1 DEF PassarTempo, relogios, doGoTest, historia, TypeOK, CodigoInv,
                        EtapaInv, Comandos, Compilacoes
    <2>4. LinhasInv'
      BY <1>0, <1>1 DEF PassarTempo, relogios, doGoTest, historia, LinhasInv,
                        LinhaVerdadeira
    <2>5. ApuradoInv'
      BY <1>0, <1>1 DEF PassarTempo, relogios, doGoTest, historia, ApuradoInv
    <2>6. NaoEscondeFalha'
      BY <1>0, <1>1 DEF PassarTempo, relogios, doGoTest, historia, NaoEscondeFalha,
                        EtapaInv, CodigoInv, Comandos, Compilacoes
    <2>7. CulpaComprovada'
      BY <1>0, <1>1 DEF PassarTempo, relogios, doGoTest, historia, CulpaComprovada,
                        EtapaInv, Comandos, Compilacoes
    <2>8. AceitoPeloBanco'
      BY <1>0, <1>1 DEF PassarTempo, relogios, doGoTest, historia, AceitoPeloBanco,
                        EtapaInv, Comandos, Compilacoes
    <2> QED
      BY <2>1, <2>2, <2>3, <2>4, <2>5, <2>6, <2>7, <2>8 DEF IndInv
  <1>2. CASE Sinalizar
    <2>1. TypeOK'
      BY <1>0, <1>2 DEF Sinalizar, relogios, doGoTest, historia, TypeOK, Etapas, Comandos,
                        Compilacoes
    <2>2. EtapaInv'
      BY <1>0, <1>2 DEF Sinalizar, relogios, doGoTest, historia, TypeOK, EtapaInv, CtxFim,
                        Comandos, Compilacoes
    <2>3. CodigoInv'
      BY <1>0, <1>2 DEF Sinalizar, relogios, doGoTest, historia, TypeOK, CodigoInv,
                        EtapaInv, Comandos, Compilacoes
    <2>4. LinhasInv'
      BY <1>0, <1>2 DEF Sinalizar, relogios, doGoTest, historia, LinhasInv, LinhaVerdadeira
    <2>5. ApuradoInv'
      BY <1>0, <1>2 DEF Sinalizar, relogios, doGoTest, historia, ApuradoInv
    <2>6. NaoEscondeFalha'
      BY <1>0, <1>2 DEF Sinalizar, relogios, doGoTest, historia, NaoEscondeFalha, EtapaInv,
                        CodigoInv, Comandos, Compilacoes
    <2>7. CulpaComprovada'
      BY <1>0, <1>2 DEF Sinalizar, relogios, doGoTest, historia, CulpaComprovada, EtapaInv,
                        Comandos, Compilacoes
    <2>8. AceitoPeloBanco'
      BY <1>0, <1>2 DEF Sinalizar, relogios, doGoTest, historia, AceitoPeloBanco, EtapaInv,
                        Comandos, Compilacoes
    <2> QED
      BY <2>1, <2>2, <2>3, <2>4, <2>5, <2>6, <2>7, <2>8 DEF IndInv
  <1> QED
    BY <1>1, <1>2

THEOREM Inductive == IndInv /\ [Next]_vars => IndInv'
  <1> SUFFICES ASSUME IndInv, [Next]_vars PROVE IndInv'
    OBVIOUS
  <1>1. CASE UNCHANGED vars
    BY <1>1 DEF vars, relogios, doGoTest, historia, IndInv, TypeOK, EtapaInv, CodigoInv, LinhasInv,
                LinhaVerdadeira, ApuradoInv, NaoEscondeFalha, CulpaComprovada, AceitoPeloBanco, CtxFim
  <1> QED
    BY <1>1, PassoDoPrograma, PassoDeInterpretar, PassoDoGoTest, PassoDoRelogio DEF Next, Programa

THEOREM Invariante == Spec => []IndInv
  BY InitIndInv, Inductive, PTL DEF Spec

(* The variables keep their types. *)
THEOREM TiposCorretos == Spec => []TypeOK
  BY Invariante, PTL DEF IndInv

(* classificarTeste: a PR passes only if every package of it passed. *)
THEOREM FalhaNaoSeEsconde == Spec => []NaoEscondeFalha
  BY Invariante, PTL DEF IndInv

(* TipoFalha: the PR is blamed only for what it did. *)
THEOREM SemCulpaSemProva == Spec => []CulpaComprovada
  BY Invariante, PTL DEF IndInv

(* sandbox_results: every result passes the CHECKs of the table. *)
THEOREM BancoAceita == Spec => []AceitoPeloBanco
  BY Invariante, PTL DEF IndInv
(* Time does not pass while a package of a punctual go test waits for its turn,
   when no package has to. *)
LEMMA NinguemEspera ==
  ASSUME IsFiniteSet(Pacotes), Cardinality(Pacotes) <= Paralelos, NEW p \in Pacotes,
         pacote[p] = "fila"
  PROVE  Cardinality(EmExecucao) < Paralelos
  <1>1. EmExecucao \subseteq Pacotes /\ p \notin EmExecucao
    BY DEF EmExecucao
  <1>2. EmExecucao # Pacotes
    BY <1>1
  <1>3. /\ Cardinality(EmExecucao) <= Cardinality(Pacotes)
        /\ Cardinality(EmExecucao) # Cardinality(Pacotes)
    BY <1>1, <1>2, FS_Subset
  <1>4. Cardinality(EmExecucao) \in Nat /\ Cardinality(Pacotes) \in Nat
    BY <1>1, FS_Subset, FS_CardinalityType
  <1> QED
    BY <1>3, <1>4, LinguagemAssumption

(* A step keeps the margin: the program computes it, go test starts its packages
   at once and ends them at their -timeout, and the deadline comes later. *)
LEMMA PassoDaMargem ==
  ASSUME Margem > 0, IsFiniteSet(Pacotes), Cardinality(Pacotes) <= Paralelos,
         IndInv, MargemInv, [Next]_vars
  PROVE  MargemInv'
  <1> USE LinguagemAssumption, PrazoNatural
  <1>0. TypeOK /\ EtapaInv
    BY DEF IndInv
  <1>m. Margem > 0
    OBVIOUS
  <1>1. CASE Ler
    BY <1>0, <1>m, <1>1 DEF Ler, Responder, Ir, relogios, doGoTest, historia, TypeOK, EtapaInv,
       MargemInv, AntesDosTestes, Etapas, Comandos, Compilacoes, NoGoTest
  <1>2. CASE Verificar
    BY <1>0, <1>m, <1>2 DEF Verificar, Responder, Ir, relogios, doGoTest, historia, TypeOK, EtapaInv,
       MargemInv, AntesDosTestes, Etapas, Comandos, Compilacoes, NoGoTest
  <1>3. CASE Iniciar
    BY <1>0, <1>m, <1>3 DEF Iniciar, relogios, doGoTest, historia, TypeOK, EtapaInv,
       MargemInv, AntesDosTestes, Etapas, Comandos, Compilacoes, NoGoTest
  <1>4. CASE NaoIniciar
    BY <1>0, <1>m, <1>4 DEF NaoIniciar, Responder, relogios, doGoTest, historia, TypeOK, EtapaInv,
       MargemInv, AntesDosTestes, Etapas, Comandos, Compilacoes, NoGoTest
  <1>5. CASE Cancelar
    BY <1>0, <1>m, <1>5 DEF Cancelar, CtxFim, relogios, doGoTest, historia, TypeOK, EtapaInv,
       MargemInv, AntesDosTestes, Etapas, Comandos, Compilacoes, NoGoTest
  <1>6. CASE Interpretar
    BY <1>0, <1>m, <1>6 DEF Interpretar, Responder, Seguir, Ir, Seguinte, relogios, doGoTest, historia, TypeOK, EtapaInv,
       MargemInv, AntesDosTestes, Etapas, Comandos, Compilacoes, NoGoTest
  <1>7. CASE Calcular
    BY <1>0, <1>m, <1>7 DEF Calcular, Responder, Ir, relogios, doGoTest, historia, TypeOK, EtapaInv,
       MargemInv, AntesDosTestes, Etapas, Comandos, Compilacoes, NoGoTest
  <1>8. CASE Considerar
    BY <1>0, <1>m, <1>8 DEF Considerar, relogios, doGoTest, historia, TypeOK, EtapaInv,
       MargemInv, AntesDosTestes, Etapas, Comandos, Compilacoes, NoGoTest
  <1>9. CASE Concluir
    BY <1>0, <1>m, <1>9 DEF Concluir, Responder, relogios, doGoTest, historia, TypeOK, EtapaInv,
       MargemInv, AntesDosTestes, Etapas, Comandos, Compilacoes, NoGoTest
  <1>10. CASE Entregar
    BY <1>0, <1>m, <1>10 DEF Entregar, relogios, doGoTest, historia, TypeOK, EtapaInv,
       MargemInv, AntesDosTestes, Etapas, Comandos, Compilacoes, NoGoTest
  <1>11. CASE ComandoTermina
    BY <1>0, <1>m, <1>11 DEF ComandoTermina, relogios, doGoTest, historia, TypeOK, EtapaInv,
       MargemInv, AntesDosTestes, Etapas, Comandos, Compilacoes, NoGoTest
  <1>12. ASSUME NEW p \in Pacotes, IniciarPacote(p) PROVE MargemInv'
    BY <1>0, <1>12 DEF IniciarPacote, ForaDoGoTest, relogios, historia, TypeOK, EtapaInv,
       MargemInv, AntesDosTestes, Etapas, Comandos, Compilacoes, NoGoTest
  <1>13. ASSUME NEW p \in Pacotes, PacoteNaoCompila(p) PROVE MargemInv'
    BY <1>0, <1>13 DEF PacoteNaoCompila, ForaDoGoTest, relogios, historia, TypeOK, EtapaInv,
       MargemInv, AntesDosTestes, Etapas, Comandos, Compilacoes, NoGoTest
  <1>14. ASSUME NEW p \in Pacotes, PacotePassa(p) PROVE MargemInv'
    BY <1>0, <1>14 DEF PacotePassa, ForaDoGoTest, relogios, historia, TypeOK, EtapaInv,
       MargemInv, AntesDosTestes, Etapas, Comandos, Compilacoes, NoGoTest
  <1>15. ASSUME NEW p \in Pacotes, PacoteFalha(p) PROVE MargemInv'
    BY <1>0, <1>15 DEF PacoteFalha, ForaDoGoTest, relogios, historia, TypeOK, EtapaInv,
       MargemInv, AntesDosTestes, Etapas, Comandos, Compilacoes, NoGoTest
  <1>16. ASSUME NEW t \in Testes, TesteTermina(t) PROVE MargemInv'
    BY <1>0, <1>16 DEF TesteTermina, ForaDoGoTest, relogios, historia, TypeOK, EtapaInv,
       MargemInv, AntesDosTestes, Etapas, Comandos, Compilacoes, NoGoTest
  <1>17. ASSUME NEW t \in Testes, Travar(t) PROVE MargemInv'
    BY <1>0, <1>17 DEF Travar, ForaDoGoTest, relogios, historia, TypeOK, EtapaInv,
       MargemInv, AntesDosTestes, Etapas, Comandos, Compilacoes, NoGoTest
  <1>18. ASSUME NEW t \in Testes, SubtesteTermina(t) PROVE MargemInv'
    BY <1>0, <1>18 DEF SubtesteTermina, ForaDoGoTest, relogios, historia, TypeOK, EtapaInv,
       MargemInv, AntesDosTestes, Etapas, Comandos, Compilacoes, NoGoTest
  <1>19. CASE GoTestTermina
    BY <1>0, <1>19 DEF GoTestTermina, ForaDoGoTest, doGoTest, relogios, historia, TypeOK, EtapaInv,
       MargemInv, AntesDosTestes, Etapas, Comandos, Compilacoes, NoGoTest
  <1>20. CASE PassarTempo
    <2>1. pontual /\ NoGoTest => \A p \in Pacotes : pacote[p] # "fila" /\ ~Estourado(p)
      <3> SUFFICES ASSUME pontual, NoGoTest, NEW p \in Pacotes
                   PROVE  pacote[p] # "fila" /\ ~Estourado(p)
        OBVIOUS
      <3>1. ~Estourado(p) /\ (pacote[p] = "fila" => Cardinality(EmExecucao) >= Paralelos)
        BY <1>20 DEF PassarTempo
      <3>2. CASE pacote[p] = "fila"
        <4>1. Cardinality(EmExecucao) < Paralelos
          BY <3>2, NinguemEspera
        <4>2. Cardinality(EmExecucao) \in Nat
          <5>1. EmExecucao \subseteq Pacotes
            BY DEF EmExecucao
          <5> QED
            BY <5>1, FS_Subset, FS_CardinalityType
        <4> QED
          BY <3>1, <3>2, <4>1, <4>2
      <3> QED
        BY <3>1, <3>2
    <2> QED
      BY <1>0, <1>20, <2>1 DEF PassarTempo, Estourado, doGoTest, historia, TypeOK, EtapaInv,
         MargemInv, AntesDosTestes, Etapas, Comandos, Compilacoes, NoGoTest
  <1>21. CASE Sinalizar
    BY <1>0, <1>21 DEF Sinalizar, doGoTest, historia, TypeOK, EtapaInv,
       MargemInv, AntesDosTestes, Etapas, Comandos, Compilacoes, NoGoTest
  <1>22. CASE UNCHANGED vars
    BY <1>22 DEF vars, relogios, doGoTest, historia,
       MargemInv, AntesDosTestes, Etapas, Comandos, Compilacoes, NoGoTest
  <1> QED
    BY <1>1, <1>2, <1>3, <1>4, <1>5, <1>6, <1>7, <1>8, <1>9, <1>10, <1>11, <1>12,
       <1>13, <1>14, <1>15, <1>16, <1>17, <1>18, <1>19, <1>20, <1>21, <1>22 DEF Next, Programa, GoTest

(* margemParaEntregar: where no package has to wait for another, a test that does
   not end runs into the -timeout before the deadline, whatever the packages. *)
THEOREM TravaAcabaNoTimeout ==
  ASSUME Margem > 0, IsFiniteSet(Pacotes), Cardinality(Pacotes) <= Paralelos
  PROVE  Spec => []TravaEhCulpaDoPR
  <1>1. Init => MargemInv
    BY DEF Init, MargemInv, AntesDosTestes, Etapas, Comandos, NoGoTest
  <1>2. IndInv /\ MargemInv /\ [Next]_vars => MargemInv'
    BY PassoDaMargem
  <1>3. MargemInv => TravaEhCulpaDoPR
    BY LinguagemAssumption, PrazoNatural DEF MargemInv, TravaEhCulpaDoPR
  <1> QED
    BY <1>1, <1>2, <1>3, Invariante, PTL DEF Spec

(* A step keeps the time: a command that may pass the deadline is cancelled there. *)
LEMMA PassoDoTempo ==
  ASSUME IndInv, TempoInv, [Next]_vars
  PROVE  TempoInv'
  <1> USE LinguagemAssumption, PrazoNatural
  <1>0. /\ relogio \in Nat /\ terminouEm \in Nat
        /\ (fase # "parado" => etapa \in Comandos)
    BY DEF IndInv, TypeOK, EtapaInv
  <1>1. ASSUME UNCHANGED relogio, fase' = "parado" PROVE TempoInv'
    BY <1>1 DEF TempoInv
  <1>2. ASSUME UNCHANGED <<relogio, fase, terminouEm>> PROVE TempoInv'
    BY <1>2 DEF TempoInv
  <1>3. ASSUME UNCHANGED relogio, fase = "rodando", fase' = "terminado", terminouEm' = relogio
        PROVE  TempoInv'
    BY <1>0, <1>3 DEF TempoInv
  <1>4. CASE Ler \/ Verificar \/ NaoIniciar \/ Interpretar \/ Calcular \/ Concluir
    <2>1. UNCHANGED relogio /\ fase' = "parado"
      BY <1>4 DEF Ler, Verificar, NaoIniciar, Interpretar, Calcular, Concluir, Responder, Ir, Seguir,
         relogios
    <2> QED
      BY <1>1, <2>1
  <1>5. CASE Iniciar
    <2>1. UNCHANGED relogio /\ fase' = "rodando" /\ ~(relogio >= Prazo)
      BY <1>5 DEF Iniciar, CtxFim, relogios
    <2> QED
      BY <1>0, <2>1 DEF TempoInv
  <1>6. CASE Cancelar \/ ComandoTermina \/ GoTestTermina
    <2>1. UNCHANGED relogio /\ fase = "rodando" /\ fase' = "terminado" /\ terminouEm' = relogio
      BY <1>6 DEF Cancelar, ComandoTermina, GoTestTermina, NoGoTest, ForaDoGoTest, relogios
    <2> QED
      BY <1>3, <2>1
  <1>7. CASE Considerar \/ Entregar \/ Sinalizar
    BY <1>2, <1>7 DEF Considerar, Entregar, Sinalizar, relogios
  <1>8. ASSUME NEW p \in Pacotes,
               IniciarPacote(p) \/ PacoteNaoCompila(p) \/ PacotePassa(p) \/ PacoteFalha(p)
        PROVE  TempoInv'
    BY <1>2, <1>8 DEF IniciarPacote, PacoteNaoCompila, PacotePassa, PacoteFalha, ForaDoGoTest, relogios
  <1>9. ASSUME NEW t \in Testes, TesteTermina(t) \/ Travar(t) \/ SubtesteTermina(t)
        PROVE  TempoInv'
    BY <1>2, <1>9 DEF TesteTermina, Travar, SubtesteTermina, ForaDoGoTest, relogios
  <1>10. CASE PassarTempo
    <2>1. /\ fase # "parado" /\ ~(fase = "rodando" /\ relogio >= Prazo)
          /\ fase = "terminado" => relogio < terminouEm + Limpeza
          /\ relogio' = relogio + 1 /\ UNCHANGED <<fase, terminouEm>>
      BY <1>10 DEF PassarTempo, CtxFim
    <2>2. fase \in {"rodando", "terminado"}
      BY <2>1 DEF IndInv, TypeOK
    <2>3. CASE fase = "rodando"
      BY <1>0, <2>1, <2>3 DEF TempoInv
    <2>4. CASE fase = "terminado"
      BY <1>0, <2>1, <2>4 DEF TempoInv
    <2> QED
      BY <2>2, <2>3, <2>4
  <1>11. CASE UNCHANGED vars
    BY <1>2, <1>11 DEF vars, relogios
  <1> QED
    BY <1>4, <1>5, <1>6, <1>7, <1>8, <1>9, <1>10, <1>11 DEF Next, Programa, GoTest

(* margemParaSubirOContainer: for any deadline of the executor, a container that
   starts within the margin delivers while the executor waits. *)
THEOREM ChegaAntes == Spec => []EntregaATempo
  <1>1. Init => TempoInv
    BY LinguagemAssumption, PrazoNatural DEF Init, TempoInv
  <1>2. IndInv /\ TempoInv /\ [Next]_vars => TempoInv'
    BY PassoDoTempo
  <1>3. IndInv /\ TempoInv => EntregaATempo
    <2> SUFFICES ASSUME IndInv, TempoInv, ComPrazo, PrazoDoPedido > Subida,
                        NEW atraso \in 0 .. Subida - Limpeza
                 PROVE  atraso + relogio <= PrazoDoPedido
      BY DEF EntregaATempo
    <2>1. Prazo = PrazoDoPedido - Subida
      BY DEF Prazo
    <2>2. relogio \in Nat /\ relogio <= Prazo + Limpeza
      BY DEF IndInv, TypeOK, TempoInv
    <2>3. atraso \in Int /\ atraso <= Subida - Limpeza
      BY LinguagemAssumption
    <2> QED
      BY <2>1, <2>2, <2>3, LinguagemAssumption
  <1> QED
    BY <1>1, <1>2, <1>3, Invariante, PTL DEF Spec

------------------------------------------------------------------------------
(* The counts *)

(* go test only adds lines. *)
Estendida ==
  /\ Len(saida) \in Nat /\ Len(saida') \in Nat /\ Len(saida) <= Len(saida')
  /\ \A k \in 1 .. Len(saida) : saida'[k] = saida[k]

(* Lines that are not of a test, and tests that go on, change nothing for the
   tests that ended. *)
LEMMA TestesNaoMudam ==
  ASSUME TestesEscritos, Estendida,
         \A k \in 1 .. Len(saida') : k > Len(saida) => saida'[k].teste \notin Testes,
         \A t \in Testes : feito[t] \in {"pass", "fail"} \/ feito'[t] \in {"pass", "fail"} =>
                             feito'[t] = feito[t]
  PROVE  TestesEscritos'
  <1>1. ASSUME NEW k \in 1 .. Len(saida'), saida'[k].teste \in Testes
        PROVE  k \in 1 .. Len(saida) /\ saida'[k] = saida[k]
    BY <1>1 DEF Estendida
  <1>2. \A k \in 1 .. Len(saida') : saida'[k].teste \in Testes =>
          /\ saida'[k].pacote = PacoteDe[saida'[k].teste]
          /\ feito'[saida'[k].teste] \in {"pass", "fail"}
          /\ saida'[k].acao \in {feito'[saida'[k].teste], "invalida"}
    BY <1>1 DEF TestesEscritos
  <1>3. \A j, k \in 1 .. Len(saida') :
          saida'[j].teste \in Testes /\ saida'[j].teste = saida'[k].teste => j = k
    BY <1>1 DEF TestesEscritos
  <1>4. ASSUME NEW t \in Testes, feito'[t] \in {"pass", "fail"}
        PROVE  \E k \in 1 .. Len(saida') : saida'[k].teste = t
    <2>1. PICK k \in 1 .. Len(saida) : saida[k].teste = t
      BY <1>4 DEF TestesEscritos
    <2> QED
      BY <2>1 DEF Estendida
  <1> QED
    BY <1>2, <1>3, <1>4 DEF TestesEscritos

(* A test that ends writes its line. *)
LEMMA TesteEscrito ==
  ASSUME TestesEscritos, Estendida, Len(saida') = Len(saida) + 1,
         NEW t \in Testes, feito[t] = "correndo", NEW acao \in {"pass", "fail"},
         feito'[t] = acao, \A u \in Testes \ {t} : feito'[u] = feito[u],
         saida'[Len(saida')].teste = t, saida'[Len(saida')].pacote = PacoteDe[t],
         saida'[Len(saida')].acao \in {acao, "invalida"}
  PROVE  TestesEscritos'
  <1>1. ASSUME NEW k \in 1 .. Len(saida), saida[k].teste \in Testes
        PROVE  saida[k].teste # t
    BY <1>1 DEF TestesEscritos
  <1>2. \A k \in 1 .. Len(saida') :
          k = Len(saida') \/ (k \in 1 .. Len(saida) /\ saida'[k] = saida[k])
    BY DEF Estendida
  <1>3. \A k \in 1 .. Len(saida') : saida'[k].teste \in Testes =>
          /\ saida'[k].pacote = PacoteDe[saida'[k].teste]
          /\ feito'[saida'[k].teste] \in {"pass", "fail"}
          /\ saida'[k].acao \in {feito'[saida'[k].teste], "invalida"}
    BY <1>1, <1>2 DEF TestesEscritos
  <1>4. ASSUME NEW j \in 1 .. Len(saida'), NEW k \in 1 .. Len(saida'),
               saida'[j].teste \in Testes, saida'[j].teste = saida'[k].teste
        PROVE  j = k
    <2>1. CASE j = Len(saida') \/ k = Len(saida')
      BY <1>1, <1>2, <1>4, <2>1
    <2>2. CASE j # Len(saida') /\ k # Len(saida')
      BY <1>2, <1>4, <2>2 DEF TestesEscritos
    <2> QED
      BY <2>1, <2>2
  <1>5. ASSUME NEW u \in Testes, feito'[u] \in {"pass", "fail"}
        PROVE  \E k \in 1 .. Len(saida') : saida'[k].teste = u
    <2>1. CASE u = t
      <3>1. Len(saida') \in 1 .. Len(saida')
        BY DEF Estendida
      <3> QED
        BY <2>1, <3>1
    <2>2. CASE u # t
      <3>1. PICK k \in 1 .. Len(saida) : saida[k].teste = u
        BY <1>5, <2>2 DEF TestesEscritos
      <3> QED
        BY <3>1 DEF Estendida
    <2> QED
      BY <2>1, <2>2
  <1> QED
    BY <1>3, <1>4, <1>5 DEF TestesEscritos

(* Lines that are not of a package, and packages that have not passed or
   failed, change nothing for the others. *)
LEMMA PacotesNaoMudam ==
  ASSUME PacotesEscritos, Estendida, saida \in Seq(Linhas),
         \A k \in 1 .. Len(saida') : k > Len(saida) => ~DePacote(saida'[k]),
         \A p \in Pacotes : pacote[p] \in {"passou", "falhou"} \/ pacote'[p] \in {"passou", "falhou"} =>
                              pacote'[p] = pacote[p]
  PROVE  PacotesEscritos'
  <1>1. ASSUME NEW k \in 1 .. Len(saida'), DePacote(saida'[k])
        PROVE  k \in 1 .. Len(saida) /\ saida'[k] = saida[k] /\ saida[k].pacote \in Pacotes
    <2>1. k \in 1 .. Len(saida) /\ saida'[k] = saida[k]
      BY <1>1 DEF Estendida
    <2>2. saida[k] \in Linhas
      BY <2>1
    <2> QED
      BY <2>1, <2>2 DEF Linhas
  <1>2. \A k \in 1 .. Len(saida') : DePacote(saida'[k]) =>
          \/ pacote'[saida'[k].pacote] = "passou" /\ saida'[k].acao \in {"pass", "invalida"}
          \/ pacote'[saida'[k].pacote] = "falhou" /\ saida'[k].acao \in {"fail", "invalida"}
    BY <1>1 DEF PacotesEscritos
  <1>3. \A j, k \in 1 .. Len(saida') :
          DePacote(saida'[j]) /\ DePacote(saida'[k]) /\ saida'[j].pacote = saida'[k].pacote => j = k
    BY <1>1 DEF PacotesEscritos
  <1>4. ASSUME NEW p \in Pacotes, pacote'[p] = "falhou"
        PROVE  \E k \in 1 .. Len(saida') : DePacote(saida'[k]) /\ saida'[k].pacote = p
    <2>1. PICK k \in 1 .. Len(saida) : DePacote(saida[k]) /\ saida[k].pacote = p
      BY <1>4 DEF PacotesEscritos
    <2> QED
      BY <2>1 DEF Estendida
  <1> QED
    BY <1>2, <1>3, <1>4 DEF PacotesEscritos, DePacote

(* A package that passes or fails writes its line. *)
LEMMA PacoteEscrito ==
  ASSUME PacotesEscritos, Estendida, saida \in Seq(Linhas), Len(saida') = Len(saida) + 1,
         NEW p \in Pacotes, pacote[p] = "rodando", NEW acao \in {"pass", "fail"},
         pacote'[p] = IF acao = "pass" THEN "passou" ELSE "falhou",
         \A q \in Pacotes \ {p} : pacote'[q] = pacote[q],
         DePacote(saida'[Len(saida')]), saida'[Len(saida')].pacote = p,
         saida'[Len(saida')].acao \in {acao, "invalida"}
  PROVE  PacotesEscritos'
  <1>1. ASSUME NEW k \in 1 .. Len(saida), DePacote(saida[k])
        PROVE  saida[k].pacote \in Pacotes \ {p}
    <2>1. saida[k] \in Linhas
      OBVIOUS
    <2> QED
      BY <1>1, <2>1 DEF PacotesEscritos, Linhas
  <1>2. \A k \in 1 .. Len(saida') :
          k = Len(saida') \/ (k \in 1 .. Len(saida) /\ saida'[k] = saida[k])
    BY DEF Estendida
  <1>3. ASSUME NEW k \in 1 .. Len(saida'), DePacote(saida'[k])
        PROVE  \/ pacote'[saida'[k].pacote] = "passou" /\ saida'[k].acao \in {"pass", "invalida"}
               \/ pacote'[saida'[k].pacote] = "falhou" /\ saida'[k].acao \in {"fail", "invalida"}
    <2>1. CASE k = Len(saida')
      BY <2>1
    <2>2. CASE k \in 1 .. Len(saida) /\ saida'[k] = saida[k]
      <3>1. DePacote(saida[k])
        BY <1>3, <2>2
      <3>2. pacote'[saida[k].pacote] = pacote[saida[k].pacote]
        BY <1>1, <2>2, <3>1
      <3> QED
        BY <2>2, <3>1, <3>2 DEF PacotesEscritos
    <2> QED
      BY <1>2, <2>1, <2>2
  <1>4. ASSUME NEW j \in 1 .. Len(saida'), NEW k \in 1 .. Len(saida'),
               DePacote(saida'[j]), DePacote(saida'[k]), saida'[j].pacote = saida'[k].pacote
        PROVE  j = k
    <2>1. CASE j = Len(saida') \/ k = Len(saida')
      BY <1>1, <1>2, <1>4, <2>1
    <2>2. CASE j # Len(saida') /\ k # Len(saida')
      BY <1>2, <1>4, <2>2 DEF PacotesEscritos
    <2> QED
      BY <2>1, <2>2
  <1>5. ASSUME NEW q \in Pacotes, pacote'[q] = "falhou"
        PROVE  \E k \in 1 .. Len(saida') : DePacote(saida'[k]) /\ saida'[k].pacote = q
    <2>1. CASE q = p
      <3>1. Len(saida') \in 1 .. Len(saida')
        BY DEF Estendida
      <3> QED
        BY <2>1, <3>1
    <2>2. CASE q # p
      <3>1. PICK k \in 1 .. Len(saida) : DePacote(saida[k]) /\ saida[k].pacote = q
        BY <1>5, <2>2 DEF PacotesEscritos
      <3> QED
        BY <3>1 DEF Estendida
    <2> QED
      BY <2>1, <2>2
  <1> QED
    BY <1>3, <1>4, <1>5 DEF PacotesEscritos, DePacote

(* What was counted of the lines that were read stays so. *)
LEMMA ContadosNaoMudam ==
  ASSUME TestesContados, PacotesContados, Estendida, lida \in 0 .. Len(saida),
         UNCHANGED <<lida, apurado>>
  PROVE  TestesContados' /\ PacotesContados'
  <1>1. \A k \in 1 .. lida : saida'[k] = saida[k]
    BY DEF Estendida
  <1>2. \A acao : Lidos(acao)' = Lidos(acao)
    BY <1>1 DEF Lidos
  <1>3. \A p \in Pacotes : FalhaLida(p)' <=> FalhaLida(p)
    BY <1>1 DEF FalhaLida, DePacote
  <1> QED
    BY <1>2, <1>3 DEF TestesContados, PacotesContados, DoPacote

(* The line the apurador reads is of a test that ended, of a package that
   failed, or counts for nothing. *)
LEMMA LinhaLida ==
  ASSUME NEW a \in Apurados, NEW linha \in Linhas
  PROVE  LET b == Apurado(a, linha) IN
         \/ /\ linha.acao = "pass" /\ linha.teste \in Testes
            /\ b.passaram = a.passaram + 1 /\ b.falharam = a.falharam
            /\ b.falhasPorPacote = a.falhasPorPacote /\ b.pacotesQueFalharam = a.pacotesQueFalharam
         \/ /\ linha.acao = "fail" /\ linha.teste \in Testes
            /\ b.passaram = a.passaram /\ b.falharam = a.falharam + 1
            /\ b.falhasPorPacote = [a.falhasPorPacote EXCEPT ![linha.pacote] = @ + 1]
            /\ b.pacotesQueFalharam = a.pacotesQueFalharam
         \/ /\ linha.acao = "fail" /\ DePacote(linha)
            /\ b.passaram = a.passaram /\ b.falharam = a.falharam
            /\ b.falhasPorPacote = a.falhasPorPacote
            /\ b.pacotesQueFalharam = Append(a.pacotesQueFalharam, linha.pacote)
         \/ /\ ~(linha.acao \in {"pass", "fail"} /\ linha.teste \in Testes)
            /\ ~(linha.acao = "fail" /\ DePacote(linha))
            /\ b.passaram = a.passaram /\ b.falharam = a.falharam
            /\ b.falhasPorPacote = a.falhasPorPacote /\ b.pacotesQueFalharam = a.pacotesQueFalharam
  <1>t. /\ linha.teste \in Testes \union {SemTeste, Subteste} /\ linha.compilacaoFalhou \in BOOLEAN
        /\ linha.acao \in {"pass", "fail", "build-fail", "invalida"}
    BY DEF Linhas
  <1>n. NivelSuperior(linha.teste) <=> linha.teste \in Testes
    BY <1>t, LinguagemAssumption DEF NivelSuperior
  <1>1. CASE linha.acao = "invalida"
    BY <1>1 DEF Apurado, DePacote
  <1>2. CASE linha.acao = "build-fail"
    <2>1. Apurado(a, linha) = [a EXCEPT !.falhaDeCompilacao = TRUE]
      BY <1>2 DEF Apurado
    <2> QED
      BY <1>2, <2>1 DEF Apurados, DePacote
  <1>3. CASE linha.acao = "fail" /\ linha.teste = SemTeste
    <2>1. Apurado(a, linha) = RegistrarFalhaDePacote(a, linha) /\ linha.teste \notin Testes
      BY <1>3, LinguagemAssumption DEF Apurado, NivelSuperior
    <2>2. CASE linha.compilacaoFalhou
      <3>1. Apurado(a, linha) = [a EXCEPT !.falhaDeCompilacao = TRUE]
        BY <2>1, <2>2 DEF RegistrarFalhaDePacote
      <3> QED
        BY <1>3, <2>1, <2>2, <3>1 DEF Apurados, DePacote
    <2>3. CASE ~linha.compilacaoFalhou
      <3> DEFINE falhas == Append(a.pacotesQueFalharam, linha.pacote)
      <3>1. Apurado(a, linha) = [a EXCEPT !.pacotesQueFalharam = falhas]
        BY <2>1, <2>3 DEF RegistrarFalhaDePacote
      <3> HIDE DEF falhas
      <3>2. LET b == Apurado(a, linha) IN
              /\ b.passaram = a.passaram /\ b.falharam = a.falharam
              /\ b.falhasPorPacote = a.falhasPorPacote /\ b.pacotesQueFalharam = falhas
        BY <3>1 DEF Apurados
      <3> QED
        BY <1>3, <2>3, <3>2 DEF falhas, DePacote
    <2> QED
      BY <1>t, <2>2, <2>3
  <1>4. CASE linha.acao = "pass" /\ linha.teste \in Testes
    <2> DEFINE mais == a.passaram + 1
    <2>1. Apurado(a, linha) = [a EXCEPT !.passaram = mais]
      BY <1>4, <1>n DEF Apurado, ContarTeste
    <2> HIDE DEF mais
    <2>2. LET b == Apurado(a, linha) IN
            /\ b.passaram = mais /\ b.falharam = a.falharam
            /\ b.falhasPorPacote = a.falhasPorPacote /\ b.pacotesQueFalharam = a.pacotesQueFalharam
      BY <2>1 DEF Apurados
    <2> QED
      BY <1>4, <2>2 DEF mais
  <1>5. CASE linha.acao = "fail" /\ linha.teste \in Testes
    <2> DEFINE mais == a.falharam + 1
               falhas == [a.falhasPorPacote EXCEPT ![linha.pacote] = @ + 1]
    <2>1. linha.teste # SemTeste
      BY <1>5, LinguagemAssumption
    <2>2. Apurado(a, linha) = [a EXCEPT !.falharam = mais, !.falhasPorPacote = falhas]
      BY <1>5, <1>n, <2>1 DEF Apurado, ContarTeste
    <2> HIDE DEF mais, falhas
    <2>3. LET b == Apurado(a, linha) IN
            /\ b.passaram = a.passaram /\ b.falharam = mais
            /\ b.falhasPorPacote = falhas /\ b.pacotesQueFalharam = a.pacotesQueFalharam
      BY <2>2 DEF Apurados
    <2> QED
      BY <1>5, <2>3 DEF mais, falhas
  <1>6. CASE linha.acao \in {"pass", "fail"} /\ linha.teste \notin Testes
             /\ ~(linha.acao = "fail" /\ linha.teste = SemTeste)
    <2>1. Apurado(a, linha) = a
      BY <1>6, <1>n DEF Apurado
    <2> QED
      BY <1>6, <2>1 DEF DePacote
  <1> QED
    BY <1>t, <1>1, <1>2, <1>3, <1>4, <1>5, <1>6

(* One more line read: a set of tests grows by the test of the line, or stays. *)
LEMMA MaisUmLido ==
  ASSUME TypeOK, lida < Len(saida), lida' = lida + 1, UNCHANGED saida, NEW acao
  PROVE  LET l == saida[lida + 1] IN
         Lidos(acao)' = IF l.acao = acao /\ l.teste \in Testes
                        THEN Lidos(acao) \union {l.teste} ELSE Lidos(acao)
  <1>1. lida \in Nat /\ 1 .. lida + 1 = (1 .. lida) \union {lida + 1}
    BY DEF TypeOK
  <1> QED
    BY <1>1 DEF Lidos

LEMMA TestesAoConsiderar ==
  ASSUME TypeOK, TestesEscritos, TestesContados, Considerar
  PROVE  TestesContados'
  <1> DEFINE l == saida[lida + 1]
  <1>0. /\ lida \in Nat /\ lida < Len(saida) /\ lida' = lida + 1 /\ UNCHANGED saida
        /\ lida + 1 \in 1 .. Len(saida) /\ apurado' = Apurado(apurado, l)
        /\ apurado \in Apurados /\ l \in Linhas /\ saida \in Seq(Linhas)
    BY DEF Considerar, TypeOK, doGoTest
  <1>1. ASSUME NEW acao, l.teste \in Testes PROVE l.teste \notin Lidos(acao)
    <2> SUFFICES ASSUME NEW k \in 1 .. lida, saida[k].teste = l.teste PROVE FALSE
      BY DEF Lidos
    <2>1. k \in 1 .. Len(saida) /\ k # lida + 1
      BY <1>0
    <2> QED
      BY <1>0, <1>1, <2>1 DEF TestesEscritos
  <1>2. \A acao : Lidos(acao)' = IF l.acao = acao /\ l.teste \in Testes
                                 THEN Lidos(acao) \union {l.teste} ELSE Lidos(acao)
    BY <1>0, MaisUmLido
  <1>3. \A acao \in {"pass", "fail"} : IsFiniteSet(Lidos(acao)) /\ IsFiniteSet(Lidos(acao)')
    BY <1>2, FS_AddElement DEF TestesContados
  <1>4. ASSUME NEW acao \in {"pass", "fail"}
        PROVE  Cardinality(Lidos(acao)') =
                 IF l.acao = acao /\ l.teste \in Testes THEN Cardinality(Lidos(acao)) + 1
                 ELSE Cardinality(Lidos(acao))
    BY <1>1, <1>2, <1>3, FS_AddElement
  <1>a. /\ apurado.passaram = Cardinality(Lidos("pass")) /\ apurado.falharam = Cardinality(Lidos("fail"))
        /\ \A p \in Pacotes : apurado.falhasPorPacote[p] = 0 <=> DoPacote(p) \intersect Lidos("fail") = {}
        /\ apurado.falhasPorPacote \in [Pacotes -> Nat]
    BY <1>0 DEF TestesContados, Apurados
  <1> HIDE DEF l
  <1>5. CASE /\ l.acao = "pass" /\ l.teste \in Testes
             /\ apurado'.passaram = apurado.passaram + 1 /\ apurado'.falharam = apurado.falharam
             /\ apurado'.falhasPorPacote = apurado.falhasPorPacote
    <2>1. Lidos("fail")' = Lidos("fail")
      BY <1>2, <1>5
    <2>2. Cardinality(Lidos("pass")') = Cardinality(Lidos("pass")) + 1
      BY <1>4, <1>5
    <2> QED
      BY <1>3, <1>5, <1>a, <2>1, <2>2 DEF TestesContados, DoPacote
  <1>6. CASE /\ l.acao = "fail" /\ l.teste \in Testes
             /\ apurado'.passaram = apurado.passaram /\ apurado'.falharam = apurado.falharam + 1
             /\ apurado'.falhasPorPacote = [apurado.falhasPorPacote EXCEPT ![l.pacote] = @ + 1]
    <2>1. Lidos("pass")' = Lidos("pass") /\ Lidos("fail")' = Lidos("fail") \union {l.teste}
      BY <1>2, <1>6
    <2>2. Cardinality(Lidos("fail")') = Cardinality(Lidos("fail")) + 1
      BY <1>4, <1>6
    <2>3. l.pacote = PacoteDe[l.teste] /\ l.pacote \in Pacotes
      BY <1>0, <1>6, LinguagemAssumption DEF TestesEscritos, l
    <2>4. ASSUME NEW p \in Pacotes
          PROVE  apurado'.falhasPorPacote[p] = 0 <=> DoPacote(p) \intersect Lidos("fail")' = {}
      <3>1. CASE p = l.pacote
        <4>1. l.teste \in DoPacote(p) \intersect Lidos("fail")'
          BY <1>6, <2>1, <2>3, <3>1 DEF DoPacote
        <4>2. apurado'.falhasPorPacote[p] = apurado.falhasPorPacote[p] + 1
          BY <1>6, <1>a, <3>1
        <4>3. apurado.falhasPorPacote[p] \in Nat
          BY <1>a
        <4> QED
          BY <4>1, <4>2, <4>3
      <3>2. CASE p # l.pacote
        <4>1. l.teste \notin DoPacote(p)
          BY <2>3, <3>2 DEF DoPacote
        <4>2. apurado'.falhasPorPacote[p] = apurado.falhasPorPacote[p]
          BY <1>6, <1>a, <3>2
        <4> QED
          BY <1>a, <2>1, <4>1, <4>2
      <3> QED
        BY <3>1, <3>2
    <2> QED
      BY <1>3, <1>6, <1>a, <2>1, <2>2, <2>4 DEF TestesContados, DoPacote
  <1>7. CASE /\ ~(l.acao \in {"pass", "fail"} /\ l.teste \in Testes)
             /\ apurado'.passaram = apurado.passaram /\ apurado'.falharam = apurado.falharam
             /\ apurado'.falhasPorPacote = apurado.falhasPorPacote
    <2>1. Lidos("pass")' = Lidos("pass") /\ Lidos("fail")' = Lidos("fail")
      BY <1>2, <1>7
    <2> QED
      BY <1>3, <1>7, <1>a, <2>1 DEF TestesContados, DoPacote
  <1>8. DePacote(l) => l.teste \notin Testes
    BY LinguagemAssumption DEF DePacote
  <1> QED
    BY <1>0, <1>5, <1>6, <1>7, <1>8, LinhaLida

(* One more line read: a failed package is added to the list, once, or the list
   stays. *)
LEMMA PacotesAoConsiderar ==
  ASSUME TypeOK, PacotesEscritos, PacotesContados, Considerar
  PROVE  PacotesContados'
  <1> DEFINE l == saida[lida + 1]
             s == apurado.pacotesQueFalharam
             s2 == apurado'.pacotesQueFalharam
  <1>0. /\ lida \in Nat /\ lida < Len(saida) /\ lida' = lida + 1 /\ UNCHANGED saida
        /\ lida + 1 \in 1 .. Len(saida) /\ apurado' = Apurado(apurado, l)
        /\ apurado \in Apurados /\ l \in Linhas /\ saida \in Seq(Linhas)
    BY DEF Considerar, TypeOK, doGoTest
  <1>s. s \in Seq(Pacotes) /\ Len(s) \in Nat
    BY <1>0 DEF Apurados
  <1>1. \A p \in Pacotes :
          FalhaLida(p)' <=> FalhaLida(p) \/ (DePacote(l) /\ l.acao = "fail" /\ l.pacote = p)
    <2>1. 1 .. lida + 1 = (1 .. lida) \union {lida + 1}
      BY <1>0
    <2> QED
      BY <1>0, <2>1 DEF FalhaLida, DePacote
  <1>2. /\ \A p \in Pacotes : FalhaLida(p) <=> \E i \in 1 .. Len(s) : s[i] = p
        /\ \A i, j \in 1 .. Len(s) : s[i] = s[j] => i = j
    BY DEF PacotesContados
  <1>3. DePacote(l) => ~FalhaLida(l.pacote)
    <2> SUFFICES ASSUME DePacote(l), NEW k \in 1 .. lida, DePacote(saida[k]), saida[k].pacote = l.pacote
                 PROVE  FALSE
      BY DEF FalhaLida
    <2>1. k \in 1 .. Len(saida) /\ k # lida + 1
      BY <1>0
    <2> QED
      BY <1>0, <2>1 DEF PacotesEscritos
  <1>4. l.pacote \in Pacotes
    BY <1>0 DEF Linhas
  <1> HIDE DEF l, s, s2
  <1>5. CASE DePacote(l) /\ l.acao = "fail" /\ s2 = Append(s, l.pacote)
    <2>1. /\ Len(s2) = Len(s) + 1 /\ s2[Len(s2)] = l.pacote
          /\ \A i \in 1 .. Len(s) : s2[i] = s[i] /\ s[i] \in Pacotes
      BY <1>4, <1>5, <1>s
    <2>2. \A i \in 1 .. Len(s2) : i = Len(s2) \/ i \in 1 .. Len(s)
      BY <1>s, <2>1
    <2>3. \A i \in 1 .. Len(s) : s[i] # l.pacote
      BY <1>2, <1>3, <1>4, <1>5
    <2>4. \A i, j \in 1 .. Len(s2) : s2[i] = s2[j] => i = j
      BY <1>2, <2>1, <2>2, <2>3
    <2>5. ASSUME NEW p \in Pacotes PROVE FalhaLida(p)' <=> \E i \in 1 .. Len(s2) : s2[i] = p
      <3>1. Len(s2) \in 1 .. Len(s2) /\ \A i \in 1 .. Len(s) : i \in 1 .. Len(s2)
        BY <1>s, <2>1
      <3>2. (\E i \in 1 .. Len(s2) : s2[i] = p) <=> (l.pacote = p \/ \E i \in 1 .. Len(s) : s[i] = p)
        BY <2>1, <2>2, <3>1
      <3> QED
        BY <1>1, <1>2, <1>5, <3>2
    <2> QED
      BY <2>4, <2>5 DEF PacotesContados, s2
  <1>6. CASE ~(DePacote(l) /\ l.acao = "fail") /\ s2 = s
    <2>1. \A p \in Pacotes : FalhaLida(p)' <=> FalhaLida(p)
      BY <1>1, <1>6
    <2> QED
      BY <1>2, <1>6, <2>1 DEF PacotesContados, s, s2
  <1>7. l.teste \in Testes => ~DePacote(l)
    BY LinguagemAssumption DEF DePacote
  <1> QED
    BY <1>0, <1>5, <1>6, <1>7, LinhaLida DEF s, s2

(* What classificarTeste answers about the tests is what was counted. *)
LEMMA ClassificadoConta ==
  ASSUME Classificado.tipo \in {"nenhuma", "teste"}
  PROVE  Classificado.passaram = apurado.passaram /\ Classificado.falharam = Falharam
  <1>1. CASE apurado.falhaDeCompilacao
    BY <1>1 DEF Classificado, Medido
  <1>2. CASE ~apurado.falhaDeCompilacao /\ Falharam > 0
    BY <1>2 DEF Classificado, Medido
  <1>3. CASE ~apurado.falhaDeCompilacao /\ ~(Falharam > 0) /\ Falharam = 0 /\ codigo # 0
    BY <1>3 DEF Classificado, Infra
  <1>4. CASE ~apurado.falhaDeCompilacao /\ ~(Falharam > 0) /\ ~(Falharam = 0 /\ codigo # 0)
    BY <1>4 DEF Classificado, Medido
  <1> QED
    BY <1>1, <1>2, <1>3, <1>4

(* A step that reads and writes no line keeps the counts. *)
LEMMA ContagemSemLinhas ==
  ASSUME ContagemInv, UNCHANGED <<doGoTest, lida, apurado>>,
         resultado' \in {resultado, Infra, FalhaDeCompilacao}
  PROVE  ContagemInv'
  <1>1. TestesEscritos' /\ PacotesEscritos'
    BY DEF ContagemInv, doGoTest, TestesEscritos, PacotesEscritos, DePacote
  <1>2. TestesContados' /\ PacotesContados'
    <2>1. \A acao : Lidos(acao)' = Lidos(acao)
      BY DEF Lidos, doGoTest
    <2>2. \A p : FalhaLida(p)' <=> FalhaLida(p)
      BY DEF FalhaLida, DePacote, doGoTest
    <2> QED
      BY <2>1, <2>2 DEF ContagemInv, TestesContados, PacotesContados, DoPacote
  <1>3. ConclusaoInv'
    <2>1. CASE resultado' = resultado
      <3>1. Falharam' = Falharam /\ saida' = saida
        BY DEF Falharam, doGoTest
      <3> QED
        BY <2>1, <3>1 DEF ContagemInv, ConclusaoInv
    <2>2. CASE resultado' \in {Infra, FalhaDeCompilacao}
      BY <2>2 DEF ConclusaoInv, Infra, FalhaDeCompilacao
    <2> QED
      BY <2>1, <2>2
  <1> QED
    BY <1>1, <1>2, <1>3 DEF ContagemInv

(* What the program and the clock do keeps the counts. *)
LEMMA ContagemDoPrograma ==
  ASSUME IndInv, ContagemInv,
         Programa \/ ComandoTermina \/ PassarTempo \/ Sinalizar \/ UNCHANGED vars
  PROVE  ContagemInv'
  <1>0. TypeOK /\ EtapaInv
    BY DEF IndInv
  <1>1. CASE Considerar
    <2>1. TestesEscritos' /\ PacotesEscritos'
      BY <1>1 DEF ContagemInv, Considerar, doGoTest, TestesEscritos, PacotesEscritos, DePacote
    <2>2. TestesContados' /\ PacotesContados'
      BY <1>0, <1>1, TestesAoConsiderar, PacotesAoConsiderar DEF ContagemInv
    <2>3. ConclusaoInv'
      BY <1>0, <1>1 DEF ConclusaoInv, EtapaInv, Considerar
    <2> QED
      BY <2>1, <2>2, <2>3 DEF ContagemInv
  <1>2. CASE Concluir
    <2>1. UNCHANGED <<doGoTest, lida, apurado>> /\ lida = Len(saida) /\ resultado' = Classificado
      BY <1>2 DEF Concluir, Responder
    <2>2. TestesEscritos' /\ PacotesEscritos'
      BY <2>1 DEF ContagemInv, doGoTest, TestesEscritos, PacotesEscritos, DePacote
    <2>3. TestesContados' /\ PacotesContados'
      <3>1. \A acao : Lidos(acao)' = Lidos(acao)
        BY <2>1 DEF Lidos, doGoTest
      <3>2. \A p : FalhaLida(p)' <=> FalhaLida(p)
        BY <2>1 DEF FalhaLida, DePacote, doGoTest
      <3> QED
        BY <2>1, <3>1, <3>2 DEF ContagemInv, TestesContados, PacotesContados, DoPacote
    <2>4. ConclusaoInv'
      <3>1. Falharam' = Falharam /\ saida' = saida
        BY <2>1 DEF Falharam, doGoTest
      <3> QED
        BY <2>1, <3>1, ClassificadoConta DEF ConclusaoInv
    <2> QED
      BY <2>2, <2>3, <2>4 DEF ContagemInv
  <1>3. CASE Ler \/ Verificar \/ Iniciar \/ NaoIniciar \/ Cancelar \/ Interpretar \/ Calcular \/ Entregar
    <2>1. /\ UNCHANGED <<doGoTest, lida, apurado>>
          /\ resultado' \in {resultado, Infra, FalhaDeCompilacao}
      BY <1>3 DEF Ler, Verificar, Iniciar, NaoIniciar, Cancelar, Interpretar, Calcular, Entregar,
                  Responder, Ir, Seguir
    <2> QED
      BY <2>1, ContagemSemLinhas
  <1>4. CASE ComandoTermina \/ PassarTempo \/ Sinalizar \/ UNCHANGED vars
    <2>1. UNCHANGED <<doGoTest, lida, apurado, resultado>>
      BY <1>4 DEF ComandoTermina, PassarTempo, Sinalizar, vars
    <2> QED
      BY <2>1, ContagemSemLinhas
  <1> QED
    BY <1>1, <1>2, <1>3, <1>4 DEF Programa

(* A step of go test that keeps what was written of tests and packages. *)
LEMMA ContagemComLinhas ==
  ASSUME TypeOK, EtapaInv, ContagemInv, NoGoTest, UNCHANGED ForaDoGoTest, Estendida,
         TestesEscritos', PacotesEscritos'
  PROVE  ContagemInv'
  <1>1. lida \in 0 .. Len(saida) /\ UNCHANGED <<lida, apurado, resultado>> /\ resultado = Nenhum
    BY DEF TypeOK, EtapaInv, NoGoTest, ForaDoGoTest
  <1>2. TestesContados' /\ PacotesContados'
    BY <1>1, ContadosNaoMudam DEF ContagemInv
  <1>3. ConclusaoInv'
    BY <1>1 DEF ConclusaoInv
  <1> QED
    BY <1>2, <1>3 DEF ContagemInv

(* What Escrever writes: the line, or the line broken. *)
LEMMA UmaLinha ==
  ASSUME TypeOK, NEW acao \in {"pass", "fail"}, NEW p \in Pacotes,
         NEW teste \in Testes \union {SemTeste}, Escrever(Linha(acao, p, teste, FALSE))
  PROVE  LET l == saida'[Len(saida')] IN
         /\ Estendida /\ Len(saida') = Len(saida) + 1
         /\ \A k \in 1 .. Len(saida') : k > Len(saida) => k = Len(saida')
         /\ l.acao \in {acao, "invalida"} /\ l.pacote = p /\ l.teste = teste /\ ~l.compilacaoFalhou
  <1> DEFINE linha == Linha(acao, p, teste, FALSE)
  <1>1. linha \in Linhas /\ linha.acao # "invalida"
    BY DEF Linha, Linhas
  <1>2. /\ linha.acao = acao /\ linha.pacote = p /\ linha.teste = teste /\ ~linha.compilacaoFalhou
        /\ LET q == [linha EXCEPT !.acao = "invalida"] IN
           q.acao = "invalida" /\ q.pacote = p /\ q.teste = teste /\ ~q.compilacaoFalhou
    BY DEF Linha
  <1> HIDE DEF linha
  <1>3. /\ saida' \in Seq(Linhas) /\ Len(saida') = Len(saida) + 1
        /\ \A k \in 1 .. Len(saida) : saida'[k] = saida[k]
        /\ saida'[Len(saida')] \in {linha, [linha EXCEPT !.acao = "invalida"]}
    BY <1>1, FatoDeEscrever DEF linha
  <1>4. saida \in Seq(Linhas) /\ Len(saida) \in Nat
    BY DEF TypeOK
  <1>5. Estendida /\ \A k \in 1 .. Len(saida') : k > Len(saida) => k = Len(saida')
    BY <1>3, <1>4 DEF Estendida
  <1> QED
    BY <1>2, <1>3, <1>5

(* A step of go test keeps the counts. *)
LEMMA ContagemDoGoTest ==
  ASSUME IndInv, ContagemInv, GoTest
  PROVE  ContagemInv'
  <1>0. TypeOK /\ EtapaInv /\ TestesEscritos /\ PacotesEscritos
    BY DEF IndInv, ContagemInv
  <1>t. /\ saida \in Seq(Linhas) /\ Len(saida) \in Nat
        /\ pacote \in [Pacotes -> {"fila", "rodando", "passou", "falhou", "nao_compila"}]
        /\ feito \in [Testes -> {"correndo", "pass", "fail", "travado"}]
    BY <1>0 DEF TypeOK
  <1>n. NoGoTest /\ UNCHANGED ForaDoGoTest
    BY DEF GoTest, IniciarPacote, PacoteNaoCompila, PacotePassa, PacoteFalha, TesteTermina,
           Travar, SubtesteTermina, GoTestTermina
  <1>i. saida' = saida => Estendida
    BY <1>t DEF Estendida
  <1>d. SemTeste \notin Testes /\ Subteste \notin Testes /\ SemTeste # Subteste
    BY LinguagemAssumption DEF SemTeste, Subteste
  <1>1. ASSUME NEW p \in Pacotes, IniciarPacote(p) PROVE ContagemInv'
    <2>1. UNCHANGED <<saida, feito>> /\ pacote[p] = "fila" /\ pacote' = [pacote EXCEPT ![p] = "rodando"]
      BY <1>1 DEF IniciarPacote
    <2>2. \A q \in Pacotes : pacote[q] \in {"passou", "falhou"} \/ pacote'[q] \in {"passou", "falhou"} =>
                               pacote'[q] = pacote[q]
      BY <1>t, <2>1
    <2>3. TestesEscritos'
      BY <1>0, <2>1 DEF TestesEscritos
    <2>4. PacotesEscritos'
      BY <1>0, <1>i, <1>t, <2>1, <2>2, PacotesNaoMudam
    <2> QED
      BY <1>0, <1>n, <1>i, <2>1, <2>3, <2>4, ContagemComLinhas
  <1>2. ASSUME NEW p \in Pacotes, PacoteNaoCompila(p) PROVE ContagemInv'
    <2> DEFINE l1 == Linha("build-fail", p, SemTeste, FALSE)
               l2 == Linha("fail", p, SemTeste, TRUE)
    <2>1. /\ saida' = saida \o <<l1, l2>> /\ feito' = feito
          /\ pacote[p] = "fila" /\ pacote' = [pacote EXCEPT ![p] = "nao_compila"]
      BY <1>2 DEF PacoteNaoCompila
    <2>2. l1 \in Linhas /\ l2 \in Linhas
      BY DEF Linha, Linhas
    <2>3. l1.teste = SemTeste /\ l2.teste = SemTeste /\ ~DePacote(l1) /\ ~DePacote(l2)
      BY DEF Linha, DePacote
    <2> HIDE DEF l1, l2
    <2>4. /\ Estendida
          /\ \A k \in 1 .. Len(saida') : k > Len(saida) => saida'[k] = l1 \/ saida'[k] = l2
      <3>1. /\ Len(saida') = Len(saida) + 2 /\ \A k \in 1 .. Len(saida) : saida'[k] = saida[k]
            /\ saida'[Len(saida) + 1] = l1 /\ saida'[Len(saida) + 2] = l2
        BY <1>t, <2>1, <2>2
      <3> QED
        BY <1>t, <3>1 DEF Estendida
    <2>5. \A q \in Pacotes : pacote[q] \in {"passou", "falhou"} \/ pacote'[q] \in {"passou", "falhou"} =>
                               pacote'[q] = pacote[q]
      BY <1>t, <2>1
    <2>6. TestesEscritos'
      <3>1. \A k \in 1 .. Len(saida') : k > Len(saida) => saida'[k].teste \notin Testes
        BY <1>d, <2>3, <2>4
      <3> QED
        BY <1>0, <2>1, <2>4, <3>1, TestesNaoMudam
    <2>7. PacotesEscritos'
      <3>1. \A k \in 1 .. Len(saida') : k > Len(saida) => ~DePacote(saida'[k])
        BY <2>3, <2>4
      <3> QED
        BY <1>0, <1>t, <2>4, <2>5, <3>1, PacotesNaoMudam
    <2> QED
      BY <1>0, <1>n, <2>4, <2>6, <2>7, ContagemComLinhas
  <1>3. ASSUME NEW p \in Pacotes, PacotePassa(p) \/ PacoteFalha(p) PROVE ContagemInv'
    <2>1. PICK acao \in {"pass", "fail"} :
            /\ Escrever(Linha(acao, p, SemTeste, FALSE)) /\ feito' = feito /\ pacote[p] = "rodando"
            /\ pacote' = [pacote EXCEPT ![p] = IF acao = "pass" THEN "passou" ELSE "falhou"]
      BY <1>3 DEF PacotePassa, PacoteFalha
    <2> DEFINE l == saida'[Len(saida')]
    <2>2. /\ Estendida /\ Len(saida') = Len(saida) + 1
          /\ \A k \in 1 .. Len(saida') : k > Len(saida) => k = Len(saida')
          /\ l.acao \in {acao, "invalida"} /\ l.pacote = p /\ l.teste = SemTeste
          /\ ~l.compilacaoFalhou
      BY <1>0, <2>1, UmaLinha
    <2>3. TestesEscritos'
      <3>1. \A k \in 1 .. Len(saida') : k > Len(saida) => saida'[k].teste \notin Testes
        BY <1>d, <2>2
      <3> QED
        BY <1>0, <2>1, <2>2, <3>1, TestesNaoMudam
    <2>4. PacotesEscritos'
      <3>1. DePacote(l)
        BY <2>2 DEF DePacote
      <3>2. /\ pacote'[p] = IF acao = "pass" THEN "passou" ELSE "falhou"
            /\ \A q \in Pacotes \ {p} : pacote'[q] = pacote[q]
        BY <1>t, <2>1
      <3> QED
        BY <1>0, <1>t, <2>1, <2>2, <3>1, <3>2, PacoteEscrito
    <2> QED
      BY <1>0, <1>n, <2>2, <2>3, <2>4, ContagemComLinhas
  <1>4. ASSUME NEW t \in Testes, TesteTermina(t) PROVE ContagemInv'
    <2>1. PICK acao \in {"pass", "fail"} :
            /\ Escrever(Linha(acao, PacoteDe[t], t, FALSE)) /\ pacote' = pacote
            /\ feito[t] = "correndo" /\ feito' = [feito EXCEPT ![t] = acao]
      BY <1>4 DEF TesteTermina
    <2> DEFINE l == saida'[Len(saida')]
    <2>p. PacoteDe[t] \in Pacotes
      BY LinguagemAssumption
    <2>2. /\ Estendida /\ Len(saida') = Len(saida) + 1
          /\ \A k \in 1 .. Len(saida') : k > Len(saida) => k = Len(saida')
          /\ l.acao \in {acao, "invalida"} /\ l.pacote = PacoteDe[t] /\ l.teste = t
      BY <1>0, <2>1, <2>p, UmaLinha
    <2>3. TestesEscritos'
      <3>1. feito'[t] = acao /\ \A u \in Testes \ {t} : feito'[u] = feito[u]
        BY <1>t, <2>1
      <3> QED
        BY <1>0, <2>1, <2>2, <3>1, TesteEscrito
    <2>4. PacotesEscritos'
      <3>1. \A k \in 1 .. Len(saida') : k > Len(saida) => ~DePacote(saida'[k])
        BY <1>d, <2>2 DEF DePacote
      <3> QED
        BY <1>0, <1>t, <2>1, <2>2, <3>1, PacotesNaoMudam
    <2> QED
      BY <1>0, <1>n, <2>2, <2>3, <2>4, ContagemComLinhas
  <1>5. ASSUME NEW t \in Testes, Travar(t) PROVE ContagemInv'
    <2>1. UNCHANGED <<saida, pacote>> /\ feito[t] = "correndo" /\ feito' = [feito EXCEPT ![t] = "travado"]
      BY <1>5 DEF Travar
    <2>2. \A u \in Testes : feito[u] \in {"pass", "fail"} \/ feito'[u] \in {"pass", "fail"} =>
                              feito'[u] = feito[u]
      BY <1>t, <2>1
    <2>3. TestesEscritos'
      BY <1>0, <1>i, <1>t, <2>1, <2>2, TestesNaoMudam
    <2>4. PacotesEscritos'
      BY <1>0, <2>1 DEF PacotesEscritos, DePacote
    <2> QED
      BY <1>0, <1>n, <1>i, <2>1, <2>3, <2>4, ContagemComLinhas
  <1>6. ASSUME NEW t \in Testes, SubtesteTermina(t) PROVE ContagemInv'
    <2>1. PICK acao \in {"pass", "fail"} :
            saida' = Append(saida, Linha(acao, PacoteDe[t], Subteste, FALSE)) /\ UNCHANGED <<pacote, feito>>
      BY <1>6 DEF SubtesteTermina
    <2> DEFINE l == Linha(acao, PacoteDe[t], Subteste, FALSE)
    <2>2. l \in Linhas /\ l.teste = Subteste
      BY LinguagemAssumption DEF Linha, Linhas
    <2>3. saida' = Append(saida, l)
      BY <2>1
    <2> HIDE DEF l
    <2>4. Estendida /\ \A k \in 1 .. Len(saida') : k > Len(saida) => saida'[k] = l
      BY <1>t, <2>2, <2>3 DEF Estendida
    <2>5. TestesEscritos'
      <3>1. \A k \in 1 .. Len(saida') : k > Len(saida) => saida'[k].teste \notin Testes
        BY <1>d, <2>2, <2>4
      <3> QED
        BY <1>0, <2>1, <2>4, <3>1, TestesNaoMudam
    <2>6. PacotesEscritos'
      <3>1. \A k \in 1 .. Len(saida') : k > Len(saida) => ~DePacote(saida'[k])
        BY <1>d, <2>2, <2>4 DEF DePacote
      <3> QED
        BY <1>0, <1>t, <2>1, <2>4, <3>1, PacotesNaoMudam
    <2> QED
      BY <1>0, <1>n, <2>4, <2>5, <2>6, ContagemComLinhas
  <1>7. CASE GoTestTermina
    <2>1. UNCHANGED <<saida, pacote, feito>>
      BY <1>7 DEF GoTestTermina, doGoTest
    <2>2. TestesEscritos' /\ PacotesEscritos'
      BY <1>0, <2>1 DEF TestesEscritos, PacotesEscritos, DePacote
    <2> QED
      BY <1>0, <1>n, <1>i, <2>1, <2>2, ContagemComLinhas
  <1> QED
    BY <1>1, <1>2, <1>3, <1>4, <1>5, <1>6, <1>7 DEF GoTest

LEMMA ContagemInicial == Init => ContagemInv
  <1> SUFFICES ASSUME Init PROVE ContagemInv
    OBVIOUS
  <1>1. Len(saida) = 0 /\ lida = 0 /\ resultado = Nenhum /\ feito = [t \in Testes |-> "correndo"]
        /\ pacote = [p \in Pacotes |-> "fila"] /\ Len(apurado.pacotesQueFalharam) = 0
        /\ apurado.passaram = 0 /\ apurado.falharam = 0
        /\ apurado.falhasPorPacote = [p \in Pacotes |-> 0]
    BY DEF Init
  <1>2. \A acao : Lidos(acao) = {}
    BY <1>1 DEF Lidos
  <1>3. TestesEscritos /\ PacotesEscritos
    BY <1>1 DEF TestesEscritos, PacotesEscritos
  <1>4. TestesContados
    BY <1>1, <1>2, FS_EmptySet DEF TestesContados
  <1>5. PacotesContados /\ ConclusaoInv
    BY <1>1 DEF PacotesContados, FalhaLida, ConclusaoInv
  <1> QED
    BY <1>3, <1>4, <1>5 DEF ContagemInv

(* The lines and the counts agree in every reachable state: each test that ended
   and each package that failed has one line, and was counted once when it was
   read. *)
THEOREM ContagemInvariante == Spec => []ContagemInv
  <1>1. IndInv /\ ContagemInv /\ [Next]_vars => ContagemInv'
    BY ContagemDoPrograma, ContagemDoGoTest DEF Next
  <1> QED
    BY <1>1, ContagemInicial, Invariante, PTL DEF Spec

(* When every line was read whole, the tests counted are the tests that ended,
   and the packages of the list with no failed test are those that failed alone. *)
LEMMA ContagemBasta ==
  ASSUME TypeOK, ContagemInv
  PROVE  ContagemFiel
  <1> SUFFICES ASSUME resultado # Nenhum, resultado.tipo \in {"nenhuma", "teste"},
                      \A k \in 1 .. Len(saida) : saida[k].acao # "invalida"
               PROVE  /\ resultado.passaram = Cardinality({t \in Testes : feito[t] = "pass"})
                      /\ resultado.falharam = Cardinality({t \in Testes : feito[t] = "fail"})
                                                + Cardinality({p \in Pacotes : FalhouSozinho(p)})
    BY DEF ContagemFiel
  <1> DEFINE s == apurado.pacotesQueFalharam
             f == apurado.falhasPorPacote
             Indices == {k \in 1 .. Len(s) : f[s[k]] = 0}
             Sozinhos == {p \in Pacotes : FalhouSozinho(p)}
             qual == [k \in Indices |-> s[k]]
  <1>0. TestesEscritos /\ PacotesEscritos /\ TestesContados /\ PacotesContados /\ ConclusaoInv
    BY DEF ContagemInv
  <1>1. /\ lida = Len(saida) /\ resultado.passaram = apurado.passaram
        /\ resultado.falharam = apurado.falharam + Cardinality(Indices)
    BY <1>0 DEF ConclusaoInv, Falharam
  <1>2. ASSUME NEW acao \in {"pass", "fail"} PROVE Lidos(acao) = {t \in Testes : feito[t] = acao}
    <2>1. ASSUME NEW t \in Testes, NEW k \in 1 .. Len(saida), saida[k].teste = t, saida[k].acao = acao
          PROVE  feito[t] = acao
      BY <1>0, <2>1 DEF TestesEscritos
    <2>2. ASSUME NEW t \in Testes, feito[t] = acao
          PROVE  \E k \in 1 .. Len(saida) : saida[k].teste = t /\ saida[k].acao = acao
      BY <1>0, <2>2 DEF TestesEscritos
    <2> QED
      BY <1>1, <2>1, <2>2 DEF Lidos
  <1>3. \A p \in Pacotes : FalhaLida(p) <=> pacote[p] = "falhou"
    BY <1>0, <1>1 DEF PacotesEscritos, FalhaLida
  <1>4. \A p \in Pacotes : f[p] = 0 <=> \A t \in DoPacote(p) : feito[t] # "fail"
    BY <1>0, <1>2 DEF TestesContados, DoPacote
  <1>s. s \in Seq(Pacotes) /\ Len(s) \in Nat
    BY DEF TypeOK, Apurados
  <1>p. /\ \A p \in Pacotes : FalhaLida(p) <=> \E i \in 1 .. Len(s) : s[i] = p
        /\ \A i, j \in 1 .. Len(s) : s[i] = s[j] => i = j
        /\ \A i \in 1 .. Len(s) : s[i] \in Pacotes
    BY <1>0, <1>s DEF PacotesContados
  <1> HIDE DEF s, f
  <1>5. \A k \in Indices : s[k] \in Sozinhos
    BY <1>3, <1>4, <1>p DEF FalhouSozinho
  <1>6. \A p \in Sozinhos : \E k \in Indices : s[k] = p
    BY <1>3, <1>4, <1>p DEF FalhouSozinho
  <1>7. qual \in Bijection(Indices, Sozinhos)
    <2>1. qual \in [Indices -> Sozinhos] /\ \A a, b \in Indices : qual[a] = qual[b] => a = b
      BY <1>5, <1>p
    <2>2. \A p \in Sozinhos : \E k \in Indices : qual[k] = p
      BY <1>6
    <2> HIDE DEF Indices, Sozinhos, qual
    <2> QED
      BY <2>1, <2>2 DEF Bijection, Injection, Surjection, IsInjective
  <1>8. IsFiniteSet(Indices)
    <2>1. IsFiniteSet(1 .. Len(s)) /\ Indices \in SUBSET (1 .. Len(s))
      BY <1>s, FS_Interval
    <2> QED
      BY <2>1, FS_Subset
  <1>9. Cardinality(Indices) = Cardinality(Sozinhos)
    BY <1>7, <1>8, FS_Bijection DEF ExistsBijection
  <1>10. apurado.passaram = Cardinality(Lidos("pass")) /\ apurado.falharam = Cardinality(Lidos("fail"))
    BY <1>0 DEF TestesContados
  <1> QED
    BY <1>1, <1>2, <1>9, <1>10

(* The counts of a result are those of the tests and of the packages that failed
   alone, for any number of them and whatever order go test wrote its lines in. *)
THEOREM ContaCerto == Spec => []ContagemFiel
  <1>1. IndInv /\ ContagemInv => ContagemFiel
    BY ContagemBasta DEF IndInv
  <1> QED
    BY <1>1, Invariante, ContagemInvariante, PTL
==============================================================================
