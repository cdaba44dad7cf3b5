---------------------------- MODULE TaskRuns_proofs ----------------------------
(* Proofs about TaskRuns.  The inductive invariant IndInv says that a row is
   locked by one transaction at most and that what each transaction sees of the
   row, its own uncommitted steps included, is already an unbroken chain: a
   commit then only makes that view the committed one.  At the end: each change
   of the tables is one whole transaction, and no call is held for good. *)
EXTENDS TaskRuns, TLAPS

------------------------------------------------------------------------------
(* The inductive invariant, in named parts. *)

(* A transaction writes while it is open, in rows it keeps locked. *)
FormaInv ==
  /\ \A c \in Chamadas :
       /\ pc[c] \in {"livre", "confirmada", "erro"} =>
            novas[c] = {} /\ \A run \in Existentes : versao[c][run] = Nenhum
       /\ pc[c] \in {"inserir", "conferir"} => passo[c] <= Passos[c]
       /\ pc[c] = "inserir" =>
            Atual(c).run \in Existentes /\ versao[c][Atual(c).run] = Atual(c).para
       /\ \A e \in novas[c] :
            e.chamada = c /\ versao[c][e.run] # Nenhum /\ e.id < proximoId
  /\ \A e \in etapas : e.id < proximoId

(* A row is locked by one transaction at most. *)
TrancaInv ==
  \A c, d \in Chamadas, run \in Existentes :
    versao[c][run] # Nenhum /\ versao[d][run] # Nenhum => c = d

(* The steps a transaction inserted come after the committed ones of the row. *)
OrdemInv ==
  \A c \in Chamadas : \A e \in etapas, f \in novas[c] : e.run = f.run => e.id < f.id

(* What each transaction sees of a row and of its steps is a chain too, up to
   the state it left the row in, or the one it is leaving. *)
Corrente(c, run) ==
  IF pc[c] = "inserir" /\ Atual(c).run = run THEN Atual(c).de ELSE Vista(c, run)
VistaEncadeada ==
  \A c \in Chamadas, run \in Existentes :
    Cadeia(EtapasDe(etapas \union novas[c], run), Pendente, Corrente(c, run))

(* An open transaction inserted one step for each transition it made. *)
AbertaInteira ==
  \A c \in Chamadas :
    pc[c] \notin {"confirmada", "erro"} => Gravadas(novas[c], c) = Feitas(c)

IndInv ==
  /\ TypeOK /\ FormaInv /\ TrancaInv /\ OrdemInv
  /\ HistoricoEncadeado /\ VistaEncadeada
  /\ TransacaoInteira /\ AbertaInteira

(* A call on the pool that wants a task_run out of pendente: when it is refused
   somebody had taken it out already, for good. *)
Quer(c) ==
  /\ c \in Chamadas \ Explicitas
  /\ Pedido[c][1].valida /\ Pedido[c][1].run \in Existentes /\ Pedido[c][1].de = Pendente
Saiu(c) == EtapasDe(etapas, Pedido[c][1].run) # {}
Vencedor(c) ==
  /\ pc[c] \in {"livre", "fn"} /\ passo[c] = 1 => versao[c][Pedido[c][1].run] = Nenhum
  /\ pc[c] = "livre" => passo[c] = 1
  /\ pc[c] = "conferir" => Saiu(c)
  /\ Recusada(c) => c \in vitima \/ Saiu(c)
  /\ pc[c] = "fn" /\ passo[c] # 1 => Recusada(c) \/ \E e \in novas[c] : e.run = Pedido[c][1].run
  /\ pc[c] = "confirmada" => Saiu(c)
  /\ pc[c] = "erro" => c \in vitima \/ Saiu(c)
VencedorInv == \A c \in Chamadas : Quer(c) => Vencedor(c)

------------------------------------------------------------------------------
(* A step that comes after all the others and leaves the state the chain had
   reached makes it longer. *)
LEMMA CadeiaEstende ==
  ASSUME NEW linhas \in SUBSET TaskSteps, NEW inicio, NEW fim,
         Cadeia(linhas, inicio, fim),
         NEW n \in TaskSteps, n.de = fim, \A e \in linhas : e.id < n.id
  PROVE  Cadeia(linhas \union {n}, inicio, n.para)
  <1> DEFINE S == linhas \union {n}
  <1>1. \A e \in S : e.id \in Nat
    BY DEF TaskSteps
  <1>2. \A e, f \in S : e.id = f.id => e = f
    BY <1>1 DEF Cadeia
  <1>3. \A e \in S : (\A f \in S : e.id <= f.id) => e.de = inicio
    <2> SUFFICES ASSUME NEW e \in S, \A f \in S : e.id <= f.id PROVE e.de = inicio
      OBVIOUS
    <2>1. CASE e \in linhas
      BY <2>1 DEF Cadeia
    <2>2. CASE e = n
      <3>1. linhas = {}
        BY <2>2, <1>1
      <3> QED
        BY <2>2, <3>1 DEF Cadeia
    <2> QED
      BY <2>1, <2>2
  <1>4. \A e, f \in S :
          e.id < f.id /\ (\A g \in S : g.id <= e.id \/ f.id <= g.id) => e.para = f.de
    <2> SUFFICES ASSUME NEW e \in S, NEW f \in S, e.id < f.id,
                        \A g \in S : g.id <= e.id \/ f.id <= g.id
                 PROVE  e.para = f.de
      OBVIOUS
    <2>1. e \in linhas
      BY <1>1
    <2>2. CASE f \in linhas
      BY <2>1, <2>2 DEF Cadeia
    <2>3. CASE f = n
      <3>1. \A g \in linhas : g.id <= e.id
        BY <2>3, <1>1
      <3> QED
        BY <2>1, <2>3, <3>1 DEF Cadeia
    <2> QED
      BY <2>2, <2>3
  <1>5. \A e \in S : (\A f \in S : f.id <= e.id) => e.para = n.para
    BY <1>1
  <1> QED
    BY <1>2, <1>3, <1>4, <1>5 DEF Cadeia

LEMMA PedidoTipado ==
  ASSUME NEW c \in Chamadas, passo[c] \in 1 .. Passos[c]
  PROVE  Atual(c) \in Transicoes
  BY TaskRunsAssumption DEF Atual

(* A transaction keeps the row whose step it is going to insert locked. *)
LEMMA TravaAoInserir ==
  ASSUME TypeOK, FormaInv, NEW c \in Chamadas, pc[c] = "inserir"
  PROVE  versao[c][Atual(c).run] # Nenhum
  <1>1. passo[c] <= Passos[c] /\ versao[c][Atual(c).run] = Atual(c).para
    BY DEF FormaInv
  <1>2. passo[c] \in 1 .. Passos[c]
    BY <1>1, TaskRunsAssumption DEF TypeOK
  <1>3. Atual(c).para # Nenhum
    BY <1>2, PedidoTipado, TaskRunsAssumption DEF Transicoes
  <1> QED
    BY <1>1, <1>3

(* The disjuncts of Next, with the actions of a call named one by one. *)
LEMMA PassosDaChamada ==
  ASSUME [Next]_vars
  PROVE  \/ \E c \in Chamadas :
              \/ Abrir(c) \/ Validar(c) \/ Atualizar(c) \/ InserirEtapa(c) \/ Conferir(c)
              \/ Impasse(c) \/ Desfazer(c) \/ Confirmar(c) \/ Falhar(c) \/ FalharComando(c)
         \/ UNCHANGED vars
  BY DEF Next, Andar

------------------------------------------------------------------------------
(* Type correctness *)

LEMMA TipoInicial == Init => TypeOK
  BY TaskRunsAssumption DEF Init, TypeOK, Etapas

LEMMA PublicarTipado ==
  ASSUME TypeOK, NEW c \in Chamadas, Publicar(c)
  PROVE  /\ estado' \in [Existentes -> Estados] /\ etapas' \subseteq TaskSteps
         /\ novas' \in [Chamadas -> SUBSET TaskSteps]
         /\ versao' \in [Chamadas -> [Existentes -> Estados \union {Nenhum}]]
  BY DEF TypeOK, Publicar, Desfeita, Vista

LEMMA DesfeitaTipada ==
  ASSUME TypeOK, NEW c \in Chamadas, Desfeita(c)
  PROVE  /\ novas' \in [Chamadas -> SUBSET TaskSteps]
         /\ versao' \in [Chamadas -> [Existentes -> Estados \union {Nenhum}]]
  BY DEF TypeOK, Desfeita

LEMMA DevolverTipado ==
  ASSUME TypeOK, NEW c \in Chamadas, NEW r \in Recusas \union {"ok"}, Devolver(c, r)
  PROVE  /\ pc' \in [Chamadas -> Etapas] /\ passo' \in [Chamadas -> Nat \ {0}]
         /\ respostas' \subseteq [chamada : Chamadas, passo : Nat, resultado : Recusas \union {"ok"}]
  BY DEF TypeOK, Devolver, Ir, Etapas

LEMMA TipoPreservado ==
  ASSUME TypeOK, FormaInv, [Next]_vars
  PROVE  TypeOK'
  <1>1. ASSUME NEW c \in Chamadas, Abrir(c) PROVE TypeOK'
    BY <1>1 DEF Abrir, TypeOK, Ir, Etapas
  <1>2. ASSUME NEW c \in Chamadas, Validar(c) PROVE TypeOK'
    BY <1>2, DevolverTipado DEF Validar, TypeOK, Recusas
  <1>3. ASSUME NEW c \in Chamadas, Atualizar(c) PROVE TypeOK'
    <2>1. Atual(c) \in Transicoes
      BY <1>3, PedidoTipado, TaskRunsAssumption DEF Atualizar, TypeOK
    <2>2. versao' \in [Chamadas -> [Existentes -> Estados \union {Nenhum}]]
      <3>1. CASE versao' = [versao EXCEPT ![c] = [@ EXCEPT ![Atual(c).run] = Atual(c).para]]
        <4>1. Atual(c).para \in Estados
          BY <2>1 DEF Transicoes
        <4>2. [versao[c] EXCEPT ![Atual(c).run] = Atual(c).para] \in
                [Existentes -> Estados \union {Nenhum}]
          BY <4>1 DEF TypeOK
        <4> QED
          BY <3>1, <4>2 DEF TypeOK
      <3> QED
        BY <1>3, <3>1 DEF Atualizar, TypeOK
    <2> QED
      BY <1>3, <2>2 DEF Atualizar, TypeOK, Ir, Etapas
  <1>4. ASSUME NEW c \in Chamadas, InserirEtapa(c) PROVE TypeOK'
    <2>1. Atual(c) \in Transicoes /\ Atual(c).run \in Existentes
      BY <1>4, PedidoTipado, TaskRunsAssumption DEF InserirEtapa, TypeOK, FormaInv
    <2>2. NovaEtapa(c) \in TaskSteps
      BY <2>1 DEF NovaEtapa, TaskSteps, Transicoes, TypeOK
    <2>3. novas' \in [Chamadas -> SUBSET TaskSteps]
      BY <1>4, <2>2 DEF InserirEtapa, TypeOK
    <2> QED
      BY <1>4, <2>3, DevolverTipado DEF InserirEtapa, TypeOK
  <1>5. ASSUME NEW c \in Chamadas, Conferir(c) PROVE TypeOK'
    BY <1>5, DevolverTipado DEF Conferir, TypeOK, Recusas
  <1>6. ASSUME NEW c \in Chamadas, Impasse(c) PROVE TypeOK'
    BY <1>6, DevolverTipado DEF Impasse, TypeOK, Recusas
  <1>7. ASSUME NEW c \in Chamadas, Desfazer(c) PROVE TypeOK'
    BY <1>7 DEF Desfazer, Desfeita, TypeOK, Ir, Etapas
  <1>8. ASSUME NEW c \in Chamadas, Confirmar(c) PROVE TypeOK'
    BY <1>8, PublicarTipado DEF Confirmar, TypeOK, Ir, Etapas
  <1>9. ASSUME NEW c \in Chamadas, Falhar(c) PROVE TypeOK'
    <2>1. /\ estado' \in [Existentes -> Estados] /\ etapas' \subseteq TaskSteps
          /\ novas' \in [Chamadas -> SUBSET TaskSteps]
          /\ versao' \in [Chamadas -> [Existentes -> Estados \union {Nenhum}]]
      <3>1. CASE UNCHANGED <<estado, etapas>> /\ Desfeita(c)
        BY <3>1, DesfeitaTipada DEF TypeOK
      <3>2. CASE Publicar(c)
        BY <3>2, PublicarTipado
      <3> QED
        BY <1>9, <3>1, <3>2 DEF Falhar
    <2> QED
      BY <1>9, <2>1 DEF Falhar, TypeOK, Ir, Etapas
  <1>10. ASSUME UNCHANGED vars PROVE TypeOK'
    BY <1>10 DEF TypeOK, vars
  <1>11. ASSUME NEW c \in Chamadas, FalharComando(c) PROVE TypeOK'
    <2>1. versao' \in [Chamadas -> [Existentes -> Estados \union {Nenhum}]]
      <3>1. CASE pc[c] = "inserir" /\ versao' = [versao EXCEPT ![c] = [@ EXCEPT ![Atual(c).run] = Anterior(c)]]
        <4>1. Atual(c) \in Transicoes
          BY <3>1, PedidoTipado, TaskRunsAssumption DEF FormaInv, TypeOK
        <4>2. Anterior(c) \in Estados \union {Nenhum}
          BY <4>1 DEF Anterior, Transicoes
        <4>3. [versao[c] EXCEPT ![Atual(c).run] = Anterior(c)] \in
                [Existentes -> Estados \union {Nenhum}]
          BY <4>2 DEF TypeOK
        <4> QED
          BY <3>1, <4>3 DEF TypeOK
      <3> QED
        BY <1>11, <3>1 DEF FalharComando, TypeOK
    <2>2. "falha" \in Recusas
      BY DEF Recusas
    <2>3. /\ pc' \in [Chamadas -> Etapas] /\ passo' \in [Chamadas -> Nat \ {0}]
          /\ respostas' \subseteq [chamada : Chamadas, passo : Nat, resultado : Recusas \union {"ok"}]
      BY <1>11, <2>2, DevolverTipado DEF FalharComando
    <2> QED
      BY <1>11, <2>1, <2>3 DEF FalharComando, TypeOK
  <1> QED
    BY <1>1, <1>2, <1>3, <1>4, <1>5, <1>6, <1>7, <1>8, <1>9, <1>10, <1>11, PassosDaChamada

------------------------------------------------------------------------------
(* The effects a step may have on the tables and on the transaction *)

SemNadaGravar(c) ==
  /\ UNCHANGED <<estado, etapas, proximoId, versao, novas>>
  /\ pc[c] # "inserir" /\ pc'[c] \in {"fn", "conferir"}
  /\ pc'[c] = "conferir" => pc[c] = "fn" /\ passo'[c] = passo[c] /\ passo[c] <= Passos[c]
  /\ pc[c] \notin {"confirmada", "erro"}
  /\ Feitas(c)' = Feitas(c)

Escrever(c) ==
  /\ UNCHANGED <<estado, etapas, proximoId, novas, passo, respostas>>
  /\ pc[c] = "fn" /\ pc'[c] = "inserir" /\ passo[c] <= Passos[c]
  /\ Casa(c) /\ ~Trancada(c, Atual(c).run)
  /\ versao'[c][Atual(c).run] = Atual(c).para
  /\ \A run \in Existentes : run # Atual(c).run => versao'[c][run] = versao[c][run]

Retirar(c) ==
  /\ UNCHANGED <<estado, etapas, proximoId, novas>>
  /\ pc[c] = "inserir" /\ pc'[c] = "fn" /\ Feitas(c)' = Feitas(c)
  /\ versao'[c][Atual(c).run] = Anterior(c)
  /\ \A run \in Existentes : run # Atual(c).run => versao'[c][run] = versao[c][run]

Encerrar(c) ==
  /\ UNCHANGED <<proximoId, respostas>>
  /\ novas'[c] = {} /\ \A run \in Existentes : versao'[c][run] = Nenhum
  /\ pc[c] \notin {"confirmada", "erro"}

Descartar(c) == Encerrar(c) /\ UNCHANGED <<estado, etapas>> /\ pc'[c] = "erro"

Gravar(c) == Encerrar(c) /\ Publicar(c) /\ pc[c] = "fn" /\ pc'[c] \in {"confirmada", "erro"}

LEMMA RespostaDevolvida ==
  ASSUME TypeOK, NEW c \in Chamadas, NEW r, Devolver(c, r)
  PROVE  /\ \A d \in Chamadas : d # c => Feitas(d)' = Feitas(d)
         /\ r \in Recusas => Feitas(c)' = Feitas(c)
         /\ r = "ok" => Feitas(c)' = Feitas(c) \union {passo[c]}
  <1> DEFINE n == [chamada |-> c, passo |-> passo[c], resultado |-> r]
  <1>1. respostas' = respostas \union {n} /\ n.chamada = c /\ n.passo = passo[c] /\ n.resultado = r
    BY DEF Devolver
  <1> HIDE DEF n
  <1>2. "ok" \notin Recusas
    BY DEF Recusas
  <1> QED
    BY <1>1, <1>2 DEF Feitas

(* A step belongs to one call, and leaves the others as they were. *)
LEMMA SoUmaAnda ==
  ASSUME TypeOK,
         NEW c \in Chamadas, Andar(c) \/ Falhar(c) \/ FalharComando(c),
         NEW d \in Chamadas, d # c
  PROVE  /\ pc'[d] = pc[d] /\ passo'[d] = passo[d] /\ versao'[d] = versao[d]
         /\ novas'[d] = novas[d] /\ Feitas(d)' = Feitas(d)
  <1> USE DEF TypeOK, Ir
  <1>1. CASE Abrir(c)
    BY <1>1 DEF Abrir, Feitas
  <1>2. ASSUME NEW r, Devolver(c, r) PROVE pc'[d] = pc[d] /\ passo'[d] = passo[d]
    BY <1>2 DEF Devolver
  <1>3. CASE Validar(c) \/ Conferir(c) \/ Impasse(c)
    BY <1>2, <1>3, RespostaDevolvida DEF Validar, Conferir, Impasse
  <1>4. CASE Atualizar(c)
    BY <1>4 DEF Atualizar, Feitas
  <1>5. CASE InserirEtapa(c)
    BY <1>2, <1>5, RespostaDevolvida DEF InserirEtapa
  <1>6. CASE Desfazer(c)
    BY <1>6 DEF Desfazer, Desfeita, Feitas
  <1>7. CASE Confirmar(c)
    BY <1>7 DEF Confirmar, Publicar, Desfeita, Feitas
  <1>8. CASE Falhar(c)
    BY <1>8 DEF Falhar, Publicar, Desfeita, Feitas
  <1>9. CASE FalharComando(c)
    <2>1. Feitas(d)' = Feitas(d) /\ pc'[d] = pc[d] /\ passo'[d] = passo[d]
      BY <1>2, <1>9, RespostaDevolvida DEF FalharComando
    <2> QED
      BY <1>9, <2>1 DEF FalharComando
  <1> QED
    BY <1>1, <1>3, <1>4, <1>5, <1>6, <1>7, <1>8, <1>9 DEF Andar

LEMMA Efeito ==
  ASSUME TypeOK, FormaInv, NEW c \in Chamadas, Andar(c) \/ Falhar(c) \/ FalharComando(c)
  PROVE  \/ SemNadaGravar(c) \/ Escrever(c) \/ InserirEtapa(c)
         \/ Retirar(c) \/ Descartar(c) \/ Gravar(c)
  <1> USE DEF TypeOK, Ir
  <1>1. CASE Abrir(c)
    BY <1>1 DEF Abrir, SemNadaGravar, Feitas
  <1>2. ASSUME NEW r, Devolver(c, r) PROVE pc'[c] = "fn"
    BY <1>2 DEF Devolver
  <1>3. CASE Validar(c) \/ Conferir(c) \/ Impasse(c)
    BY <1>2, <1>3, RespostaDevolvida DEF Validar, Conferir, Impasse, Espera, SemNadaGravar, Recusas
  <1>4. CASE Atualizar(c)
    <2>1. CASE Casa(c)
      <3>1. Atual(c).run \in Existentes
        BY <2>1 DEF Casa
      <3> QED
        BY <1>4, <2>1, <3>1 DEF Atualizar, Escrever
    <2>2. CASE ~Casa(c)
      BY <1>4, <2>2 DEF Atualizar, SemNadaGravar, Feitas
    <2> QED
      BY <2>1, <2>2
  <1>5. ASSUME Desfeita(c) PROVE novas'[c] = {} /\ \A run \in Existentes : versao'[c][run] = Nenhum
    BY <1>5 DEF Desfeita
  <1>6. CASE Desfazer(c)
    BY <1>5, <1>6 DEF Desfazer, Descartar, Encerrar
  <1>7. CASE Confirmar(c)
    BY <1>5, <1>7 DEF Confirmar, Publicar, Gravar, Encerrar
  <1>8. CASE Falhar(c)
    BY <1>5, <1>8 DEF Falhar, Publicar, Gravar, Descartar, Encerrar
  <1>9. CASE FalharComando(c)
    <2>1. pc'[c] = "fn" /\ Feitas(c)' = Feitas(c)
      BY <1>2, <1>9, RespostaDevolvida DEF FalharComando, Recusas
    <2>2. CASE pc[c] = "inserir"
      <3>1. Atual(c).run \in Existentes
        BY <2>2 DEF FormaInv
      <3> QED
        BY <1>9, <2>1, <2>2, <3>1 DEF FalharComando, Retirar
    <2>3. CASE pc[c] # "inserir"
      BY <1>9, <2>1, <2>3 DEF FalharComando, SemNadaGravar
    <2> QED
      BY <2>2, <2>3
  <1> QED
    BY <1>1, <1>3, <1>4, <1>6, <1>7, <1>8, <1>9 DEF Andar

------------------------------------------------------------------------------
(* Locks, and the order of the steps *)

LEMMA FormaPreservada ==
  ASSUME TypeOK, FormaInv, NEW c \in Chamadas, Andar(c) \/ Falhar(c) \/ FalharComando(c)
  PROVE  FormaInv'
  <1> DEFINE Forma(d) ==
        /\ pc[d] \in {"livre", "confirmada", "erro"} =>
             novas[d] = {} /\ \A run \in Existentes : versao[d][run] = Nenhum
        /\ pc[d] \in {"inserir", "conferir"} => passo[d] <= Passos[d]
        /\ pc[d] = "inserir" =>
             Atual(d).run \in Existentes /\ versao[d][Atual(d).run] = Atual(d).para
        /\ \A e \in novas[d] : e.chamada = d /\ versao[d][e.run] # Nenhum /\ e.id < proximoId
  <1>1. \A d \in Chamadas : Forma(d)
    BY DEF FormaInv
  <1>2. proximoId' \in Nat /\ proximoId <= proximoId'
    BY Efeito DEF SemNadaGravar, Escrever, InserirEtapa, Retirar, Descartar, Gravar, Encerrar, TypeOK
  <1>3. ASSUME NEW d \in Chamadas, d # c PROVE Forma(d)'
    <2>1. /\ pc'[d] = pc[d] /\ passo'[d] = passo[d] /\ versao'[d] = versao[d] /\ novas'[d] = novas[d]
          /\ \A e \in novas[d] : e.id \in Nat
      BY <1>3, SoUmaAnda DEF TypeOK, TaskSteps
    <2> QED
      BY <1>1, <1>2, <2>1 DEF Atual, TypeOK
  <1>4. Forma(c)'
    <2>1. CASE SemNadaGravar(c)
      BY <1>1, <2>1 DEF SemNadaGravar
    <2>2. CASE Escrever(c)
      <3>1. Atual(c)' = Atual(c) /\ Atual(c).run \in Existentes /\ Atual(c).para # Nenhum
        BY <2>2, PedidoTipado, TaskRunsAssumption DEF Escrever, Atual, Casa, TypeOK, Transicoes
      <3>2. \A e \in novas[c] : e.run \in Existentes
        BY DEF TypeOK, TaskSteps
      <3> QED
        BY <1>1, <2>2, <3>1, <3>2 DEF Escrever
    <2>3. CASE InserirEtapa(c)
      <3>1. Atual(c) \in Transicoes
        BY <1>1, <2>3, PedidoTipado, TaskRunsAssumption DEF InserirEtapa, TypeOK
      <3>2. NovaEtapa(c).chamada = c /\ NovaEtapa(c).run = Atual(c).run /\ NovaEtapa(c).id = proximoId
        BY DEF NovaEtapa
      <3>3. versao[c][Atual(c).run] # Nenhum /\ versao' = versao
        BY <1>1, <2>3, <3>1, TaskRunsAssumption DEF InserirEtapa, Transicoes
      <3>4. novas'[c] = novas[c] \union {NovaEtapa(c)} /\ pc'[c] = "fn" /\ proximoId' = proximoId + 1
        BY <2>3 DEF InserirEtapa, Devolver, Ir, TypeOK
      <3>5. \A e \in novas[c] : e.id \in Nat
        BY DEF TypeOK, TaskSteps
      <3> QED
        BY <1>1, <3>2, <3>3, <3>4, <3>5 DEF TypeOK
    <2>4. CASE Encerrar(c) /\ pc'[c] \in {"confirmada", "erro"}
      BY <2>4 DEF Encerrar
    <2>5. CASE Retirar(c)
      <3>1. Atual(c).de # Nenhum
        BY <1>1, <2>5, PedidoTipado, TaskRunsAssumption DEF Retirar, TypeOK, Transicoes
      <3>2. \A e \in novas[c] : e.run \in Existentes
        BY DEF TypeOK, TaskSteps
      <3>3. ASSUME NEW e \in novas[c] PROVE versao'[c][e.run] # Nenhum
        BY <1>1, <2>5, <3>1, <3>2 DEF Retirar, Anterior
      <3> QED
        BY <1>1, <2>5, <3>3 DEF Retirar
    <2> QED
      BY <2>1, <2>2, <2>3, <2>4, <2>5, Efeito DEF Descartar, Gravar
  <1>5. \A e \in etapas' : e.id < proximoId'
    <2>1. etapas' = etapas \/ etapas' = etapas \union novas[c]
      BY Efeito DEF SemNadaGravar, Escrever, InserirEtapa, Retirar, Descartar, Gravar, Publicar
    <2>2. \A e \in etapas \union novas[c] : e.id \in Nat /\ e.id < proximoId
      BY DEF FormaInv, TypeOK, TaskSteps
    <2> QED
      BY <1>2, <2>1, <2>2 DEF TypeOK
  <1> QED
    BY <1>3, <1>4, <1>5 DEF FormaInv

LEMMA TrancaPreservada ==
  ASSUME TypeOK, FormaInv, TrancaInv, NEW c \in Chamadas, Andar(c) \/ Falhar(c) \/ FalharComando(c)
  PROVE  TrancaInv'
  <1>1. \A d \in Chamadas : d # c => versao'[d] = versao[d]
    BY SoUmaAnda
  <1>2. ASSUME NEW run \in Existentes, NEW d \in Chamadas, d # c,
               versao'[c][run] # Nenhum, versao[d][run] # Nenhum
        PROVE  FALSE
    <2>1. CASE Escrever(c)
      BY <1>2, <2>1 DEF Escrever, Trancada, TrancaInv
    <2>2. CASE versao' = versao
      BY <1>2, <2>2 DEF TrancaInv
    <2>3. CASE Encerrar(c)
      BY <1>2, <2>3 DEF Encerrar
    <2>4. CASE Retirar(c)
      <3>1. versao[c][run] # Nenhum
        BY <1>2, <2>4, TravaAoInserir DEF Retirar
      <3> QED
        BY <1>2, <3>1 DEF TrancaInv
    <2> QED
      BY <2>1, <2>2, <2>3, <2>4, Efeito DEF SemNadaGravar, InserirEtapa, Retirar, Descartar, Gravar
  <1> QED
    BY <1>1, <1>2 DEF TrancaInv

LEMMA OrdemPreservada ==
  ASSUME TypeOK, FormaInv, TrancaInv, OrdemInv,
         NEW c \in Chamadas, Andar(c) \/ Falhar(c) \/ FalharComando(c)
  PROVE  OrdemInv'
  <1> SUFFICES ASSUME NEW d \in Chamadas, NEW e \in etapas', NEW f \in novas'[d], e.run = f.run
               PROVE  e.id < f.id
    BY DEF OrdemInv
  <1>1. CASE e \in etapas /\ f \in novas[d]
    BY <1>1 DEF OrdemInv
  <1>2. CASE e \notin etapas
    <2>1. Gravar(c) /\ e \in novas[c]
      BY <1>2, Efeito DEF SemNadaGravar, Escrever, InserirEtapa, Retirar, Descartar, Gravar, Publicar
    <2>2. d # c /\ f \in novas[d]
      BY <2>1, SoUmaAnda DEF Gravar, Encerrar
    <2>3. e.run \in Existentes /\ versao[c][e.run] # Nenhum /\ versao[d][f.run] # Nenhum
      BY <2>1, <2>2 DEF FormaInv, TypeOK, TaskSteps
    <2> QED
      BY <2>2, <2>3 DEF TrancaInv
  <1>3. CASE e \in etapas /\ f \notin novas[d]
    <2>1. d = c
      BY <1>3, SoUmaAnda
    <2>2. InserirEtapa(c)
      BY <1>3, <2>1, Efeito DEF SemNadaGravar, Escrever, Retirar, Descartar, Gravar, Encerrar
    <2>3. f = NovaEtapa(c)
      BY <1>3, <2>1, <2>2 DEF InserirEtapa, TypeOK
    <2> QED
      BY <1>3, <2>3 DEF FormaInv, NovaEtapa
  <1> QED
    BY <1>1, <1>2, <1>3

------------------------------------------------------------------------------
(* The history of each task_run *)

(* A commit makes the view of its transaction the committed one. *)
LEMMA HistoricoPreservado ==
  ASSUME TypeOK, FormaInv, HistoricoEncadeado, VistaEncadeada,
         NEW c \in Chamadas, Andar(c) \/ Falhar(c) \/ FalharComando(c)
  PROVE  HistoricoEncadeado'
  <1>1. CASE UNCHANGED <<estado, etapas>>
    BY <1>1 DEF HistoricoEncadeado
  <1>2. CASE Gravar(c)
    <2> SUFFICES ASSUME NEW run \in Existentes PROVE Cadeia(EtapasDe(etapas', run), Pendente, estado'[run])
      BY DEF HistoricoEncadeado
    <2>1. etapas' = etapas \union novas[c] /\ estado'[run] = Vista(c, run) /\ pc[c] = "fn"
      BY <1>2 DEF Gravar, Publicar
    <2>2. Cadeia(EtapasDe(etapas \union novas[c], run), Pendente, Vista(c, run))
      BY <2>1 DEF VistaEncadeada, Corrente
    <2> QED
      BY <2>1, <2>2
  <1> QED
    BY <1>1, <1>2, Efeito DEF SemNadaGravar, Escrever, InserirEtapa, Retirar, Descartar

(* Nor does it change what the transactions that locked other rows see. *)
LEMMA VistaDosOutros ==
  ASSUME TypeOK, FormaInv, TrancaInv, HistoricoEncadeado, VistaEncadeada,
         NEW c \in Chamadas, Andar(c) \/ Falhar(c) \/ FalharComando(c),
         NEW d \in Chamadas, d # c, NEW run \in Existentes
  PROVE  Cadeia(EtapasDe(etapas \union novas[d], run), Pendente, Corrente(d, run))'
  <1>1. /\ pc'[d] = pc[d] /\ versao'[d] = versao[d] /\ novas'[d] = novas[d] /\ Atual(d)' = Atual(d)
    BY SoUmaAnda DEF Atual
  <1>2. CASE UNCHANGED <<estado, etapas>>
    <2>1. Corrente(d, run)' = Corrente(d, run)
      BY <1>1, <1>2 DEF Corrente, Vista
    <2> QED
      BY <1>1, <1>2, <2>1 DEF VistaEncadeada
  <1>3. CASE Gravar(c) /\ versao[c][run] = Nenhum
    <2>1. EtapasDe(etapas' \union novas'[d], run) = EtapasDe(etapas \union novas[d], run)
      BY <1>1, <1>3 DEF Gravar, Publicar, EtapasDe, FormaInv
    <2>2. estado'[run] = estado[run]
      BY <1>3 DEF Gravar, Publicar, Vista
    <2>3. Corrente(d, run)' = Corrente(d, run)
      BY <1>1, <2>2 DEF Corrente, Vista
    <2> QED
      BY <2>1, <2>3 DEF VistaEncadeada
  <1>4. CASE Gravar(c) /\ versao[c][run] # Nenhum
    <2>1. versao[d][run] = Nenhum
      BY <1>4 DEF TrancaInv
    <2>2. EtapasDe(etapas' \union novas'[d], run) = EtapasDe(etapas', run)
      BY <1>1, <2>1 DEF EtapasDe, FormaInv
    <2>a. ~(pc[d] = "inserir" /\ Atual(d).run = run)
      BY <2>1, TravaAoInserir
    <2>3. Corrente(d, run)' = estado'[run]
      BY <1>1, <2>1, <2>a DEF Corrente, Vista
    <2>4. Cadeia(EtapasDe(etapas', run), Pendente, estado'[run])
      BY HistoricoPreservado DEF HistoricoEncadeado
    <2> QED
      BY <2>2, <2>3, <2>4
  <1> QED
    BY <1>2, <1>3, <1>4, Efeito DEF SemNadaGravar, Escrever, InserirEtapa, Retirar, Descartar

LEMMA VistaPropria ==
  ASSUME TypeOK, FormaInv, TrancaInv, OrdemInv, HistoricoEncadeado, VistaEncadeada,
         NEW c \in Chamadas, Andar(c) \/ Falhar(c) \/ FalharComando(c), NEW run \in Existentes
  PROVE  Cadeia(EtapasDe(etapas \union novas[c], run), Pendente, Corrente(c, run))'
  <1>0. Cadeia(EtapasDe(etapas \union novas[c], run), Pendente, Corrente(c, run))
    BY DEF VistaEncadeada
  <1>1. CASE SemNadaGravar(c)
    <2>1. Corrente(c, run)' = Corrente(c, run)
      BY <1>1 DEF SemNadaGravar, Corrente, Vista
    <2> QED
      BY <1>0, <1>1, <2>1 DEF SemNadaGravar
  <1>2. CASE Escrever(c)
    <2>1. Corrente(c, run)' = Vista(c, run)
      BY <1>2 DEF Escrever, Corrente, Vista, Casa, Atual
    <2>2. Corrente(c, run) = Vista(c, run)
      BY <1>2 DEF Escrever, Corrente
    <2> QED
      BY <1>0, <1>2, <2>1, <2>2 DEF Escrever
  <1>3. CASE InserirEtapa(c)
    <2> DEFINE n == NovaEtapa(c)
    <2>1. Atual(c) \in Transicoes /\ Atual(c).run \in Existentes /\ versao[c][Atual(c).run] = Atual(c).para
      BY <1>3, PedidoTipado, TaskRunsAssumption DEF InserirEtapa, TypeOK, FormaInv
    <2>2. n \in TaskSteps /\ n.run = Atual(c).run /\ n.de = Atual(c).de /\ n.para = Atual(c).para
          /\ n.id = proximoId
      BY <2>1 DEF NovaEtapa, TaskSteps, Transicoes, TypeOK
    <2>3. /\ novas'[c] = novas[c] \union {n} /\ pc[c] = "inserir" /\ pc'[c] = "fn"
          /\ UNCHANGED <<estado, etapas, versao>>
      BY <1>3 DEF InserirEtapa, Devolver, Ir, TypeOK
    <2> HIDE DEF n
    <2>4. CASE run = Atual(c).run
      <3> DEFINE linhas == EtapasDe(etapas \union novas[c], run)
      <3>1. linhas \in SUBSET TaskSteps /\ \A e \in linhas : e.id < n.id
        BY <2>2 DEF EtapasDe, FormaInv, TypeOK
      <3>2. Cadeia(linhas, Pendente, n.de)
        BY <1>0, <2>2, <2>3, <2>4 DEF Corrente
      <3>3. EtapasDe(etapas' \union novas'[c], run) = linhas \union {n}
        BY <2>2, <2>3, <2>4 DEF EtapasDe
      <3>4. Corrente(c, run)' = n.para
        BY <2>1, <2>2, <2>3, <2>4, TaskRunsAssumption DEF Corrente, Vista, Transicoes
      <3> HIDE DEF linhas
      <3>5. Cadeia(linhas \union {n}, Pendente, n.para)
        BY <2>2, <3>1, <3>2, CadeiaEstende
      <3> QED
        BY <3>3, <3>4, <3>5
    <2>5. CASE run # Atual(c).run
      <3>1. EtapasDe(etapas' \union novas'[c], run) = EtapasDe(etapas \union novas[c], run)
        BY <2>2, <2>3, <2>5 DEF EtapasDe
      <3>2. Corrente(c, run)' = Corrente(c, run)
        BY <2>3, <2>5 DEF Corrente, Vista
      <3> QED
        BY <1>0, <3>1, <3>2
    <2> QED
      BY <2>4, <2>5
  <1>4. CASE Descartar(c) \/ Gravar(c)
    <2>1. EtapasDe(etapas' \union novas'[c], run) = EtapasDe(etapas', run)
      BY <1>4 DEF Descartar, Gravar, Encerrar, EtapasDe
    <2>2. Corrente(c, run)' = estado'[run]
      BY <1>4 DEF Descartar, Gravar, Encerrar, Corrente, Vista
    <2>3. Cadeia(EtapasDe(etapas', run), Pendente, estado'[run])
      BY HistoricoPreservado DEF HistoricoEncadeado
    <2> QED
      BY <2>1, <2>2, <2>3
  <1>5. CASE Retirar(c)
    <2>1. /\ etapas' = etapas /\ novas' = novas /\ estado' = estado
          /\ pc[c] = "inserir" /\ pc'[c] = "fn"
      BY <1>5 DEF Retirar
    <2>2. CASE run # Atual(c).run
      <3>1. Corrente(c, run)' = Corrente(c, run)
        BY <1>5, <2>1, <2>2 DEF Retirar, Corrente, Vista
      <3> QED
        BY <1>0, <2>1, <3>1
    <2>3. CASE run = Atual(c).run /\ \E e \in novas[c] : e.run = run
      <3>1. Atual(c).de # Nenhum
        BY <2>1, PedidoTipado, TaskRunsAssumption DEF FormaInv, TypeOK, Transicoes
      <3>2. Corrente(c, run)' = Corrente(c, run)
        BY <1>5, <2>1, <2>3, <3>1 DEF Retirar, Anterior, Corrente, Vista
      <3> QED
        BY <1>0, <2>1, <3>2
    <2>4. CASE run = Atual(c).run /\ ~\E e \in novas[c] : e.run = run
      <3>1. EtapasDe(etapas' \union novas'[c], run) = EtapasDe(etapas, run)
        BY <2>1, <2>4 DEF EtapasDe
      <3>2. Corrente(c, run)' = estado[run]
        BY <1>5, <2>1, <2>4 DEF Retirar, Anterior, Corrente, Vista
      <3> QED
        BY <3>1, <3>2 DEF HistoricoEncadeado
    <2> QED
      BY <2>2, <2>3, <2>4
  <1> QED
    BY <1>1, <1>2, <1>3, <1>4, <1>5, Efeito

------------------------------------------------------------------------------
(* A transaction is recorded whole or not at all *)

LEMMA InteiraPreservada ==
  ASSUME TypeOK, FormaInv, TransacaoInteira, AbertaInteira,
         NEW c \in Chamadas, Andar(c) \/ Falhar(c) \/ FalharComando(c)
  PROVE  TransacaoInteira' /\ AbertaInteira'
  <1> DEFINE Inteira(d) ==
        CASE pc[d] = "confirmada" -> Gravadas(etapas, d) = Feitas(d)
          [] pc[d] = "erro" -> Gravadas(etapas, d) \in {{}, Feitas(d)}
          [] OTHER -> Gravadas(etapas, d) = {}
  <1> DEFINE Aberta(d) == pc[d] \notin {"confirmada", "erro"} => Gravadas(novas[d], d) = Feitas(d)
  <1>1. \A d \in Chamadas : Inteira(d) /\ Aberta(d)
    BY DEF TransacaoInteira, AbertaInteira
  <1>2. etapas' = etapas \/ (Gravar(c) /\ etapas' = etapas \union novas[c])
    BY Efeito DEF SemNadaGravar, Escrever, InserirEtapa, Retirar, Descartar, Gravar, Publicar
  <1>3. \A e \in novas[c] : e.chamada = c
    BY DEF FormaInv
  <1>4. ASSUME NEW d \in Chamadas, d # c PROVE Inteira(d)' /\ Aberta(d)'
    <2>1. Gravadas(etapas', d) = Gravadas(etapas, d)
      BY <1>2, <1>3, <1>4 DEF Gravadas
    <2>2. pc'[d] = pc[d] /\ novas'[d] = novas[d] /\ Feitas(d)' = Feitas(d)
      BY <1>4, SoUmaAnda
    <2> QED
      BY <1>1, <2>1, <2>2
  <1>5. Inteira(c)' /\ Aberta(c)'
    <2>1. CASE SemNadaGravar(c)
      <3>1. /\ pc[c] \notin {"confirmada", "erro"} /\ pc'[c] \in {"fn", "conferir"}
            /\ UNCHANGED <<etapas, novas>> /\ Feitas(c)' = Feitas(c)
        BY <2>1 DEF SemNadaGravar
      <3> QED
        BY <1>1, <3>1
    <2>2. CASE Escrever(c)
      <3>1. /\ pc[c] = "fn" /\ pc'[c] = "inserir"
            /\ UNCHANGED <<etapas, novas>> /\ Feitas(c)' = Feitas(c)
        BY <2>2 DEF Escrever, Feitas
      <3> QED
        BY <1>1, <3>1
    <2>3. CASE InserirEtapa(c)
      <3>1. /\ pc[c] = "inserir" /\ pc'[c] = "fn" /\ etapas' = etapas
            /\ novas'[c] = novas[c] \union {NovaEtapa(c)}
            /\ Feitas(c)' = Feitas(c) \union {passo[c]}
        BY <2>3, RespostaDevolvida DEF InserirEtapa, Devolver, Ir, TypeOK
      <3>2. NovaEtapa(c).chamada = c /\ NovaEtapa(c).passo = passo[c]
        BY DEF NovaEtapa
      <3>3. Gravadas(novas'[c], c) = Gravadas(novas[c], c) \union {passo[c]}
        BY <3>1, <3>2 DEF Gravadas
      <3> QED
        BY <1>1, <3>1, <3>3
    <2>4. CASE Descartar(c)
      <3>1. /\ pc[c] \notin {"confirmada", "erro"} /\ pc'[c] = "erro" /\ etapas' = etapas
        BY <2>4 DEF Descartar, Encerrar
      <3> QED
        BY <1>1, <3>1
    <2>5. CASE Gravar(c)
      <3>1. /\ pc[c] = "fn" /\ pc'[c] \in {"confirmada", "erro"}
            /\ etapas' = etapas \union novas[c] /\ Feitas(c)' = Feitas(c)
        BY <2>5 DEF Gravar, Publicar, Encerrar, Feitas
      <3>2. Gravadas(etapas', c) = Gravadas(etapas, c) \union Gravadas(novas[c], c)
        BY <3>1 DEF Gravadas
      <3>3. Gravadas(etapas', c) = Feitas(c)'
        BY <1>1, <3>1, <3>2
      <3> QED
        BY <3>1, <3>3
    <2>6. CASE Retirar(c)
      <3>1. /\ pc[c] = "inserir" /\ pc'[c] = "fn"
            /\ UNCHANGED <<etapas, novas>> /\ Feitas(c)' = Feitas(c)
        BY <2>6 DEF Retirar
      <3> QED
        BY <1>1, <3>1
    <2> QED
      BY <2>1, <2>2, <2>3, <2>4, <2>5, <2>6, Efeito
  <1> QED
    BY <1>4, <1>5 DEF TransacaoInteira, AbertaInteira

------------------------------------------------------------------------------
(* The theorems *)

LEMMA InicioInd == Init => IndInv
  <1> SUFFICES ASSUME Init PROVE IndInv
    OBVIOUS
  <1>1. HistoricoEncadeado
    BY DEF Init, HistoricoEncadeado, Cadeia, EtapasDe
  <1>2. VistaEncadeada
    BY DEF Init, VistaEncadeada, Corrente, Vista, Cadeia, EtapasDe
  <1>3. FormaInv /\ TrancaInv /\ OrdemInv
    BY DEF Init, FormaInv, TrancaInv, OrdemInv
  <1>4. TransacaoInteira /\ AbertaInteira
    BY DEF Init, TransacaoInteira, AbertaInteira, Gravadas, Feitas
  <1> QED
    BY <1>1, <1>2, <1>3, <1>4, TipoInicial DEF IndInv

LEMMA PassoInd == IndInv /\ [Next]_vars => IndInv'
  <1> SUFFICES ASSUME IndInv, [Next]_vars PROVE IndInv'
    OBVIOUS
  <1> USE DEF IndInv
  <1>1. ASSUME NEW c \in Chamadas, Andar(c) \/ Falhar(c) \/ FalharComando(c) PROVE IndInv'
    <2>1. TypeOK'
      BY TipoPreservado
    <2>2. FormaInv' /\ TrancaInv' /\ OrdemInv'
      BY <1>1, FormaPreservada, TrancaPreservada, OrdemPreservada
    <2>3. HistoricoEncadeado'
      BY <1>1, HistoricoPreservado
    <2>4. VistaEncadeada'
      BY <1>1, VistaDosOutros, VistaPropria DEF VistaEncadeada
    <2>5. TransacaoInteira' /\ AbertaInteira'
      BY <1>1, InteiraPreservada
    <2> QED
      BY <2>1, <2>2, <2>3, <2>4, <2>5
  <1>2. ASSUME UNCHANGED vars PROVE IndInv'
    <2>1. TypeOK'
      BY <1>2 DEF vars, TypeOK
    <2>2. FormaInv' /\ TrancaInv' /\ OrdemInv'
      BY <1>2 DEF vars, FormaInv, TrancaInv, OrdemInv, Atual
    <2>3. HistoricoEncadeado' /\ VistaEncadeada'
      BY <1>2 DEF vars, HistoricoEncadeado, VistaEncadeada, Corrente, Vista, Atual
    <2>4. TransacaoInteira' /\ AbertaInteira'
      BY <1>2 DEF vars, TransacaoInteira, AbertaInteira, Feitas
    <2> QED
      BY <2>1, <2>2, <2>3, <2>4
  <1> QED
    BY <1>1, <1>2 DEF Next

(* The inductive invariant holds in every reachable state: a row is locked by
   one transaction at most, and what each of them sees is a chain of steps. *)
THEOREM Invariante == Spec => []IndInv
  BY InicioInd, PassoInd, PTL DEF Spec

(* Every variable keeps its type, for any calls and task_runs. *)
THEOREM TiposCorretos == Spec => []TypeOK
  <1>1. IndInv => TypeOK
    BY DEF IndInv
  <1> QED
    BY <1>1, Invariante, PTL

(* The committed steps of a task_run always tell how it came from pendente to
   its state, for any number of concurrent transactions. *)
THEOREM HistoricosEncadeados == Spec => []HistoricoEncadeado
  <1>1. IndInv => HistoricoEncadeado
    BY DEF IndInv
  <1> QED
    BY <1>1, Invariante, PTL

(* A call is recorded whole or not at all, and what it was refused never is. *)
THEOREM TransacoesInteiras == Spec => []TransacaoInteira
  <1>1. IndInv => TransacaoInteira
    BY DEF IndInv
  <1> QED
    BY <1>1, Invariante, PTL

(* The steps of a task_run become visible in the order of their ids. *)
THEOREM LeiturasEstaveis == Spec => LeituraEstavel
  <1>1. IndInv /\ [Next]_vars => [VisiveisEmOrdem]_vars
    <2> SUFFICES ASSUME IndInv,
                        NEW c \in Chamadas, Andar(c) \/ Falhar(c) \/ FalharComando(c)
                 PROVE VisiveisEmOrdem
      BY DEF Next
    <2>1. etapas' = etapas \/ etapas' = etapas \union novas[c]
      BY Efeito DEF IndInv, SemNadaGravar, Escrever, InserirEtapa, Retirar, Descartar, Gravar, Publicar
    <2> QED
      BY <2>1 DEF IndInv, OrdemInv, VisiveisEmOrdem
  <1> QED
    BY <1>1, Invariante, PTL DEF Spec, LeituraEstavel

------------------------------------------------------------------------------
(* Calls that race do not all lose *)

(* What a step of one call leaves of the facts about the refusals of another. *)
LEMMA PassoDeOutra ==
  ASSUME TypeOK, NEW c \in Chamadas, Andar(c) \/ Falhar(c) \/ FalharComando(c)
  PROVE  /\ etapas \subseteq etapas' /\ vitima \subseteq vitima'
         /\ \A d \in Chamadas \ {c} : Recusada(d)' = Recusada(d)
  <1>1. etapas \subseteq etapas' /\ vitima \subseteq vitima'
    BY DEF Andar, Abrir, Validar, Atualizar, InserirEtapa, Conferir, Impasse, Desfazer, Confirmar,
           Falhar, FalharComando, Publicar
  <1>2. respostas' = respostas \/ \E r : Devolver(c, r)
    BY DEF Andar, Abrir, Validar, Atualizar, InserirEtapa, Conferir, Impasse, Desfazer, Confirmar,
           Falhar, FalharComando
  <1>3. \A d \in Chamadas \ {c} : Recusada(d)' = Recusada(d)
    BY <1>2 DEF Devolver, Recusada
  <1> QED
    BY <1>1, <1>3

(* A transition from pendente that matches no row of its task_run finds it out
   of pendente, and then its chain of steps is not empty. *)
LEMMA QuemNaoCasaChegouTarde ==
  ASSUME IndInv, NEW c \in Chamadas, Quer(c), passo[c] = 1,
         versao[c][Pedido[c][1].run] = Nenhum, ~Casa(c)
  PROVE  Saiu(c)
  <1> DEFINE run == Pedido[c][1].run
  <1>1. run \in Existentes /\ estado[run] # Pendente
    BY DEF Quer, Casa, Vista, Atual
  <1>2. Cadeia(EtapasDe(etapas, run), Pendente, estado[run])
    BY <1>1 DEF IndInv, HistoricoEncadeado
  <1> QED
    BY <1>1, <1>2 DEF Cadeia, Saiu

LEMMA VencedorPreservado ==
  ASSUME IndInv, VencedorInv, NEW c \in Chamadas, Andar(c) \/ Falhar(c) \/ FalharComando(c)
  PROVE  VencedorInv'
  <1>0. TypeOK /\ FormaInv
    BY DEF IndInv
  <1>1. \A d \in Chamadas : Saiu(d) => Saiu(d)'
    BY <1>0, PassoDeOutra DEF Saiu, EtapasDe
  <1>2. ASSUME NEW d \in Chamadas, d # c, Vencedor(d) PROVE Vencedor(d)'
    BY <1>0, <1>1, <1>2, SoUmaAnda, PassoDeOutra DEF Vencedor
  <1>3. ASSUME Quer(c), Vencedor(c) PROVE Vencedor(c)'
    <2> DEFINE run == Pedido[c][1].run
    <2>1. /\ c \notin Explicitas /\ Passos[c] = 1 /\ Pedido[c][1].valida /\ run \in Existentes
      BY <1>3, TaskRunsAssumption DEF Quer
    <2>2. /\ passo[c] \in Nat \ {0} /\ (passo[c] <= Passos[c] => passo[c] = 1)
          /\ pc[c] \in {"inserir", "conferir"} => passo[c] = 1
      <3>1. passo[c] \in Nat \ {0}
        BY <1>0 DEF TypeOK
      <3>2. passo[c] <= Passos[c] => passo[c] = 1
        BY <2>1, <3>1
      <3>3. pc[c] \in {"inserir", "conferir"} => passo[c] <= Passos[c]
        BY <1>0 DEF FormaInv
      <3> QED
        BY <3>1, <3>2, <3>3
    <2> HIDE DEF run
    <2>3. ASSUME NEW r, Devolver(c, r)
          PROVE  /\ pc'[c] = "fn" /\ passo'[c] = passo[c] + 1
                 /\ r \notin Recusas => Recusada(c)' = Recusada(c)
                 /\ r \in Recusas => Recusada(c)'
      <3>1. pc'[c] = "fn" /\ passo'[c] = passo[c] + 1
        BY <1>0, <2>3 DEF Devolver, Ir, TypeOK
      <3>2. r \notin Recusas => Recusada(c)' = Recusada(c)
        BY <2>3 DEF Devolver, Recusada
      <3>3. ASSUME r \in Recusas PROVE Recusada(c)'
        <4> DEFINE resposta == [chamada |-> c, passo |-> passo[c], resultado |-> r]
        <4>1. resposta \in respostas'
          BY <2>3 DEF Devolver
        <4>2. resposta.chamada = c /\ resposta.resultado \in Recusas
          BY <3>3
        <4> QED
          BY <4>1, <4>2 DEF Recusada
      <3> QED
        BY <3>1, <3>2, <3>3
    <2>4. CASE Abrir(c)
      BY <1>0, <1>3, <2>4 DEF Abrir, Ir, TypeOK, Vencedor, Saiu, Recusada
    <2>5. CASE Validar(c)
      BY <2>1, <2>2, <2>5 DEF Validar, Atual
    <2>6. CASE Atualizar(c)
      <3>1. pc[c] = "fn" /\ passo[c] = 1 /\ versao[c][run] = Nenhum
        BY <1>3, <2>2, <2>6 DEF Atualizar, Vencedor, run
      <3>2. CASE Casa(c)
        <4>1. pc'[c] = "inserir" /\ UNCHANGED <<etapas, respostas, vitima>>
          BY <1>0, <2>6, <3>2 DEF Atualizar, Ir, TypeOK
        <4> QED
          BY <1>3, <4>1 DEF Vencedor, Saiu, Recusada
      <3>3. CASE ~Casa(c)
        <4>1. pc'[c] = "conferir" /\ UNCHANGED <<etapas, respostas, vitima>>
          BY <1>0, <2>6, <3>3 DEF Atualizar, Ir, TypeOK
        <4>2. Saiu(c)
          BY <1>3, <3>1, <3>3, QuemNaoCasaChegouTarde DEF run
        <4> QED
          BY <1>3, <4>1, <4>2 DEF Vencedor, Saiu, Recusada
      <3> QED
        BY <3>2, <3>3
    <2>7. CASE InserirEtapa(c)
      <3>1. /\ pc'[c] = "fn" /\ passo'[c] = 2 /\ Recusada(c)' = Recusada(c)
            /\ NovaEtapa(c) \in novas'[c] /\ UNCHANGED <<etapas, vitima>>
        BY <1>0, <2>2, <2>3, <2>7 DEF InserirEtapa, TypeOK, Recusas
      <3>2. NovaEtapa(c).run = run
        BY <2>2, <2>7 DEF InserirEtapa, NovaEtapa, Atual, run
      <3> QED
        BY <1>3, <3>1, <3>2 DEF Vencedor, Saiu, run
    <2>8. CASE Conferir(c)
      <3> DEFINE r == IF Atual(c).run \in Existentes THEN "concorrente" ELSE "nao_encontrado"
      <3>0. Devolver(c, r) /\ r \in Recusas /\ pc[c] = "conferir"
        BY <2>8 DEF Conferir, Recusas
      <3> HIDE DEF r
      <3>1. pc'[c] = "fn" /\ passo'[c] = 2 /\ Saiu(c) /\ Recusada(c)'
        BY <1>3, <2>2, <2>3, <3>0 DEF Vencedor
      <3> QED
        BY <1>1, <3>1 DEF Vencedor
    <2>9. CASE Impasse(c)
      <3>0. Devolver(c, "impasse") /\ passo[c] = 1 /\ c \in vitima'
        BY <2>2, <2>9 DEF Impasse, Espera
      <3>1. pc'[c] = "fn" /\ passo'[c] = 2 /\ c \in vitima' /\ Recusada(c)'
        BY <2>3, <3>0 DEF Recusas
      <3> QED
        BY <3>1 DEF Vencedor
    <2>10. CASE Desfazer(c)
      <3>1. pc'[c] = "erro" /\ (c \in vitima \/ Saiu(c)) /\ UNCHANGED <<etapas, vitima>>
        BY <1>0, <1>3, <2>1, <2>10 DEF Desfazer, Ir, TypeOK, Vencedor
      <3> QED
        BY <1>1, <3>1 DEF Vencedor
    <2>11. CASE Confirmar(c)
      <3>1. /\ pc[c] = "fn" /\ passo[c] # 1 /\ ~Recusada(c) /\ pc'[c] = "confirmada"
            /\ etapas' = etapas \union novas[c] /\ UNCHANGED respostas
        BY <1>0, <2>1, <2>2, <2>11 DEF Confirmar, Publicar, Ir, TypeOK
      <3>2. Saiu(c)'
        BY <1>3, <3>1 DEF Vencedor, Saiu, EtapasDe
      <3> QED
        BY <3>1, <3>2 DEF Vencedor
    <2>12. CASE Falhar(c)
      <3>1. pc'[c] = "erro" /\ c \in vitima'
        BY <1>0, <2>12 DEF Falhar, Ir, TypeOK
      <3> QED
        BY <3>1 DEF Vencedor
    <2>13. CASE FalharComando(c)
      <3>0. Devolver(c, "falha") /\ passo[c] = 1 /\ c \in vitima'
        BY <2>2, <2>13 DEF FalharComando
      <3>1. pc'[c] = "fn" /\ passo'[c] = 2 /\ c \in vitima' /\ Recusada(c)'
        BY <2>3, <3>0 DEF Recusas
      <3> QED
        BY <3>1 DEF Vencedor
    <2> QED
      BY <2>4, <2>5, <2>6, <2>7, <2>8, <2>9, <2>10, <2>11, <2>12, <2>13 DEF Andar
  <1>4. \A d \in Chamadas : Quer(d)' = Quer(d)
    BY DEF Quer
  <1> QED
    BY <1>2, <1>3, <1>4 DEF VencedorInv

(* TransicionarTaskRun and ErrTransicaoConcorrente: when nothing failed in the
   database, not every call that wanted a task_run out of pendente lost. *)
THEOREM AlguemSempreVence == Spec => []AlguemVence
  <1>1. Init => VencedorInv
    BY TaskRunsAssumption DEF Init, VencedorInv, Vencedor, Quer, Recusada
  <1>2. IndInv /\ VencedorInv /\ [Next]_vars => VencedorInv'
    <2>1. ASSUME VencedorInv, UNCHANGED vars PROVE VencedorInv'
      BY <2>1 DEF vars, VencedorInv, Vencedor, Quer, Saiu, EtapasDe, Recusada
    <2> QED
      BY <2>1, VencedorPreservado DEF Next
  <1>3. VencedorInv => AlguemVence
    BY DEF VencedorInv, Vencedor, Quer, Saiu, AlguemVence
  <1> QED
    BY <1>1, <1>2, <1>3, Invariante, PTL DEF Spec
------------------------------------------------------------------------------
(* A transaction takes effect at one instant *)

(* What an open transaction inserted in a row is a chain from the state the row
   has for the others to the state it has for the transaction itself. *)
TrechoInv ==
  \A c \in Chamadas, run \in Existentes :
    Cadeia(EtapasDe(novas[c], run), estado[run], Corrente(c, run))

(* Its steps are the transitions it was asked to make, in that order. *)
Fiel(linhas, c) ==
  /\ \A e \in linhas :
       /\ e.passo \in 1 .. Passos[c] /\ Pedido[c][e.passo].valida
       /\ e.run = Pedido[c][e.passo].run
       /\ e.de = Pedido[c][e.passo].de /\ e.para = Pedido[c][e.passo].para
  /\ \A e, f \in linhas : e.id < f.id => e.passo < f.passo
FielInv ==
  \A c \in Chamadas :
    /\ pc[c] = "inserir" => Atual(c).valida
    /\ Fiel(novas[c], c) /\ \A e \in novas[c] : e.passo < passo[c]

(* EmTransacao: the tables change only by all the transitions of one call, which
   had shown none before.  They are those it was asked for and was told were
   made, in the order it made them, and they take each row, without a gap, from
   the state it has to the state it gets: no update of another call is lost. *)
TransacaoAtomica ==
  \E c \in Chamadas :
    /\ Gravadas(etapas, c) = {} /\ Gravadas(etapas', c) = Feitas(c)
    /\ etapas \subseteq etapas' /\ \A e \in etapas' \ etapas : e.chamada = c
    /\ Fiel(etapas' \ etapas, c)
    /\ \A run \in Existentes : Cadeia(EtapasDe(etapas' \ etapas, run), estado[run], estado'[run])

LEMMA CadeiaVazia == \A inicio : Cadeia({}, inicio, inicio)
  BY DEF Cadeia

LEMMA TrechoPreservado ==
  ASSUME IndInv, TrechoInv, NEW c \in Chamadas, Andar(c) \/ Falhar(c) \/ FalharComando(c)
  PROVE  TrechoInv'
  <1>0. TypeOK /\ FormaInv /\ TrancaInv
    BY DEF IndInv
  <1> SUFFICES ASSUME NEW d \in Chamadas, NEW run \in Existentes
               PROVE  Cadeia(EtapasDe(novas[d], run), estado[run], Corrente(d, run))'
    BY DEF TrechoInv
  <1> DEFINE linhas == EtapasDe(novas[d], run)
  <1>1. Cadeia(linhas, estado[run], Corrente(d, run))
    BY DEF TrechoInv
  <1>2. \/ estado'[run] = estado[run]
        \/ Gravar(c) /\ versao[c][run] # Nenhum
    <2>1. CASE Gravar(c) /\ versao[c][run] = Nenhum
      BY <2>1 DEF Gravar, Publicar, Vista
    <2> QED
      BY <1>0, <2>1, Efeito DEF SemNadaGravar, Escrever, InserirEtapa, Retirar, Descartar
  <1>3. CASE d # c
    <2>1. pc'[d] = pc[d] /\ versao'[d] = versao[d] /\ novas'[d] = novas[d] /\ Atual(d)' = Atual(d)
      BY <1>0, <1>3, SoUmaAnda DEF Atual
    <2>2. CASE estado'[run] = estado[run]
      <3>1. Corrente(d, run)' = Corrente(d, run)
        BY <2>1, <2>2 DEF Corrente, Vista
      <3> QED
        BY <1>1, <2>1, <2>2, <3>1
    <2>3. CASE versao[c][run] # Nenhum
      <3>1. versao[d][run] = Nenhum
        BY <1>0, <1>3, <2>3 DEF TrancaInv
      <3>2. EtapasDe(novas'[d], run) = {}
        BY <1>0, <2>1, <3>1 DEF EtapasDe, FormaInv
      <3>3. ~(pc[d] = "inserir" /\ Atual(d).run = run)
        BY <1>0, <3>1, TravaAoInserir
      <3>4. Corrente(d, run)' = estado'[run]
        BY <2>1, <3>1, <3>3 DEF Corrente, Vista
      <3> QED
        BY <3>2, <3>4, CadeiaVazia
    <2> QED
      BY <1>2, <2>2, <2>3
  <1>4. CASE d = c
    <2>1. CASE SemNadaGravar(c)
      <3>1. Corrente(c, run)' = Corrente(c, run)
        BY <2>1 DEF SemNadaGravar, Corrente, Vista
      <3> QED
        BY <1>1, <1>4, <2>1, <3>1 DEF SemNadaGravar
    <2>2. CASE Escrever(c)
      <3>1. Corrente(c, run)' = Vista(c, run)
        BY <2>2 DEF Escrever, Corrente, Vista, Casa, Atual
      <3>2. Corrente(c, run) = Vista(c, run)
        BY <2>2 DEF Escrever, Corrente
      <3> QED
        BY <1>1, <1>4, <2>2, <3>1, <3>2 DEF Escrever
    <2>3. CASE InserirEtapa(c)
      <3> DEFINE n == NovaEtapa(c)
      <3>1. Atual(c) \in Transicoes /\ Atual(c).run \in Existentes
            /\ versao[c][Atual(c).run] = Atual(c).para
        BY <1>0, <2>3, PedidoTipado, TaskRunsAssumption DEF InserirEtapa, TypeOK, FormaInv
      <3>2. n \in TaskSteps /\ n.run = Atual(c).run /\ n.de = Atual(c).de /\ n.para = Atual(c).para
            /\ n.id = proximoId
        BY <1>0, <3>1 DEF NovaEtapa, TaskSteps, Transicoes, TypeOK
      <3>3. /\ novas'[c] = novas[c] \union {n} /\ pc[c] = "inserir" /\ pc'[c] = "fn"
            /\ UNCHANGED <<estado, versao>>
        BY <1>0, <2>3 DEF InserirEtapa, Devolver, Ir, TypeOK
      <3> HIDE DEF n
      <3>4. CASE run = Atual(c).run
        <4>1. linhas \in SUBSET TaskSteps /\ \A e \in linhas : e.id < n.id
          BY <1>0, <1>4, <3>2 DEF EtapasDe, FormaInv, TypeOK
        <4>2. Cadeia(linhas, estado[run], n.de)
          BY <1>1, <1>4, <3>2, <3>3, <3>4 DEF Corrente
        <4>3. EtapasDe(novas'[c], run) = linhas \union {n}
          BY <1>4, <3>2, <3>3, <3>4 DEF EtapasDe
        <4>4. Corrente(c, run)' = n.para
          BY <3>1, <3>2, <3>3, <3>4, TaskRunsAssumption DEF Corrente, Vista, Transicoes
        <4> HIDE DEF linhas
        <4>5. Cadeia(linhas \union {n}, estado[run], n.para)
          BY <3>2, <4>1, <4>2, CadeiaEstende
        <4> QED
          BY <1>4, <3>3, <4>3, <4>4, <4>5
      <3>5. CASE run # Atual(c).run
        <4>1. EtapasDe(novas'[c], run) = linhas
          BY <1>4, <3>2, <3>3, <3>5 DEF EtapasDe
        <4>2. Corrente(c, run)' = Corrente(c, run)
          BY <3>3, <3>5 DEF Corrente, Vista
        <4> QED
          BY <1>1, <1>4, <3>3, <4>1, <4>2
      <3> QED
        BY <3>4, <3>5
    <2>4. CASE Encerrar(c) /\ pc'[c] \in {"confirmada", "erro"}
      <3>1. EtapasDe(novas'[c], run) = {}
        BY <2>4 DEF Encerrar, EtapasDe
      <3>2. Corrente(c, run)' = estado'[run]
        BY <2>4 DEF Encerrar, Corrente, Vista
      <3> QED
        BY <1>4, <3>1, <3>2, CadeiaVazia
    <2>5. CASE Retirar(c)
      <3>1. novas' = novas /\ estado' = estado /\ pc[c] = "inserir" /\ pc'[c] = "fn"
        BY <2>5 DEF Retirar
      <3>2. CASE run # Atual(c).run
        <4>1. Corrente(c, run)' = Corrente(c, run)
          BY <2>5, <3>1, <3>2 DEF Retirar, Corrente, Vista
        <4> QED
          BY <1>1, <1>4, <3>1, <4>1
      <3>3. CASE run = Atual(c).run /\ \E e \in novas[c] : e.run = run
        <4>1. Atual(c).de # Nenhum
          BY <1>0, <3>1, PedidoTipado, TaskRunsAssumption DEF FormaInv, TypeOK, Transicoes
        <4>2. Corrente(c, run)' = Corrente(c, run)
          BY <2>5, <3>1, <3>3, <4>1 DEF Retirar, Anterior, Corrente, Vista
        <4> QED
          BY <1>1, <1>4, <3>1, <4>2
      <3>4. CASE run = Atual(c).run /\ ~\E e \in novas[c] : e.run = run
        <4>1. EtapasDe(novas'[c], run) = {}
          BY <3>1, <3>4 DEF EtapasDe
        <4>2. Corrente(c, run)' = estado'[run]
          BY <2>5, <3>1, <3>4 DEF Retirar, Anterior, Corrente, Vista
        <4> QED
          BY <1>4, <4>1, <4>2, CadeiaVazia
      <3> QED
        BY <3>2, <3>3, <3>4
    <2> QED
      BY <1>0, <2>1, <2>2, <2>3, <2>4, <2>5, Efeito DEF Descartar, Gravar
  <1> QED
    BY <1>3, <1>4

LEMMA FielPreservado ==
  ASSUME TypeOK, FormaInv, FielInv, NEW c \in Chamadas, Andar(c) \/ Falhar(c) \/ FalharComando(c)
  PROVE  FielInv'
  <1> DEFINE Certa(d) ==
        /\ pc[d] = "inserir" => Atual(d).valida
        /\ Fiel(novas[d], d) /\ \A e \in novas[d] : e.passo < passo[d]
  <1>1. \A d \in Chamadas : Certa(d)
    BY DEF FielInv
  <1>2. ASSUME NEW d \in Chamadas, d # c PROVE Certa(d)'
    <2>1. pc'[d] = pc[d] /\ passo'[d] = passo[d] /\ novas'[d] = novas[d]
      BY <1>2, SoUmaAnda
    <2>2. Atual(d)' = Atual(d)
      BY <2>1 DEF Atual
    <2>3. Certa(d)
      BY <1>1
    <2>4. Fiel(novas'[d], d)
      BY <2>1, <2>3
    <2> QED
      BY <2>1, <2>2, <2>3, <2>4
  <1>3. Certa(c)'
    <2>0. Certa(c)
      BY <1>1
    <2>1. CASE SemNadaGravar(c)
      <3>1. novas' = novas /\ pc'[c] # "inserir"
        BY <2>1 DEF SemNadaGravar
      <3>2. passo'[c] \in {passo[c], passo[c] + 1}
        BY <2>1 DEF SemNadaGravar, Andar, Falhar, FalharComando, Abrir, Validar, Atualizar,
                    InserirEtapa, Conferir, Impasse,
                    Desfazer, Confirmar, Devolver, TypeOK
      <3>3. \A e \in novas[c] : e.passo \in Nat
        BY DEF TypeOK, TaskSteps
      <3>4. \A e \in novas[c] : e.passo < passo'[c]
        BY <2>0, <3>2, <3>3 DEF TypeOK
      <3> QED
        BY <2>0, <3>1, <3>4
    <2>2. CASE Escrever(c)
      <3>1. Atual(c).valida
        BY <2>2 DEF Escrever, Andar, Falhar, FalharComando, Abrir, Validar, Atualizar,
                    InserirEtapa, Conferir, Impasse,
                    Desfazer, Confirmar, Devolver, Ir, TypeOK
      <3>2. novas' = novas /\ passo' = passo /\ Atual(c)' = Atual(c)
        BY <2>2 DEF Escrever, Atual
      <3> QED
        BY <2>0, <3>1, <3>2
    <2>3. CASE InserirEtapa(c)
      <3> DEFINE n == NovaEtapa(c)
      <3>1. passo[c] \in 1 .. Passos[c] /\ Pedido[c][passo[c]].valida
        BY <2>0, <2>3, TaskRunsAssumption DEF InserirEtapa, FormaInv, TypeOK, Atual
      <3>2. /\ n.passo = passo[c] /\ n.id = proximoId /\ n.run = Pedido[c][passo[c]].run
            /\ n.de = Pedido[c][passo[c]].de /\ n.para = Pedido[c][passo[c]].para
        BY DEF NovaEtapa, Atual
      <3>3. novas'[c] = novas[c] \union {n} /\ pc'[c] = "fn" /\ passo'[c] = passo[c] + 1
        BY <2>3 DEF InserirEtapa, Devolver, Ir, TypeOK
      <3>4. \A e \in novas[c] : e.id \in Nat /\ e.id < proximoId /\ e.passo \in Nat /\ e.passo < passo[c]
        BY <2>0 DEF FormaInv, TypeOK, TaskSteps
      <3> HIDE DEF n
      <3>5. \A e \in novas[c] \union {n} : e.passo < passo[c] + 1
        BY <3>1, <3>2, <3>4, TaskRunsAssumption
      <3>6. \A e, f \in novas[c] \union {n} : e.id < f.id => e.passo < f.passo
        BY <2>0, <3>2, <3>4 DEF Fiel, TypeOK
      <3>7. Fiel(novas[c] \union {n}, c)
        BY <2>0, <3>1, <3>2, <3>6 DEF Fiel
      <3> QED
        BY <3>3, <3>5, <3>7
    <2>4. CASE Encerrar(c) /\ pc'[c] \in {"confirmada", "erro"}
      BY <2>4 DEF Encerrar, Fiel
    <2>5. CASE Retirar(c)
      <3>1. novas' = novas /\ pc[c] = "inserir" /\ pc'[c] = "fn"
        BY <2>5 DEF Retirar
      <3>2. passo'[c] = passo[c] + 1
        BY <3>1 DEF Andar, Falhar, FalharComando, Abrir, Validar, Atualizar, InserirEtapa, Conferir,
                    Impasse, Espera, Desfazer, Confirmar, Devolver, Ir, TypeOK
      <3>3. \A e \in novas[c] : e.passo \in Nat
        BY DEF TypeOK, TaskSteps
      <3>4. \A e \in novas[c] : e.passo < passo'[c]
        BY <2>0, <3>2, <3>3 DEF TypeOK
      <3> QED
        BY <2>0, <3>1, <3>4
    <2> QED
      BY <2>1, <2>2, <2>3, <2>4, <2>5, Efeito DEF Descartar, Gravar
  <1> QED
    BY <1>2, <1>3 DEF FielInv

(* EmTransacao: for any calls, every change of the tables is one whole
   transaction, as if the calls had run one after the other. *)
THEOREM TransacoesAtomicas == Spec => [][TransacaoAtomica]_<<estado, etapas>>
  <1> DEFINE Inv == IndInv /\ TrechoInv /\ FielInv
  <1>1. Init => TrechoInv /\ FielInv
    <2> SUFFICES ASSUME Init PROVE TrechoInv /\ FielInv
      OBVIOUS
    <2>1. TrechoInv
      BY DEF Init, TrechoInv, Corrente, Vista, EtapasDe, Cadeia
    <2>2. FielInv
      BY DEF Init, FielInv, Fiel
    <2> QED
      BY <2>1, <2>2
  <1>2. Inv /\ [Next]_vars => TrechoInv' /\ FielInv'
    <2>1. ASSUME Inv, UNCHANGED vars PROVE TrechoInv' /\ FielInv'
      BY <2>1 DEF vars, TrechoInv, Corrente, Vista, FielInv, Atual
    <2>2. ASSUME Inv,
                 NEW c \in Chamadas, Andar(c) \/ Falhar(c) \/ FalharComando(c)
          PROVE TrechoInv' /\ FielInv'
      <3>1. IndInv /\ TrechoInv /\ FielInv /\ TypeOK /\ FormaInv
        BY <2>2 DEF IndInv
      <3> QED
        BY <2>2, <3>1, TrechoPreservado, FielPreservado
    <2> QED
      BY <2>1, <2>2 DEF Next
  <1>3. Inv /\ [Next]_vars => [TransacaoAtomica]_<<estado, etapas>>
    <2> SUFFICES ASSUME IndInv, TrechoInv, FielInv,
                        NEW c \in Chamadas, Andar(c) \/ Falhar(c) \/ FalharComando(c),
                        ~UNCHANGED <<estado, etapas>>
                 PROVE  TransacaoAtomica
      BY DEF Next, vars
    <2>0. TypeOK /\ FormaInv /\ OrdemInv /\ TransacaoInteira /\ AbertaInteira
      BY DEF IndInv
    <2>1. Gravar(c)
      BY <2>0, Efeito DEF SemNadaGravar, Escrever, InserirEtapa, Retirar, Descartar
    <2>2. pc[c] = "fn" /\ etapas' = etapas \union novas[c]
      BY <2>1 DEF Gravar, Publicar
    <2>3. \A e \in novas[c] : e \notin etapas
      <3> SUFFICES ASSUME NEW e \in novas[c], e \in etapas PROVE FALSE
        OBVIOUS
      <3>1. e.id < e.id /\ e.id \in Nat
        BY <2>0 DEF OrdemInv, TypeOK, TaskSteps
      <3> QED
        BY <3>1
    <2>4. etapas' \ etapas = novas[c]
      BY <2>2, <2>3
    <2>5. Gravadas(etapas, c) = {} /\ Gravadas(novas[c], c) = Feitas(c)
      BY <2>0, <2>2 DEF TransacaoInteira, AbertaInteira
    <2>6. Gravadas(etapas', c) = Feitas(c)
      BY <2>2, <2>5 DEF Gravadas
    <2>7. (\A e \in novas[c] : e.chamada = c) /\ Fiel(novas[c], c)
      BY <2>0 DEF FormaInv, FielInv
    <2>8. ASSUME NEW run \in Existentes
          PROVE  Cadeia(EtapasDe(novas[c], run), estado[run], estado'[run])
      <3>1. Corrente(c, run) = Vista(c, run) /\ estado'[run] = Vista(c, run)
        BY <2>1, <2>2 DEF Gravar, Publicar, Corrente
      <3> QED
        BY <3>1 DEF TrechoInv
    <2> QED
      BY <2>2, <2>4, <2>5, <2>6, <2>7, <2>8 DEF TransacaoAtomica
  <1> QED
    BY <1>1, <1>2, <1>3, Invariante, PTL DEF Spec

------------------------------------------------------------------------------
(* Somebody can always go on, and each step brings its call nearer to its end *)

Abertas == {c \in Chamadas : pc[c] \notin {"confirmada", "erro"}}

(* The call has a step to take, without its function giving up: its statement
   answers, its transaction ends, or the database breaks its deadlock. *)
Pronta(c) ==
  \/ pc[c] \in {"livre", "inserir", "conferir"}
  \/ pc[c] = "fn" /\ passo[c] > Passos[c]
  \/ pc[c] = "fn" /\ passo[c] <= Passos[c] /\ ~Espera(c)
  \/ Espera(c) /\ EmImpasse(c)

(* EmTransacao: whatever rows the open transactions keep locked, they do not all
   wait, unless for one another. *)
NemTodasPresas == Abertas # {} => \E c \in Abertas : Pronta(c)

(* How many steps a call has left at most. *)
Falta(c) ==
  CASE pc[c] = "livre" -> 3 * Passos[c] + 2
    [] pc[c] = "fn" -> 3 * ((Passos[c] + 1) - passo[c]) + 1
    [] pc[c] \in {"inserir", "conferir"} -> 3 * ((Passos[c] + 1) - passo[c])
    [] OTHER -> 0

FaltaContada == \A c \in Chamadas : Falta(c) \in Nat

(* TransicionarTaskRun: every step of a call brings it nearer to its end, an
   update refused for a deadlock too, and leaves the others where they are. *)
Aproxima ==
  \A c \in Chamadas :
    /\ Andar(c) \/ Falhar(c) \/ FalharComando(c) => Falta(c)' < Falta(c)
    /\ Falta(c)' <= Falta(c)

(* When every open call waits, they wait for one another. *)
LEMMA SempreHaSaida == IndInv => NemTodasPresas
  <1> SUFFICES ASSUME IndInv, NEW c \in Abertas, \A d \in Abertas : ~Pronta(d) PROVE FALSE
    BY DEF NemTodasPresas
  <1>0. TypeOK /\ FormaInv /\ Abertas \subseteq Chamadas
    BY DEF IndInv, Abertas
  <1>1. ASSUME NEW d \in Abertas PROVE Espera(d)
    <2>1. pc[d] = "fn" /\ passo[d] \in Nat /\ Passos[d] \in Nat
      BY <1>0, TaskRunsAssumption DEF Abertas, Pronta, TypeOK, Etapas
    <2> QED
      BY <2>1 DEF Pronta
  <1>2. ASSUME NEW d \in Abertas
        PROVE  \E e \in Abertas \ {d} : versao[e][Atual(d).run] # Nenhum
    <2>1. PICK e \in Chamadas \ {d} : versao[e][Atual(d).run] # Nenhum
      BY <1>1 DEF Espera, Trancada
    <2>2. Atual(d).run \in Existentes
      BY <1>1 DEF Espera, Casa
    <2>3. e \in Abertas
      BY <1>0, <2>1, <2>2 DEF FormaInv, Abertas
    <2> QED
      BY <2>1, <2>3
  <1>3. EmImpasse(c)
    BY <1>0, <1>1, <1>2 DEF EmImpasse
  <1> QED
    BY <1>1, <1>3 DEF Pronta

PassoContido == \A c \in Chamadas : passo[c] <= Passos[c] + 1

LEMMA FaltaNatural ==
  ASSUME TypeOK, FormaInv, PassoContido, NEW c \in Chamadas
  PROVE  Falta(c) \in Nat
  <1>1. passo[c] \in Nat \ {0} /\ Passos[c] \in Nat \ {0} /\ passo[c] <= Passos[c] + 1
    BY TaskRunsAssumption DEF TypeOK, PassoContido
  <1>2. (Passos[c] + 1) - passo[c] \in Nat
    BY <1>1
  <1> QED
    BY <1>1, <1>2 DEF Falta

LEMMA PassoReduz ==
  ASSUME TypeOK, FormaInv, PassoContido,
         NEW c \in Chamadas, Andar(c) \/ Falhar(c) \/ FalharComando(c)
  PROVE  Falta(c)' < Falta(c) /\ passo'[c] <= Passos[c] + 1
  <1> DEFINE n == Passos[c]
             p == passo[c]
  <1> SUFFICES Falta(c)' < Falta(c) /\ passo'[c] <= n + 1
    OBVIOUS
  <1>0. n \in Nat /\ p \in Nat /\ 1 <= p /\ p <= n + 1
    BY TaskRunsAssumption DEF TypeOK, PassoContido
  <1>a. ASSUME NEW para, Ir(c, para) PROVE pc'[c] = para
    BY <1>a DEF Ir, TypeOK
  <1>b. ASSUME NEW r, Devolver(c, r), pc[c] \in {"fn", "inserir", "conferir"}, p <= n
        PROVE  Falta(c)' < Falta(c) /\ passo'[c] <= n + 1
    <2>1. pc'[c] = "fn" /\ passo'[c] = p + 1
      BY <1>a, <1>b DEF Devolver, TypeOK
    <2>2. Falta(c)' = 3 * ((n + 1) - (p + 1)) + 1
      BY <2>1 DEF Falta
    <2>3. Falta(c) \in {3 * ((n + 1) - p) + 1, 3 * ((n + 1) - p)}
      BY <1>b DEF Falta
    <2> HIDE DEF n, p
    <2> QED
      BY <1>0, <1>b, <2>1, <2>2, <2>3
  <1>c. ASSUME pc[c] \in {"livre", "fn", "inserir", "conferir"}, pc'[c] \in {"confirmada", "erro"},
               passo' = passo
        PROVE  Falta(c)' < Falta(c) /\ passo'[c] <= n + 1
    <2>1. Falta(c)' = 0
      BY <1>c DEF Falta
    <2>2. pc[c] \in {"inserir", "conferir"} => p <= n
      BY DEF FormaInv
    <2>3. \/ Falta(c) = 3 * n + 2
          \/ Falta(c) = 3 * ((n + 1) - p) + 1
          \/ Falta(c) = 3 * ((n + 1) - p) /\ p <= n
      BY <1>c, <2>2 DEF Falta
    <2>4. passo'[c] = p
      BY <1>c
    <2> HIDE DEF n, p
    <2> QED
      BY <1>0, <2>1, <2>3, <2>4
  <1>1. CASE Abrir(c)
    <2>1. pc[c] = "livre" /\ pc'[c] = "fn" /\ passo'[c] = p
      BY <1>1, <1>a DEF Abrir
    <2>2. Falta(c) = 3 * n + 2 /\ Falta(c)' = 3 * ((n + 1) - p) + 1
      BY <2>1 DEF Falta
    <2> HIDE DEF n, p
    <2> QED
      BY <1>0, <2>1, <2>2
  <1>2. CASE Validar(c)
    BY <1>2, <1>b DEF Validar
  <1>3. CASE Atualizar(c)
    <2>1. pc[c] = "fn" /\ pc'[c] \in {"inserir", "conferir"} /\ passo'[c] = p
      BY <1>3, <1>a DEF Atualizar
    <2>2. Falta(c) = 3 * ((n + 1) - p) + 1 /\ Falta(c)' = 3 * ((n + 1) - p)
      BY <2>1 DEF Falta
    <2> HIDE DEF n, p
    <2> QED
      BY <1>0, <2>1, <2>2
  <1>4. CASE InserirEtapa(c)
    BY <1>4, <1>b DEF InserirEtapa, FormaInv
  <1>5. CASE Conferir(c)
    BY <1>5, <1>b DEF Conferir, FormaInv
  <1>6. CASE Impasse(c)
    BY <1>6, <1>b DEF Impasse, Espera
  <1>7. CASE Desfazer(c)
    BY <1>7, <1>a, <1>c DEF Desfazer
  <1>8. CASE Confirmar(c)
    BY <1>8, <1>a, <1>c DEF Confirmar
  <1>9. CASE Falhar(c)
    BY <1>9, <1>a, <1>c DEF Falhar
  <1>10. CASE FalharComando(c)
    BY <1>10, <1>b DEF FalharComando, FormaInv
  <1> QED
    BY <1>1, <1>2, <1>3, <1>4, <1>5, <1>6, <1>7, <1>8, <1>9, <1>10 DEF Andar

(* EmTransacao: for any calls, the open ones do not all wait unless the database
   breaks their deadlock, and each takes a bounded number of steps, whatever the
   others do and however often it is refused. *)
THEOREM TodaChamadaAvanca == Spec => []NemTodasPresas /\ []FaltaContada /\ [][Aproxima]_vars
  <1>1. Init => PassoContido
    <2> SUFFICES ASSUME Init, NEW c \in Chamadas PROVE passo[c] <= Passos[c] + 1
      BY DEF PassoContido
    <2>1. passo[c] = 1 /\ Passos[c] \in Nat
      BY TaskRunsAssumption DEF Init
    <2> QED
      BY <2>1
  <1>2. IndInv /\ PassoContido => FaltaContada
    BY FaltaNatural DEF IndInv, FaltaContada
  <1>3. IndInv /\ PassoContido /\ [Next]_vars => PassoContido'
    <2>1. ASSUME PassoContido, UNCHANGED vars PROVE PassoContido'
      BY <2>1 DEF PassoContido, vars
    <2>2. ASSUME IndInv, PassoContido,
                 NEW c \in Chamadas, Andar(c) \/ Falhar(c) \/ FalharComando(c)
          PROVE PassoContido'
      <3> SUFFICES ASSUME NEW d \in Chamadas PROVE passo'[d] <= Passos[d] + 1
        BY DEF PassoContido
      <3>1. CASE d = c
        BY <2>2, <3>1, PassoReduz DEF IndInv
      <3>2. CASE d # c
        <4>1. passo'[d] = passo[d]
          BY <2>2, <3>2, SoUmaAnda DEF IndInv
        <4> QED
          BY <2>2, <4>1 DEF PassoContido
      <3> QED
        BY <3>1, <3>2
    <2> QED
      BY <2>1, <2>2 DEF Next
  <1>4. IndInv /\ PassoContido /\ FaltaContada /\ FaltaContada' /\ [Next]_vars => [Aproxima]_vars
    <2> SUFFICES ASSUME IndInv, PassoContido, FaltaContada, FaltaContada', Next,
                        NEW c \in Chamadas
                 PROVE  /\ Andar(c) \/ Falhar(c) \/ FalharComando(c) => Falta(c)' < Falta(c)
                        /\ Falta(c)' <= Falta(c)
      BY DEF Aproxima
    <2>0. TypeOK /\ FormaInv /\ Falta(c) \in Nat /\ Falta(c)' \in Nat
      BY DEF IndInv, FaltaContada
    <2>1. Andar(c) \/ Falhar(c) \/ FalharComando(c) => Falta(c)' < Falta(c)
      BY <2>0, PassoReduz
    <2>2. ASSUME NEW d \in Chamadas, Andar(d) \/ Falhar(d) \/ FalharComando(d), d # c PROVE Falta(c)' = Falta(c)
      BY <2>0, <2>2, SoUmaAnda DEF Falta
    <2> QED
      BY <2>0, <2>1, <2>2 DEF Next
  <1> QED
    BY <1>1, <1>2, <1>3, <1>4, SempreHaSaida, Invariante, PTL DEF Spec
==============================================================================
