---------------------------- MODULE Processo_proofs ----------------------------
(* Proofs about Processo.  The inductive invariant IndInv ties what is open to
   the phase of executar, and what a request may still do to the server: once
   Shutdown returned without an error no request is left and none will come. *)
EXTENDS Processo, TLAPS

------------------------------------------------------------------------------
(* The inductive invariant, in named parts. *)

AntesDeServir == {"config", "executor", "postgres", "redis", "montagem"}

(* What is open in each phase; the pool closes only when nobody uses it. *)
FaseInv ==
  /\ fase \in {"config", "executor", "postgres"} => pool = "nenhum" /\ redis = "nenhum"
  /\ fase = "redis" => pool = "aberto" /\ redis = "nenhum"
  /\ fase \in {"montagem", "servindo", "desligando", "fechar_redis"} =>
       pool = "aberto" /\ redis = "aberto"
  /\ fase = "fechar_pool" => pool \in {"aberto", "fechando"} /\ redis \in {"nenhum", "fechado"}
  /\ NadaAbertoNemCortado

(* Nothing is accepted before the server starts, by the worker, or after
   Shutdown began. *)
EscutaInv ==
  /\ fase \in AntesDeServir \/ programa = "worker" => escuta = "nenhuma"
  /\ fase = "montagem" => programa = "api"
  /\ fase = "desligando" => encerrando /\ sinal
  /\ escuta = "aceitando" => ~encerrando
  /\ escuta = "nenhuma" => \A r \in Requisicoes : req[r] = "fora"

(* How far a request is tells what it has done; a check that succeeded saw its
   dependency while the probe ran. *)
PedidoInv ==
  \A r \in Requisicoes :
    /\ req[r] \in {"fora", "aceita"} => \A d \in Dependencias : verif[r][d] = "nenhuma"
    /\ req[r] \in {"conexao", "resposta"} => r \in Webhooks
    /\ r \in Prontidoes =>
         /\ req[r] = "tratando" => saudaveis \subseteq vistas[r]
         /\ \A d \in Dependencias : verif[r][d] = "ok" => d \in vistas[r]
         /\ status[r] # 0 => req[r] = "respondida"

(* Once executar is on its way out without an error no request is left, and none
   will come; until redis is closed every request finds its dependencies open. *)
SaidaInv ==
  /\ fase \notin {"fechar_pool", "fim"} => negadas = {}
  /\ codigo = "zero" => fase = "fim"
  /\ (fase \in {"fechar_redis", "fechar_pool"} /\ ~erro) \/ codigo = "zero" =>
       /\ sinal /\ negadas = {} /\ (encerrando \/ programa = "worker")
       /\ \A r \in Requisicoes : req[r] \notin EmCurso

IndInv == TypeOK /\ FaseInv /\ EscutaInv /\ PedidoInv /\ SaidaInv /\ ProntidaoFiel

------------------------------------------------------------------------------
LEMMA InitIndInv == Init => IndInv
  <1> SUFFICES ASSUME Init PROVE IndInv
    OBVIOUS
  <1>1. TypeOK
    BY ProcessoAssumption DEF Init, TypeOK, Fases, Escutas, Lugares, EmCurso, Verificacoes
  <1>2. FaseInv /\ EscutaInv /\ SaidaInv
    BY DEF Init, FaseInv, NadaAbertoNemCortado, EscutaInv, SaidaInv
  <1>3. PedidoInv /\ ProntidaoFiel
    BY ProcessoAssumption DEF Init, PedidoInv, ProntidaoFiel
  <1> QED
    BY <1>1, <1>2, <1>3 DEF IndInv

(* Before the server starts nothing is in use. *)
LEMMA NadaEmUso ==
  ASSUME EscutaInv, PedidoInv, escuta = "nenhuma"
  PROVE  Ocupantes = {}
  BY DEF EscutaInv, PedidoInv, Ocupantes, Dependencias

(* A step of the main goroutine keeps the invariant. *)
LEMMA PassoDoPrincipal ==
  ASSUME IndInv, Executar
  PROVE  IndInv'
  <1>0. TypeOK /\ FaseInv /\ EscutaInv /\ PedidoInv /\ SaidaInv /\ ProntidaoFiel
    BY DEF IndInv
  <1>v. fase \in AntesDeServir => Ocupantes = {}
    BY <1>0, NadaEmUso DEF EscutaInv
  <1>1. CASE Carregar
    <2>1. TypeOK'
      BY <1>0, <1>1 DEF Carregar, Sair, Ir, recursos, servidor, pedidos, TypeOK, Fases,
         Escutas, Lugares, EmCurso, Verificacoes, Dependencias
    <2>2. FaseInv'
      BY <1>0, <1>1, <1>v DEF Carregar, Sair, Ir, recursos, servidor, pedidos, TypeOK,
         FaseInv, NadaAbertoNemCortado, Ocupantes, AntesDeServir
    <2>3. EscutaInv'
      BY <1>0, <1>1 DEF Carregar, Sair, Ir, recursos, servidor, pedidos, TypeOK, EscutaInv,
         AntesDeServir
    <2>4. PedidoInv'
      BY <1>0, <1>1 DEF Carregar, Sair, Ir, recursos, servidor, pedidos, TypeOK, PedidoInv,
         Dependencias
    <2>5. SaidaInv'
      BY <1>0, <1>1 DEF Carregar, Sair, Ir, recursos, servidor, pedidos, TypeOK, SaidaInv,
         EscutaInv, EmCurso, AntesDeServir, FaseInv
    <2>6. ProntidaoFiel'
      BY <1>0, <1>1 DEF Carregar, Sair, Ir, recursos, servidor, pedidos, TypeOK, PedidoInv,
         ProntidaoFiel
    <2> QED
      BY <2>1, <2>2, <2>3, <2>4, <2>5, <2>6 DEF IndInv
  <1>2. CASE MontarExecutor
    <2>1. TypeOK'
      BY <1>0, <1>2 DEF MontarExecutor, Sair, Ir, recursos, servidor, pedidos, TypeOK, Fases,
         Escutas, Lugares, EmCurso, Verificacoes, Dependencias
    <2>2. FaseInv'
      BY <1>0, <1>2, <1>v DEF MontarExecutor, Sair, Ir, recursos, servidor, pedidos, TypeOK,
         FaseInv, NadaAbertoNemCortado, Ocupantes, AntesDeServir
    <2>3. EscutaInv'
      BY <1>0, <1>2 DEF MontarExecutor, Sair, Ir, recursos, servidor, pedidos, TypeOK,
         EscutaInv, AntesDeServir
    <2>4. PedidoInv'
      BY <1>0, <1>2 DEF MontarExecutor, Sair, Ir, recursos, servidor, pedidos, TypeOK,
         PedidoInv, Dependencias
    <2>5. SaidaInv'
      BY <1>0, <1>2 DEF MontarExecutor, Sair, Ir, recursos, servidor, pedidos, TypeOK,
         SaidaInv, EscutaInv, EmCurso, AntesDeServir, FaseInv
    <2>6. ProntidaoFiel'
      BY <1>0, <1>2 DEF MontarExecutor, Sair, Ir, recursos, servidor, pedidos, TypeOK,
         PedidoInv, ProntidaoFiel
    <2> QED
      BY <2>1, <2>2, <2>3, <2>4, <2>5, <2>6 DEF IndInv
  <1>3. CASE ConectarPostgres
    <2>1. TypeOK'
      BY <1>0, <1>3 DEF ConectarPostgres, Sair, Ir, recursos, servidor, pedidos, TypeOK,
         Fases, Escutas, Lugares, EmCurso, Verificacoes, Dependencias
    <2>2. FaseInv'
      BY <1>0, <1>3, <1>v DEF ConectarPostgres, Sair, Ir, recursos, servidor, pedidos, TypeOK,
         FaseInv, NadaAbertoNemCortado, Ocupantes, AntesDeServir
    <2>3. EscutaInv'
      BY <1>0, <1>3 DEF ConectarPostgres, Sair, Ir, recursos, servidor, pedidos, TypeOK,
         EscutaInv, AntesDeServir
    <2>4. PedidoInv'
      BY <1>0, <1>3 DEF ConectarPostgres, Sair, Ir, recursos, servidor, pedidos, TypeOK,
         PedidoInv, Dependencias
    <2>5. SaidaInv'
      BY <1>0, <1>3 DEF ConectarPostgres, Sair, Ir, recursos, servidor, pedidos, TypeOK,
         SaidaInv, EscutaInv, EmCurso, AntesDeServir, FaseInv
    <2>6. ProntidaoFiel'
      BY <1>0, <1>3 DEF ConectarPostgres, Sair, Ir, recursos, servidor, pedidos, TypeOK,
         PedidoInv, ProntidaoFiel
    <2> QED
      BY <2>1, <2>2, <2>3, <2>4, <2>5, <2>6 DEF IndInv
  <1>4. CASE ConectarRedis
    <2>1. TypeOK'
      <3>1. erro' \in BOOLEAN
        BY <1>0, <1>4, Zenon DEF ConectarRedis, TypeOK
      <3> QED
        BY <1>0, <1>4, <3>1 DEF ConectarRedis, Ir, recursos, servidor, pedidos, TypeOK, Fases
    <2>2. FaseInv'
      BY <1>0, <1>4, <1>v DEF ConectarRedis, Ir, recursos, servidor, pedidos, TypeOK, FaseInv,
         NadaAbertoNemCortado, Ocupantes, AntesDeServir
    <2>3. EscutaInv'
      BY <1>0, <1>4 DEF ConectarRedis, Ir, recursos, servidor, pedidos, TypeOK, EscutaInv,
         AntesDeServir
    <2>4. PedidoInv'
      BY <1>0, <1>4 DEF ConectarRedis, Ir, recursos, servidor, pedidos, TypeOK, PedidoInv,
         Dependencias
    <2>5. SaidaInv'
      BY <1>0, <1>4 DEF ConectarRedis, Ir, recursos, servidor, pedidos, TypeOK, SaidaInv,
         EscutaInv, EmCurso, AntesDeServir, FaseInv
    <2>6. ProntidaoFiel'
      BY <1>0, <1>4 DEF ConectarRedis, Ir, recursos, servidor, pedidos, TypeOK, PedidoInv,
         ProntidaoFiel
    <2> QED
      BY <2>1, <2>2, <2>3, <2>4, <2>5, <2>6 DEF IndInv
  <1>5. CASE Montar
    <2>1. TypeOK'
      <3>1. erro' \in BOOLEAN
        BY <1>0, <1>5, Zenon DEF Montar, Retornar, TypeOK
      <3> QED
        BY <1>0, <1>5, <3>1 DEF Montar, Retornar, Ir, recursos, servidor, pedidos, TypeOK, Fases,
                               Escutas
    <2>2. FaseInv'
      BY <1>0, <1>5, <1>v DEF Montar, Retornar, Ir, recursos, servidor, pedidos, TypeOK,
         FaseInv, NadaAbertoNemCortado, Ocupantes, AntesDeServir
    <2>3. EscutaInv'
      BY <1>0, <1>5 DEF Montar, Retornar, Ir, recursos, servidor, pedidos, TypeOK, EscutaInv,
         AntesDeServir
    <2>4. PedidoInv'
      BY <1>0, <1>5 DEF Montar, Retornar, Ir, recursos, servidor, pedidos, TypeOK, PedidoInv,
         Dependencias
    <2>5. SaidaInv'
      BY <1>0, <1>5 DEF Montar, Retornar, Ir, recursos, servidor, pedidos, TypeOK, SaidaInv,
         EscutaInv, EmCurso, AntesDeServir, FaseInv
    <2>6. ProntidaoFiel'
      BY <1>0, <1>5 DEF Montar, Retornar, Ir, recursos, servidor, pedidos, TypeOK, PedidoInv,
         ProntidaoFiel
    <2> QED
      BY <2>1, <2>2, <2>3, <2>4, <2>5, <2>6 DEF IndInv
  <1>6. CASE EncerrarWorker
    <2>1. TypeOK'
      <3>1. /\ fase' = "fechar_redis" /\ erro' = FALSE
            /\ UNCHANGED <<programa, codigo, sinal, recursos, servidor, pedidos, saudaveis>>
        BY <1>6 DEF EncerrarWorker, Retornar, Ir
      <3>2. fase' \in Fases /\ erro' \in BOOLEAN
        BY <3>1 DEF Fases
      <3>3. TypeOK
        BY <1>0
      <3> QED
        BY <3>1, <3>2, <3>3 DEF recursos, servidor, pedidos, TypeOK
    <2>2. FaseInv'
      BY <1>0, <1>6, <1>v DEF EncerrarWorker, Retornar, Ir, recursos, servidor, pedidos,
         TypeOK, FaseInv, NadaAbertoNemCortado, Ocupantes, AntesDeServir
    <2>3. EscutaInv'
      BY <1>0, <1>6 DEF EncerrarWorker, Retornar, Ir, recursos, servidor, pedidos, TypeOK,
         EscutaInv, AntesDeServir
    <2>4. PedidoInv'
      BY <1>0, <1>6 DEF EncerrarWorker, Retornar, Ir, recursos, servidor, pedidos, TypeOK,
         PedidoInv, Dependencias
    <2>5. SaidaInv'
      BY <1>0, <1>6 DEF EncerrarWorker, Retornar, Ir, recursos, servidor, pedidos, TypeOK,
         SaidaInv, EscutaInv, EmCurso, AntesDeServir, FaseInv
    <2>6. ProntidaoFiel'
      BY <1>0, <1>6 DEF EncerrarWorker, Retornar, Ir, recursos, servidor, pedidos, TypeOK,
         PedidoInv, ProntidaoFiel
    <2> QED
      BY <2>1, <2>2, <2>3, <2>4, <2>5, <2>6 DEF IndInv
  <1>7. CASE DesistirDaEscuta
    <2>1. TypeOK'
      BY <1>0, <1>7 DEF DesistirDaEscuta, Retornar, Ir, recursos, servidor, pedidos, TypeOK,
         Fases, Escutas, Lugares, EmCurso, Verificacoes, Dependencias
    <2>2. FaseInv'
      BY <1>0, <1>7, <1>v DEF DesistirDaEscuta, Retornar, Ir, recursos, servidor, pedidos,
         TypeOK, FaseInv, NadaAbertoNemCortado, Ocupantes, AntesDeServir
    <2>3. EscutaInv'
      BY <1>0, <1>7 DEF DesistirDaEscuta, Retornar, Ir, recursos, servidor, pedidos, TypeOK,
         EscutaInv, AntesDeServir
    <2>4. PedidoInv'
      BY <1>0, <1>7 DEF DesistirDaEscuta, Retornar, Ir, recursos, servidor, pedidos, TypeOK,
         PedidoInv, Dependencias
    <2>5. SaidaInv'
      BY <1>0, <1>7 DEF DesistirDaEscuta, Retornar, Ir, recursos, servidor, pedidos, TypeOK,
         SaidaInv, EscutaInv, EmCurso, AntesDeServir, FaseInv
    <2>6. ProntidaoFiel'
      BY <1>0, <1>7 DEF DesistirDaEscuta, Retornar, Ir, recursos, servidor, pedidos, TypeOK,
         PedidoInv, ProntidaoFiel
    <2> QED
      BY <2>1, <2>2, <2>3, <2>4, <2>5, <2>6 DEF IndInv
  <1>8. CASE ComecarDesligamento
    <2>1. TypeOK'
      BY <1>0, <1>8 DEF ComecarDesligamento, Ir, recursos, servidor, pedidos, TypeOK, Fases,
         Escutas, Lugares, EmCurso, Verificacoes, Dependencias
    <2>2. FaseInv'
      BY <1>0, <1>8, <1>v DEF ComecarDesligamento, Ir, recursos, servidor, pedidos, TypeOK,
         FaseInv, NadaAbertoNemCortado, Ocupantes, AntesDeServir
    <2>3. EscutaInv'
      BY <1>0, <1>8 DEF ComecarDesligamento, Ir, recursos, servidor, pedidos, TypeOK,
         EscutaInv, AntesDeServir
    <2>4. PedidoInv'
      BY <1>0, <1>8 DEF ComecarDesligamento, Ir, recursos, servidor, pedidos, TypeOK,
         PedidoInv, Dependencias
    <2>5. SaidaInv'
      BY <1>0, <1>8 DEF ComecarDesligamento, Ir, recursos, servidor, pedidos, TypeOK,
         SaidaInv, EscutaInv, EmCurso, AntesDeServir, FaseInv
    <2>6. ProntidaoFiel'
      BY <1>0, <1>8 DEF ComecarDesligamento, Ir, recursos, servidor, pedidos, TypeOK,
         PedidoInv, ProntidaoFiel
    <2> QED
      BY <2>1, <2>2, <2>3, <2>4, <2>5, <2>6 DEF IndInv
  <1>9. CASE Desligar
    <2>1. TypeOK'
      BY <1>0, <1>9 DEF Desligar, Retornar, Ir, HaEmCurso, recursos, servidor, pedidos,
         TypeOK, Fases, Escutas, Lugares, EmCurso, Verificacoes, Dependencias
    <2>2. FaseInv'
      BY <1>0, <1>9, <1>v DEF Desligar, Retornar, Ir, HaEmCurso, recursos, servidor, pedidos,
         TypeOK, FaseInv, NadaAbertoNemCortado, Ocupantes, AntesDeServir
    <2>3. EscutaInv'
      BY <1>0, <1>9 DEF Desligar, Retornar, Ir, HaEmCurso, recursos, servidor, pedidos,
         TypeOK, EscutaInv, AntesDeServir
    <2>4. PedidoInv'
      BY <1>0, <1>9 DEF Desligar, Retornar, Ir, HaEmCurso, recursos, servidor, pedidos,
         TypeOK, PedidoInv, Dependencias
    <2>5. SaidaInv'
      BY <1>0, <1>9 DEF Desligar, Retornar, Ir, HaEmCurso, recursos, servidor, pedidos,
         TypeOK, SaidaInv, EscutaInv, EmCurso, AntesDeServir, FaseInv
    <2>6. ProntidaoFiel'
      BY <1>0, <1>9 DEF Desligar, Retornar, Ir, HaEmCurso, recursos, servidor, pedidos,
         TypeOK, PedidoInv, ProntidaoFiel
    <2> QED
      BY <2>1, <2>2, <2>3, <2>4, <2>5, <2>6 DEF IndInv
  <1>10. CASE FecharRedis
    <2>1. TypeOK'
      BY <1>0, <1>10 DEF FecharRedis, Ir, recursos, servidor, pedidos, TypeOK, Fases, Escutas,
         Lugares, EmCurso, Verificacoes, Dependencias
    <2>2. FaseInv'
      BY <1>0, <1>10, <1>v DEF FecharRedis, Ir, recursos, servidor, pedidos, TypeOK, FaseInv,
         NadaAbertoNemCortado, Ocupantes, AntesDeServir
    <2>3. EscutaInv'
      BY <1>0, <1>10 DEF FecharRedis, Ir, recursos, servidor, pedidos, TypeOK, EscutaInv,
         AntesDeServir
    <2>4. PedidoInv'
      BY <1>0, <1>10 DEF FecharRedis, Ir, recursos, servidor, pedidos, TypeOK, PedidoInv,
         Dependencias
    <2>5. SaidaInv'
      BY <1>0, <1>10 DEF FecharRedis, Ir, recursos, servidor, pedidos, TypeOK, SaidaInv,
         EscutaInv, EmCurso, AntesDeServir, FaseInv
    <2>6. ProntidaoFiel'
      BY <1>0, <1>10 DEF FecharRedis, Ir, recursos, servidor, pedidos, TypeOK, PedidoInv,
         ProntidaoFiel
    <2> QED
      BY <2>1, <2>2, <2>3, <2>4, <2>5, <2>6 DEF IndInv
  <1>11. CASE FecharPool
    <2>1. TypeOK'
      BY <1>0, <1>11 DEF FecharPool, Sair, Ir, recursos, servidor, pedidos, TypeOK, Fases,
         Escutas, Lugares, EmCurso, Verificacoes, Dependencias
    <2>2. FaseInv'
      BY <1>0, <1>11, <1>v DEF FecharPool, Sair, Ir, recursos, servidor, pedidos, TypeOK,
         FaseInv, NadaAbertoNemCortado, Ocupantes, AntesDeServir
    <2>3. EscutaInv'
      BY <1>0, <1>11 DEF FecharPool, Sair, Ir, recursos, servidor, pedidos, TypeOK, EscutaInv,
         AntesDeServir
    <2>4. PedidoInv'
      BY <1>0, <1>11 DEF FecharPool, Sair, Ir, recursos, servidor, pedidos, TypeOK, PedidoInv,
         Dependencias
    <2>5. SaidaInv'
      BY <1>0, <1>11 DEF FecharPool, Sair, Ir, recursos, servidor, pedidos, TypeOK, SaidaInv,
         EscutaInv, EmCurso, AntesDeServir, FaseInv
    <2>6. ProntidaoFiel'
      BY <1>0, <1>11 DEF FecharPool, Sair, Ir, recursos, servidor, pedidos, TypeOK, PedidoInv,
         ProntidaoFiel
    <2> QED
      BY <2>1, <2>2, <2>3, <2>4, <2>5, <2>6 DEF IndInv
  <1> QED
    BY <1>1, <1>2, <1>3, <1>4, <1>5, <1>6, <1>7, <1>8, <1>9, <1>10, <1>11 DEF Executar

(* A signal, or a step of the goroutine of ListenAndServe. *)
LEMMA PassoDaEscuta ==
  ASSUME IndInv, Sinalizar \/ Escutar \/ FalharAceite
  PROVE  IndInv'
  <1>0. TypeOK /\ FaseInv /\ EscutaInv /\ PedidoInv /\ SaidaInv /\ ProntidaoFiel
    BY DEF IndInv
  <1>v. fase \in AntesDeServir => Ocupantes = {}
    BY <1>0, NadaEmUso DEF EscutaInv
  <1>1. CASE Sinalizar
    <2>1. TypeOK'
      BY <1>0, <1>1 DEF Sinalizar, Vivo, principal, recursos, servidor, pedidos, TypeOK,
         Fases, Escutas, Lugares, EmCurso, Verificacoes, Dependencias
    <2>2. FaseInv'
      BY <1>0, <1>1, <1>v DEF Sinalizar, Vivo, principal, recursos, servidor, pedidos, TypeOK,
         FaseInv, NadaAbertoNemCortado, Ocupantes, AntesDeServir
    <2>3. EscutaInv'
      BY <1>0, <1>1 DEF Sinalizar, Vivo, principal, recursos, servidor, pedidos, TypeOK,
         EscutaInv, AntesDeServir
    <2>4. PedidoInv'
      BY <1>0, <1>1 DEF Sinalizar, Vivo, principal, recursos, servidor, pedidos, TypeOK,
         PedidoInv, Dependencias
    <2>5. SaidaInv'
      BY <1>0, <1>1 DEF Sinalizar, Vivo, principal, recursos, servidor, pedidos, TypeOK,
         SaidaInv, EscutaInv, EmCurso, AntesDeServir
    <2>6. ProntidaoFiel'
      BY <1>0, <1>1 DEF Sinalizar, Vivo, principal, recursos, servidor, pedidos, TypeOK,
         PedidoInv, ProntidaoFiel
    <2> QED
      BY <2>1, <2>2, <2>3, <2>4, <2>5, <2>6 DEF IndInv
  <1>2. CASE Escutar
    <2>1. TypeOK'
      BY <1>0, <1>2 DEF Escutar, IrEscuta, Vivo, principal, recursos, servidor, pedidos,
         TypeOK, Fases, Escutas, Lugares, EmCurso, Verificacoes, Dependencias
    <2>2. FaseInv'
      BY <1>0, <1>2, <1>v DEF Escutar, IrEscuta, Vivo, principal, recursos, servidor, pedidos,
         TypeOK, FaseInv, NadaAbertoNemCortado, Ocupantes, AntesDeServir
    <2>3. EscutaInv'
      BY <1>0, <1>2 DEF Escutar, IrEscuta, Vivo, principal, recursos, servidor, pedidos,
         TypeOK, EscutaInv, AntesDeServir
    <2>4. PedidoInv'
      BY <1>0, <1>2 DEF Escutar, IrEscuta, Vivo, principal, recursos, servidor, pedidos,
         TypeOK, PedidoInv, Dependencias
    <2>5. SaidaInv'
      BY <1>0, <1>2 DEF Escutar, IrEscuta, Vivo, principal, recursos, servidor, pedidos,
         TypeOK, SaidaInv, EscutaInv, EmCurso, AntesDeServir
    <2>6. ProntidaoFiel'
      BY <1>0, <1>2 DEF Escutar, IrEscuta, Vivo, principal, recursos, servidor, pedidos,
         TypeOK, PedidoInv, ProntidaoFiel
    <2> QED
      BY <2>1, <2>2, <2>3, <2>4, <2>5, <2>6 DEF IndInv
  <1>3. CASE FalharAceite
    <2>1. TypeOK'
      BY <1>0, <1>3 DEF FalharAceite, IrEscuta, Vivo, principal, recursos, servidor, pedidos,
         TypeOK, Fases, Escutas, Lugares, EmCurso, Verificacoes, Dependencias
    <2>2. FaseInv'
      BY <1>0, <1>3, <1>v DEF FalharAceite, IrEscuta, Vivo, principal, recursos, servidor,
         pedidos, TypeOK, FaseInv, NadaAbertoNemCortado, Ocupantes, AntesDeServir
    <2>3. EscutaInv'
      BY <1>0, <1>3 DEF FalharAceite, IrEscuta, Vivo, principal, recursos, servidor, pedidos,
         TypeOK, EscutaInv, AntesDeServir
    <2>4. PedidoInv'
      BY <1>0, <1>3 DEF FalharAceite, IrEscuta, Vivo, principal, recursos, servidor, pedidos,
         TypeOK, PedidoInv, Dependencias
    <2>5. SaidaInv'
      BY <1>0, <1>3 DEF FalharAceite, IrEscuta, Vivo, principal, recursos, servidor, pedidos,
         TypeOK, SaidaInv, EscutaInv, EmCurso, AntesDeServir
    <2>6. ProntidaoFiel'
      BY <1>0, <1>3 DEF FalharAceite, IrEscuta, Vivo, principal, recursos, servidor, pedidos,
         TypeOK, PedidoInv, ProntidaoFiel
    <2> QED
      BY <2>1, <2>2, <2>3, <2>4, <2>5, <2>6 DEF IndInv
  <1> QED
    BY <1>1, <1>2, <1>3

(* A step of a request keeps the invariant. *)
LEMMA PassoDoPedido ==
  ASSUME IndInv, NEW r \in Requisicoes, Aceitar(r) \/ Tratar(r)
  PROVE  IndInv'
  <1> USE ProcessoAssumption
  <1>0. TypeOK /\ FaseInv /\ EscutaInv /\ PedidoInv /\ SaidaInv /\ ProntidaoFiel
    BY DEF IndInv
  <1>1. CASE Aceitar(r)
    <2>1. TypeOK'
      BY <1>0, <1>1 DEF Aceitar, IrReq, Vivo, principal, recursos, servidor, pedidos, TypeOK,
         Fases, Escutas, Lugares, EmCurso, Verificacoes, Dependencias
    <2>2. FaseInv'
      BY <1>0, <1>1 DEF Aceitar, IrReq, Vivo, principal, recursos, servidor, pedidos, TypeOK,
         FaseInv, NadaAbertoNemCortado, Ocupantes
    <2>3. EscutaInv'
      BY <1>0, <1>1 DEF Aceitar, IrReq, Vivo, principal, recursos, servidor, pedidos, TypeOK,
         EscutaInv, AntesDeServir
    <2>4. PedidoInv'
      BY <1>0, <1>1 DEF Aceitar, IrReq, Vivo, principal, recursos, servidor, pedidos, TypeOK,
         PedidoInv, Dependencias
    <2>5. SaidaInv'
      BY <1>0, <1>1 DEF Aceitar, IrReq, Vivo, principal, recursos, servidor, pedidos, TypeOK,
         SaidaInv, EscutaInv, EmCurso, AntesDeServir, FaseInv
    <2>6. ProntidaoFiel'
      BY <1>0, <1>1 DEF Aceitar, IrReq, Vivo, principal, recursos, servidor, pedidos, TypeOK,
         PedidoInv, ProntidaoFiel
    <2> QED
      BY <2>1, <2>2, <2>3, <2>4, <2>5, <2>6 DEF IndInv
  <1>2. CASE Abandonar(r)
    <2>1. TypeOK'
      BY <1>0, <1>2 DEF Abandonar, IrReq, Vivo, principal, recursos, servidor, pedidos,
         TypeOK, Fases, Escutas, Lugares, EmCurso, Verificacoes, Dependencias
    <2>2. FaseInv'
      BY <1>0, <1>2 DEF Abandonar, IrReq, Vivo, principal, recursos, servidor, pedidos,
         TypeOK, FaseInv, NadaAbertoNemCortado, Ocupantes
    <2>3. EscutaInv'
      BY <1>0, <1>2 DEF Abandonar, IrReq, Vivo, principal, recursos, servidor, pedidos,
         TypeOK, EscutaInv, AntesDeServir
    <2>4. PedidoInv'
      BY <1>0, <1>2 DEF Abandonar, IrReq, Vivo, principal, recursos, servidor, pedidos,
         TypeOK, PedidoInv, Dependencias
    <2>5. SaidaInv'
      BY <1>0, <1>2 DEF Abandonar, IrReq, Vivo, principal, recursos, servidor, pedidos,
         TypeOK, SaidaInv, EscutaInv, EmCurso, AntesDeServir, FaseInv
    <2>6. ProntidaoFiel'
      BY <1>0, <1>2 DEF Abandonar, IrReq, Vivo, principal, recursos, servidor, pedidos,
         TypeOK, PedidoInv, ProntidaoFiel
    <2> QED
      BY <2>1, <2>2, <2>3, <2>4, <2>5, <2>6 DEF IndInv
  <1>3. CASE Rotear(r)
    <2>1. TypeOK'
      <3>1. verif' \in [Requisicoes -> [Dependencias -> Verificacoes]]
        <4>1. [d \in Dependencias |-> "verificando"] \in [Dependencias -> Verificacoes]
          BY DEF Verificacoes
        <4> QED
          BY <1>0, <1>3, <4>1 DEF Rotear, TypeOK
      <3>2. vistas' \in [Requisicoes -> SUBSET Dependencias]
        BY <1>0, <1>3 DEF Rotear, TypeOK
      <3>3. req' \in [Requisicoes -> Lugares]
        BY <1>0, <1>3 DEF Rotear, IrReq, TypeOK, Lugares, EmCurso
      <3>4. UNCHANGED <<principal, sinal, recursos, servidor, status, negadas, saudaveis>>
        BY <1>3 DEF Rotear
      <3> QED
        BY <1>0, <3>1, <3>2, <3>3, <3>4 DEF TypeOK, principal, recursos, servidor
    <2>2. FaseInv'
      BY <1>0, <1>3 DEF Rotear, IrReq, Vivo, principal, recursos, servidor, pedidos, TypeOK,
         FaseInv, NadaAbertoNemCortado, Ocupantes
    <2>3. EscutaInv'
      BY <1>0, <1>3 DEF Rotear, IrReq, Vivo, principal, recursos, servidor, pedidos, TypeOK,
         EscutaInv, AntesDeServir
    <2>4. PedidoInv'
      BY <1>0, <1>3 DEF Rotear, IrReq, Vivo, principal, recursos, servidor, pedidos, TypeOK,
         PedidoInv, Dependencias
    <2>5. SaidaInv'
      BY <1>0, <1>3 DEF Rotear, IrReq, Vivo, principal, recursos, servidor, pedidos, TypeOK,
         SaidaInv, EscutaInv, EmCurso, AntesDeServir, FaseInv
    <2>6. ProntidaoFiel'
      BY <1>0, <1>3 DEF Rotear, IrReq, Vivo, principal, recursos, servidor, pedidos, TypeOK,
         PedidoInv, ProntidaoFiel
    <2> QED
      BY <2>1, <2>2, <2>3, <2>4, <2>5, <2>6 DEF IndInv
  <1>4. CASE ResponderDireto(r)
    <2>1. TypeOK'
      BY <1>0, <1>4 DEF ResponderDireto, Responder, IrReq, Vivo, principal, recursos,
         servidor, pedidos, TypeOK, Fases, Escutas, Lugares, EmCurso, Verificacoes,
         Dependencias
    <2>2. FaseInv'
      BY <1>0, <1>4 DEF ResponderDireto, Responder, IrReq, Vivo, principal, recursos,
         servidor, pedidos, TypeOK, FaseInv, NadaAbertoNemCortado, Ocupantes
    <2>3. EscutaInv'
      BY <1>0, <1>4 DEF ResponderDireto, Responder, IrReq, Vivo, principal, recursos,
         servidor, pedidos, TypeOK, EscutaInv, AntesDeServir
    <2>4. PedidoInv'
      BY <1>0, <1>4 DEF ResponderDireto, Responder, IrReq, Vivo, principal, recursos,
         servidor, pedidos, TypeOK, PedidoInv, Dependencias
    <2>5. SaidaInv'
      BY <1>0, <1>4 DEF ResponderDireto, Responder, IrReq, Vivo, principal, recursos,
         servidor, pedidos, TypeOK, SaidaInv, EscutaInv, EmCurso, AntesDeServir, FaseInv
    <2>6. ProntidaoFiel'
      BY <1>0, <1>4 DEF ResponderDireto, Responder, IrReq, Vivo, principal, recursos,
         servidor, pedidos, TypeOK, PedidoInv, ProntidaoFiel
    <2> QED
      BY <2>1, <2>2, <2>3, <2>4, <2>5, <2>6 DEF IndInv
  <1>5. CASE Adquirir(r)
    <2>1. TypeOK'
      BY <1>0, <1>5 DEF Adquirir, IrReq, Vivo, principal, recursos, servidor, pedidos, TypeOK,
         Fases, Escutas, Lugares, EmCurso, Verificacoes, Dependencias
    <2>2. FaseInv'
      BY <1>0, <1>5 DEF Adquirir, IrReq, Vivo, principal, recursos, servidor, pedidos, TypeOK,
         FaseInv, NadaAbertoNemCortado, Ocupantes
    <2>3. EscutaInv'
      BY <1>0, <1>5 DEF Adquirir, IrReq, Vivo, principal, recursos, servidor, pedidos, TypeOK,
         EscutaInv, AntesDeServir
    <2>4. PedidoInv'
      BY <1>0, <1>5 DEF Adquirir, IrReq, Vivo, principal, recursos, servidor, pedidos, TypeOK,
         PedidoInv, Dependencias
    <2>5. SaidaInv'
      BY <1>0, <1>5 DEF Adquirir, IrReq, Vivo, principal, recursos, servidor, pedidos, TypeOK,
         SaidaInv, EscutaInv, EmCurso, AntesDeServir, FaseInv
    <2>6. ProntidaoFiel'
      BY <1>0, <1>5 DEF Adquirir, IrReq, Vivo, principal, recursos, servidor, pedidos, TypeOK,
         PedidoInv, ProntidaoFiel
    <2> QED
      BY <2>1, <2>2, <2>3, <2>4, <2>5, <2>6 DEF IndInv
  <1>6. CASE FalharConexao(r)
    <2>1. TypeOK'
      BY <1>0, <1>6 DEF FalharConexao, Responder, IrReq, Vivo, principal, recursos, servidor,
         pedidos, TypeOK, Fases, Escutas, Lugares, EmCurso, Verificacoes, Dependencias
    <2>2. FaseInv'
      BY <1>0, <1>6 DEF FalharConexao, Responder, IrReq, Vivo, principal, recursos, servidor,
         pedidos, TypeOK, FaseInv, NadaAbertoNemCortado, Ocupantes
    <2>3. EscutaInv'
      BY <1>0, <1>6 DEF FalharConexao, Responder, IrReq, Vivo, principal, recursos, servidor,
         pedidos, TypeOK, EscutaInv, AntesDeServir
    <2>4. PedidoInv'
      BY <1>0, <1>6 DEF FalharConexao, Responder, IrReq, Vivo, principal, recursos, servidor,
         pedidos, TypeOK, PedidoInv, Dependencias
    <2>5. SaidaInv'
      <3>1. fase \notin AntesDeServir /\ fase # "fim" /\ req[r] = "tratando"
        BY <1>0, <1>6 DEF EscutaInv, FalharConexao, Responder, IrReq, Vivo
      <3>2. fase # "fechar_pool" => pool = "aberto" /\ redis = "aberto"
        BY <1>0, <3>1 DEF TypeOK, FaseInv, Fases, AntesDeServir
      <3>3. fase # "fechar_pool" => negadas' = negadas
        BY <1>0, <1>6, <3>2 DEF FalharConexao
      <3>4. UNCHANGED <<principal, sinal, encerrando>>
        BY <1>6 DEF FalharConexao, servidor
      <3> QED
        BY <1>0, <3>1, <3>3, <3>4 DEF TypeOK, SaidaInv, EmCurso, principal
    <2>6. ProntidaoFiel'
      BY <1>0, <1>6 DEF FalharConexao, Responder, IrReq, Vivo, principal, recursos, servidor,
         pedidos, TypeOK, PedidoInv, ProntidaoFiel
    <2> QED
      BY <2>1, <2>2, <2>3, <2>4, <2>5, <2>6 DEF IndInv
  <1>7. CASE ConsultarBanco(r)
    <2>1. TypeOK'
      BY <1>0, <1>7 DEF ConsultarBanco, IrReq, Vivo, principal, recursos, servidor, pedidos,
         TypeOK, Fases, Escutas, Lugares, EmCurso, Verificacoes, Dependencias
    <2>2. FaseInv'
      BY <1>0, <1>7 DEF ConsultarBanco, IrReq, Vivo, principal, recursos, servidor, pedidos,
         TypeOK, FaseInv, NadaAbertoNemCortado, Ocupantes
    <2>3. EscutaInv'
      BY <1>0, <1>7 DEF ConsultarBanco, IrReq, Vivo, principal, recursos, servidor, pedidos,
         TypeOK, EscutaInv, AntesDeServir
    <2>4. PedidoInv'
      BY <1>0, <1>7 DEF ConsultarBanco, IrReq, Vivo, principal, recursos, servidor, pedidos,
         TypeOK, PedidoInv, Dependencias
    <2>5. SaidaInv'
      BY <1>0, <1>7 DEF ConsultarBanco, IrReq, Vivo, principal, recursos, servidor, pedidos,
         TypeOK, SaidaInv, EscutaInv, EmCurso, AntesDeServir, FaseInv
    <2>6. ProntidaoFiel'
      BY <1>0, <1>7 DEF ConsultarBanco, IrReq, Vivo, principal, recursos, servidor, pedidos,
         TypeOK, PedidoInv, ProntidaoFiel
    <2> QED
      BY <2>1, <2>2, <2>3, <2>4, <2>5, <2>6 DEF IndInv
  <1>8. CASE EnviarResposta(r)
    <2>1. TypeOK'
      BY <1>0, <1>8 DEF EnviarResposta, IrReq, Vivo, principal, recursos, servidor, pedidos,
         TypeOK, Fases, Escutas, Lugares, EmCurso, Verificacoes, Dependencias
    <2>2. FaseInv'
      BY <1>0, <1>8 DEF EnviarResposta, IrReq, Vivo, principal, recursos, servidor, pedidos,
         TypeOK, FaseInv, NadaAbertoNemCortado, Ocupantes
    <2>3. EscutaInv'
      BY <1>0, <1>8 DEF EnviarResposta, IrReq, Vivo, principal, recursos, servidor, pedidos,
         TypeOK, EscutaInv, AntesDeServir
    <2>4. PedidoInv'
      BY <1>0, <1>8 DEF EnviarResposta, IrReq, Vivo, principal, recursos, servidor, pedidos,
         TypeOK, PedidoInv, Dependencias
    <2>5. SaidaInv'
      BY <1>0, <1>8 DEF EnviarResposta, IrReq, Vivo, principal, recursos, servidor, pedidos,
         TypeOK, SaidaInv, EscutaInv, EmCurso, AntesDeServir, FaseInv
    <2>6. ProntidaoFiel'
      BY <1>0, <1>8 DEF EnviarResposta, IrReq, Vivo, principal, recursos, servidor, pedidos,
         TypeOK, PedidoInv, ProntidaoFiel
    <2> QED
      BY <2>1, <2>2, <2>3, <2>4, <2>5, <2>6 DEF IndInv
  <1>9. CASE OcuparConexao(r)
    <2>1. TypeOK'
      BY <1>0, <1>9 DEF OcuparConexao, AoFim, Vivo, principal, recursos, servidor, pedidos,
         TypeOK, Fases, Escutas, Lugares, EmCurso, Verificacoes, Dependencias
    <2>2. FaseInv'
      BY <1>0, <1>9 DEF OcuparConexao, AoFim, Vivo, principal, recursos, servidor, pedidos,
         TypeOK, FaseInv, NadaAbertoNemCortado, Ocupantes
    <2>3. EscutaInv'
      BY <1>0, <1>9 DEF OcuparConexao, AoFim, Vivo, principal, recursos, servidor, pedidos,
         TypeOK, EscutaInv, AntesDeServir
    <2>4. PedidoInv'
      BY <1>0, <1>9 DEF OcuparConexao, AoFim, Vivo, principal, recursos, servidor, pedidos,
         TypeOK, PedidoInv, Dependencias
    <2>5. SaidaInv'
      BY <1>0, <1>9 DEF OcuparConexao, AoFim, Vivo, principal, recursos, servidor, pedidos,
         TypeOK, SaidaInv, EscutaInv, EmCurso, AntesDeServir, FaseInv
    <2>6. ProntidaoFiel'
      BY <1>0, <1>9 DEF OcuparConexao, AoFim, Vivo, principal, recursos, servidor, pedidos,
         TypeOK, PedidoInv, ProntidaoFiel
    <2> QED
      BY <2>1, <2>2, <2>3, <2>4, <2>5, <2>6 DEF IndInv
  <1>10. CASE ConcluirProntidao(r)
    <2>1. TypeOK'
      BY <1>0, <1>10 DEF ConcluirProntidao, Responder, IrReq, Vivo, principal, recursos,
         servidor, pedidos, TypeOK, Fases, Escutas, Lugares, EmCurso, Verificacoes,
         Dependencias
    <2>2. FaseInv'
      BY <1>0, <1>10 DEF ConcluirProntidao, Responder, IrReq, Vivo, principal, recursos,
         servidor, pedidos, TypeOK, FaseInv, NadaAbertoNemCortado, Ocupantes
    <2>3. EscutaInv'
      BY <1>0, <1>10 DEF ConcluirProntidao, Responder, IrReq, Vivo, principal, recursos,
         servidor, pedidos, TypeOK, EscutaInv, AntesDeServir
    <2>4. PedidoInv'
      BY <1>0, <1>10 DEF ConcluirProntidao, Responder, IrReq, Vivo, principal, recursos,
         servidor, pedidos, TypeOK, PedidoInv, Dependencias
    <2>5. SaidaInv'
      BY <1>0, <1>10 DEF ConcluirProntidao, Responder, IrReq, Vivo, principal, recursos,
         servidor, pedidos, TypeOK, SaidaInv, EscutaInv, EmCurso, AntesDeServir, FaseInv
    <2>6. ProntidaoFiel'
      <3>1. (\A d \in Dependencias : verif[r][d] # "falha") => vistas[r] = Dependencias
        <4>1. /\ r \in Prontidoes /\ vistas[r] \subseteq Dependencias
              /\ \A d \in Dependencias : verif[r][d] = "ok" => d \in vistas[r]
          BY <1>0, <1>10 DEF ConcluirProntidao, TypeOK, PedidoInv
        <4>2. \A d \in Dependencias : verif[r][d] \in {"ok", "falha"}
          BY <1>10 DEF ConcluirProntidao
        <4> QED
          BY <4>1, <4>2
      <3>2. /\ UNCHANGED <<verif, vistas>>
            /\ \A d \in Dependencias : verif[r][d] \in {"ok", "falha"}
            /\ status' = [status EXCEPT ![r] =
                             IF \E d \in Dependencias : verif[r][d] = "falha" THEN 503 ELSE 200]
        BY <1>10 DEF ConcluirProntidao, Responder
      <3>3. status'[r] = 200 => vistas[r] = Dependencias
        BY <1>0, <3>1, <3>2 DEF TypeOK
      <3> QED
        BY <1>0, <3>2, <3>3 DEF TypeOK, ProntidaoFiel
    <2> QED
      BY <2>1, <2>2, <2>3, <2>4, <2>5, <2>6 DEF IndInv
  <1>11. ASSUME NEW d \in Dependencias, TerminarVerificacao(r, d) PROVE IndInv'
    <2>1. TypeOK'
      BY <1>0, <1>11 DEF TerminarVerificacao, AoFim, Vivo, Aberta, principal, recursos,
         servidor, pedidos, TypeOK, Fases, Escutas, Lugares, EmCurso, Verificacoes,
         Dependencias
    <2>2. FaseInv'
      BY <1>0, <1>11 DEF TerminarVerificacao, AoFim, Vivo, Aberta, principal, recursos,
         servidor, pedidos, TypeOK, FaseInv, NadaAbertoNemCortado, Ocupantes
    <2>3. EscutaInv'
      BY <1>0, <1>11 DEF TerminarVerificacao, AoFim, Vivo, Aberta, principal, recursos,
         servidor, pedidos, TypeOK, EscutaInv, AntesDeServir
    <2>4. PedidoInv'
      BY <1>0, <1>11 DEF TerminarVerificacao, AoFim, Vivo, Aberta, principal, recursos,
         servidor, pedidos, TypeOK, PedidoInv, Dependencias
    <2>5. SaidaInv'
      <3>1. fase \notin AntesDeServir /\ fase # "fim" /\ req[r] = "tratando"
        BY <1>0, <1>11 DEF EscutaInv, TerminarVerificacao, Vivo
      <3>2. fase # "fechar_pool" => pool = "aberto" /\ redis = "aberto"
        BY <1>0, <3>1 DEF TypeOK, FaseInv, Fases, AntesDeServir
      <3>3. fase # "fechar_pool" => negadas' = negadas
        BY <1>0, <1>11, <3>2 DEF TerminarVerificacao, Aberta
      <3>4. UNCHANGED <<principal, sinal, encerrando>>
        BY <1>11 DEF TerminarVerificacao, servidor
      <3> QED
        BY <1>0, <3>1, <3>3, <3>4 DEF TypeOK, SaidaInv, EmCurso, principal
    <2>6. ProntidaoFiel'
      BY <1>0, <1>11 DEF TerminarVerificacao, AoFim, Vivo, Aberta, principal, recursos,
         servidor, pedidos, TypeOK, PedidoInv, ProntidaoFiel, Dependencias
    <2> QED
      BY <2>1, <2>2, <2>3, <2>4, <2>5, <2>6 DEF IndInv
  <1> QED
    BY <1>1, <1>2, <1>3, <1>4, <1>5, <1>6, <1>7, <1>8, <1>9, <1>10, <1>11 DEF Tratar

(* A dependency that goes down or comes back keeps the invariant. *)
LEMMA PassoDaDependencia ==
  ASSUME IndInv, NEW d \in Dependencias, Oscilar(d)
  PROVE  IndInv'
  <1>0. TypeOK /\ FaseInv /\ EscutaInv /\ PedidoInv /\ SaidaInv /\ ProntidaoFiel
    BY DEF IndInv
  <1>1. CASE Oscilar(d)
    <2>1. TypeOK'
      BY <1>0, <1>1 DEF Oscilar, Vivo, principal, recursos, servidor, pedidos, TypeOK, Fases,
         Escutas, Lugares, EmCurso, Verificacoes, Dependencias
    <2>2. FaseInv'
      BY <1>0, <1>1 DEF Oscilar, Vivo, principal, recursos, servidor, pedidos, TypeOK,
         FaseInv, NadaAbertoNemCortado, Ocupantes
    <2>3. EscutaInv'
      BY <1>0, <1>1 DEF Oscilar, Vivo, principal, recursos, servidor, pedidos, TypeOK,
         EscutaInv, AntesDeServir
    <2>4. PedidoInv'
      BY <1>0, <1>1 DEF Oscilar, Vivo, principal, recursos, servidor, pedidos, TypeOK,
         PedidoInv, Dependencias
    <2>5. SaidaInv'
      BY <1>0, <1>1 DEF Oscilar, Vivo, principal, recursos, servidor, pedidos, TypeOK,
         SaidaInv, EscutaInv, EmCurso, AntesDeServir
    <2>6. ProntidaoFiel'
      <3>1. UNCHANGED <<status, verif>>
        BY <1>1 DEF Oscilar
      <3>2. \A r \in Prontidoes : status[r] # 0 => vistas'[r] = vistas[r]
        BY <1>0, <1>1, ProcessoAssumption DEF Oscilar, TypeOK, PedidoInv
      <3> QED
        BY <1>0, <3>1, <3>2 DEF ProntidaoFiel
    <2> QED
      BY <2>1, <2>2, <2>3, <2>4, <2>5, <2>6 DEF IndInv
  <1> QED
    BY <1>1

THEOREM Inductive == IndInv /\ [Next]_vars => IndInv'
  <1> SUFFICES ASSUME IndInv, [Next]_vars PROVE IndInv'
    OBVIOUS
  <1>1. CASE UNCHANGED vars
    BY <1>1 DEF vars, principal, recursos, servidor, pedidos, IndInv, TypeOK, FaseInv,
                NadaAbertoNemCortado, Ocupantes, EscutaInv, PedidoInv, SaidaInv, ProntidaoFiel
  <1>2. CASE Executar
    BY <1>2, PassoDoPrincipal
  <1>3. CASE Sinalizar \/ Escutar \/ FalharAceite
    BY <1>3, PassoDaEscuta
  <1>4. ASSUME NEW r \in Requisicoes, Aceitar(r) \/ Tratar(r) PROVE IndInv'
    BY <1>4, PassoDoPedido
  <1>5. ASSUME NEW d \in Dependencias, Oscilar(d) PROVE IndInv'
    BY <1>5, PassoDaDependencia
  <1> QED
    BY <1>1, <1>2, <1>3, <1>4, <1>5 DEF Next

THEOREM Invariante == Spec => []IndInv
  BY InitIndInv, Inductive, PTL DEF Spec

(* The variables keep their types. *)
THEOREM TiposCorretos == Spec => []TypeOK
  BY Invariante, PTL DEF IndInv

(* executar and Shutdown: code 0 means a signal, and that every request the
   server had accepted was answered with its dependencies open. *)
THEOREM ZeroEhHonesto == Spec => []SaidaHonesta
  <1>1. IndInv => SaidaHonesta
    BY DEF IndInv, SaidaInv, SaidaHonesta
  <1> QED
    BY <1>1, Invariante, PTL

(* The deferred Close calls: on every path out of executar what was opened is
   closed, after the statements under way. *)
THEOREM TudoFechado == Spec => []NadaAbertoNemCortado
  <1>1. IndInv => NadaAbertoNemCortado
    BY DEF IndInv, FaseInv
  <1> QED
    BY <1>1, Invariante, PTL

(* manipularProntidao: 200 only if every dependency answered during the probe,
   and no answer before every check ended. *)
THEOREM ProntidaoNaoMente == Spec => []ProntidaoFiel
  BY Invariante, PTL DEF IndInv

------------------------------------------------------------------------------
(* Nothing holds the process after a signal *)

(* executar has a step to take, whatever the requests do: what it waits for
   happened or has a limit of its own. *)
Prossegue ==
  \/ fase \in AntesDeServir \union {"desligando", "fechar_redis"}
  \/ fase = "servindo" /\ (sinal \/ escuta = "falhou")
  \/ fase = "fechar_pool" /\ (pool = "aberto" \/ Ocupantes = {})

(* A request that uses a connection is at the step that gives it back. *)
Solta(r) ==
  \/ req[r] = "conexao"
  \/ req[r] = "tratando" /\ verif[r]["postgres"] = "ocupando"

(* executar: after a signal it goes on, or it closes the pool and waits for
   requests that can give their connections back by themselves. *)
NadaPrende ==
  /\ Vivo /\ sinal /\ ~Prossegue => fase = "fechar_pool" /\ pool = "fechando"
  /\ \A r \in Ocupantes : Solta(r)

(* How many steps executar has left at most, while nothing new holds it. *)
FaltaPrincipal ==
  CASE fase = "config" -> 11
    [] fase = "executor" -> 10
    [] fase = "postgres" -> 9
    [] fase = "redis" -> 8
    [] fase = "montagem" -> 7
    [] fase = "servindo" -> 6
    [] fase = "desligando" -> 5
    [] fase = "fechar_redis" -> 4
    [] fase = "fechar_pool" /\ pool = "aberto" -> 3
    [] fase = "fechar_pool" /\ pool # "aberto" -> 2
    [] OTHER -> 1

FaltaVerificar(r, d) ==
  CASE verif[r][d] = "verificando" -> 2
    [] verif[r][d] = "ocupando" -> 1
    [] OTHER -> 0

(* How many steps a request has left at most. *)
FaltaPedido(r) ==
  CASE req[r] = "fora" -> 9
    [] req[r] = "aceita" -> 8
    [] req[r] = "tratando" -> 3 + FaltaVerificar(r, "postgres") + FaltaVerificar(r, "redis")
    [] req[r] = "conexao" -> 2
    [] req[r] = "resposta" -> 1
    [] OTHER -> 0

FaltaContada == FaltaPrincipal \in Nat /\ \A r \in Requisicoes : FaltaPedido(r) \in Nat

(* Every step of executar and of a request brings it nearer to its end, and what
   else runs takes neither back; executar is not kept from its next step; and
   once the pool closes no connection is taken again. *)
Aproxima ==
  /\ FaltaPrincipal' <= FaltaPrincipal /\ (Executar => FaltaPrincipal' < FaltaPrincipal)
  /\ Vivo' /\ sinal /\ Prossegue => Executar \/ Prossegue'
  /\ \A r \in Requisicoes :
       /\ FaltaPedido(r)' <= FaltaPedido(r)
       /\ Aceitar(r) \/ Tratar(r) => FaltaPedido(r)' < FaltaPedido(r)
  /\ pool # "aberto" /\ pool' # "aberto" => Ocupantes' \subseteq Ocupantes

(* The check of a probe runs while its handler waits for it. *)
VerificacaoInv ==
  \A r \in Requisicoes, d \in Dependencias :
    verif[r][d] \in {"verificando", "ocupando"} => r \in Prontidoes /\ req[r] = "tratando"

LEMMA VerificacaoPreservada ==
  ASSUME TypeOK, PedidoInv, VerificacaoInv, [Next]_vars
  PROVE  VerificacaoInv'
  <1>1. CASE UNCHANGED <<req, verif>>
    BY <1>1 DEF VerificacaoInv
  <1>2. ASSUME NEW r \in Requisicoes, UNCHANGED verif,
               \A d \in Dependencias : verif[r][d] \notin {"verificando", "ocupando"},
               \E lugar : req' = [req EXCEPT ![r] = lugar]
        PROVE  VerificacaoInv'
    <2>1. \A s \in Requisicoes \ {r} : req'[s] = req[s]
      BY <1>2 DEF TypeOK
    <2> QED
      BY <1>2, <2>1 DEF VerificacaoInv
  <1>3. ASSUME NEW r \in Requisicoes, UNCHANGED verif, r \notin Prontidoes \/ req[r] # "tratando",
               \E lugar : req' = [req EXCEPT ![r] = lugar]
        PROVE  VerificacaoInv'
    BY <1>2, <1>3 DEF VerificacaoInv
  <1>4. ASSUME NEW r \in Requisicoes, Aceitar(r) \/ Abandonar(r) PROVE VerificacaoInv'
    BY <1>3, <1>4 DEF Aceitar, Abandonar, IrReq
  <1>5. ASSUME NEW r \in Requisicoes, Rotear(r) PROVE VerificacaoInv'
    <2>1. CASE r \notin Prontidoes
      BY <1>3, <1>5, <2>1 DEF Rotear, IrReq
    <2>2. CASE r \in Prontidoes
      <3>1. req' = [req EXCEPT ![r] = "tratando"]
        BY <1>5 DEF Rotear, IrReq
      <3>2. \A s \in Requisicoes \ {r} : verif'[s] = verif[s]
        BY <1>5, <2>2 DEF Rotear, TypeOK
      <3> QED
        BY <2>2, <3>1, <3>2 DEF VerificacaoInv, TypeOK
    <2> QED
      BY <2>1, <2>2
  <1>6. ASSUME NEW r \in Requisicoes,
               ResponderDireto(r) \/ Adquirir(r) \/ FalharConexao(r)
        PROVE  VerificacaoInv'
    <2>1. r \notin Prontidoes
      BY <1>6, ProcessoAssumption DEF ResponderDireto, Adquirir, FalharConexao
    <2> QED
      BY <1>3, <1>6, <2>1 DEF ResponderDireto, Adquirir, FalharConexao, Responder, IrReq
  <1>7. ASSUME NEW r \in Requisicoes, ConsultarBanco(r) \/ EnviarResposta(r) PROVE VerificacaoInv'
    BY <1>3, <1>7 DEF ConsultarBanco, EnviarResposta, IrReq
  <1>8. ASSUME NEW r \in Requisicoes, ConcluirProntidao(r) PROVE VerificacaoInv'
    BY <1>2, <1>8 DEF ConcluirProntidao, Responder, IrReq
  <1>9. ASSUME NEW r \in Requisicoes, NEW d \in Dependencias, UNCHANGED req,
               verif[r][d] \in {"verificando", "ocupando"}, NEW resultado, AoFim(r, d, resultado)
        PROVE  VerificacaoInv'
    <2>1. r \in Prontidoes /\ req[r] = "tratando"
      BY <1>9 DEF VerificacaoInv
    <2>2. \A s \in Requisicoes \ {r} : verif'[s] = verif[s]
      BY <1>9 DEF AoFim, TypeOK
    <2> QED
      BY <1>9, <2>1, <2>2 DEF VerificacaoInv
  <1>10. ASSUME NEW r \in Requisicoes, OcuparConexao(r) PROVE VerificacaoInv'
    BY <1>9, <1>10 DEF OcuparConexao, Dependencias
  <1>11. ASSUME NEW r \in Requisicoes, NEW d \in Dependencias, TerminarVerificacao(r, d)
         PROVE  VerificacaoInv'
    BY <1>9, <1>11 DEF TerminarVerificacao
  <1>12. CASE Executar
    BY <1>1, <1>12 DEF Executar, Carregar, MontarExecutor, ConectarPostgres, ConectarRedis,
       Montar, EncerrarWorker, DesistirDaEscuta, ComecarDesligamento, Desligar, FecharRedis,
       FecharPool, pedidos
  <1>13. CASE Sinalizar \/ Escutar \/ FalharAceite \/ \E d \in Dependencias : Oscilar(d)
    BY <1>1, <1>13 DEF Sinalizar, Escutar, FalharAceite, Oscilar, pedidos
  <1> QED
    BY <1>1, <1>4, <1>5, <1>6, <1>7, <1>8, <1>10, <1>11, <1>12, <1>13
    DEF Next, Tratar, vars, pedidos

(* A step of executar: it is the only one that changes what it has left, apart
   from a signal at the start. *)
LEMMA PassoDeExecutar ==
  ASSUME TypeOK, FaseInv, Executar
  PROVE  FaltaPrincipal' < FaltaPrincipal /\ UNCHANGED pedidos
  <1>1. CASE Carregar \/ MontarExecutor \/ ConectarPostgres \/ ConectarRedis \/ Montar
    BY <1>1 DEF Carregar, MontarExecutor, ConectarPostgres, ConectarRedis, Montar, Sair, Ir,
       Retornar, FaltaPrincipal
  <1>2. CASE EncerrarWorker \/ DesistirDaEscuta \/ ComecarDesligamento \/ Desligar \/ FecharRedis
    BY <1>2 DEF EncerrarWorker, DesistirDaEscuta, ComecarDesligamento, Desligar, FecharRedis,
       Ir, Retornar, FaltaPrincipal
  <1>3. CASE FecharPool
    BY <1>3 DEF FecharPool, Sair, Ir, FaltaPrincipal
  <1> QED
    BY <1>1, <1>2, <1>3 DEF Executar

LEMMA FaltasNaturais == FaltaContada
  <1>1. FaltaPrincipal \in Nat
    BY DEF FaltaPrincipal
  <1>2. ASSUME NEW r \in Requisicoes PROVE FaltaPedido(r) \in Nat
    <2>1. \A d \in Dependencias : FaltaVerificar(r, d) \in 0 .. 2
      BY DEF FaltaVerificar
    <2> QED
      BY <2>1 DEF FaltaPedido, Dependencias
  <1> QED
    BY <1>1, <1>2 DEF FaltaContada

(* A step of a request. *)
LEMMA PassoReduz ==
  ASSUME TypeOK, VerificacaoInv, NEW r \in Requisicoes, Aceitar(r) \/ Tratar(r)
  PROVE  /\ FaltaPedido(r)' < FaltaPedido(r)
         /\ \A s \in Requisicoes \ {r} : req'[s] = req[s] /\ verif'[s] = verif[s]
         /\ UNCHANGED <<principal, sinal, recursos, servidor>>
  <1>0. \A d \in Dependencias : FaltaVerificar(r, d) \in 0 .. 2 /\ FaltaVerificar(r, d)' \in 0 .. 2
    BY DEF FaltaVerificar
  <1>1. UNCHANGED <<principal, sinal, recursos, servidor>>
    BY DEF Tratar, Aceitar, Abandonar, Rotear, ResponderDireto, Adquirir,
       FalharConexao, ConsultarBanco, EnviarResposta, OcuparConexao, ConcluirProntidao,
       TerminarVerificacao
  <1>2. \A s \in Requisicoes \ {r} : req'[s] = req[s] /\ verif'[s] = verif[s]
    BY DEF TypeOK, IrReq, Responder, AoFim, Tratar, Aceitar, Abandonar, Rotear,
       ResponderDireto, Adquirir, FalharConexao, ConsultarBanco, EnviarResposta, OcuparConexao, ConcluirProntidao,
       TerminarVerificacao
  <1> SUFFICES FaltaPedido(r)' < FaltaPedido(r)
    BY <1>1, <1>2
  <1>3. ASSUME NEW para \in Lugares \ {"fora", "aceita", "tratando"},
               req' = [req EXCEPT ![r] = para],
               \/ req[r] \in {"aceita", "tratando"}
               \/ req[r] = "conexao" /\ para # "conexao"
               \/ req[r] = "resposta" /\ para = "respondida"
        PROVE  FaltaPedido(r)' < FaltaPedido(r)
    <2>1. req'[r] = para
      BY <1>3 DEF TypeOK
    <2>2. FaltaPedido(r)' = IF para = "conexao" THEN 2 ELSE IF para = "resposta" THEN 1 ELSE 0
      BY <1>3, <2>1 DEF FaltaPedido, Lugares, EmCurso
    <2>3. CASE req[r] \in {"aceita", "tratando"}
      <3>1. FaltaPedido(r) \in 3 .. 8
        BY <1>0, <2>3 DEF FaltaPedido, Dependencias
      <3> QED
        BY <2>2, <3>1
    <2>4. CASE req[r] \in {"conexao", "resposta"}
      <3>1. FaltaPedido(r) = IF req[r] = "conexao" THEN 2 ELSE 1
        BY <2>4 DEF FaltaPedido
      <3> QED
        BY <1>3, <2>2, <2>4, <3>1 DEF Lugares, EmCurso
    <2> QED
      BY <1>3, <2>3, <2>4
  <1>4. CASE Aceitar(r)
    <2>1. req[r] = "fora" /\ req'[r] = "aceita"
      BY <1>4 DEF Aceitar, IrReq, TypeOK
    <2> QED
      BY <2>1 DEF FaltaPedido
  <1>5. CASE Rotear(r)
    <2>1. req[r] = "aceita" /\ req'[r] = "tratando"
      BY <1>5 DEF Rotear, IrReq, TypeOK
    <2>2. FaltaPedido(r) = 8 /\ FaltaPedido(r)' \in 3 .. 7
      BY <1>0, <2>1 DEF FaltaPedido, Dependencias
    <2> QED
      BY <2>2
  <1>6. CASE Abandonar(r) \/ Adquirir(r) \/ EnviarResposta(r)
    BY <1>3, <1>6 DEF Abandonar, Adquirir, EnviarResposta, IrReq, Lugares, EmCurso
  <1>7. CASE ResponderDireto(r) \/ FalharConexao(r) \/ ConcluirProntidao(r)
    BY <1>3, <1>7 DEF ResponderDireto, FalharConexao, ConcluirProntidao, Responder, IrReq, Lugares, EmCurso
  <1>8. CASE ConsultarBanco(r)
    BY <1>3, <1>8 DEF ConsultarBanco, IrReq, Lugares, EmCurso
  <1>9. ASSUME NEW d \in Dependencias, req' = req, req[r] = "tratando",
               FaltaVerificar(r, d)' < FaltaVerificar(r, d),
               \A o \in Dependencias \ {d} : FaltaVerificar(r, o)' = FaltaVerificar(r, o)
        PROVE  FaltaPedido(r)' < FaltaPedido(r)
    <2>1. /\ FaltaPedido(r) = 3 + FaltaVerificar(r, "postgres") + FaltaVerificar(r, "redis")
          /\ FaltaPedido(r)' = 3 + FaltaVerificar(r, "postgres")' + FaltaVerificar(r, "redis")'
      BY <1>9 DEF FaltaPedido
    <2> QED
      BY <1>0, <1>9, <2>1 DEF Dependencias
  <1>10. ASSUME NEW d \in Dependencias, NEW resultado, AoFim(r, d, resultado)
         PROVE  /\ verif'[r][d] = resultado
                /\ \A o \in Dependencias \ {d} : FaltaVerificar(r, o)' = FaltaVerificar(r, o)
    <2>1. verif'[r] = [verif[r] EXCEPT ![d] = resultado]
      BY <1>10 DEF AoFim, TypeOK
    <2>2. verif[r] \in [Dependencias -> Verificacoes]
      BY DEF TypeOK
    <2>3. verif'[r][d] = resultado /\ \A o \in Dependencias \ {d} : verif'[r][o] = verif[r][o]
      BY <2>1, <2>2
    <2> QED
      BY <2>3 DEF FaltaVerificar
  <1>11. CASE OcuparConexao(r)
    <2>1. /\ verif[r]["postgres"] = "verificando" /\ AoFim(r, "postgres", "ocupando")
          /\ req' = req /\ "postgres" \in Dependencias
      BY <1>11 DEF OcuparConexao, Dependencias
    <2>2. req[r] = "tratando"
      BY <2>1 DEF VerificacaoInv
    <2>3. FaltaVerificar(r, "postgres") = 2 /\ FaltaVerificar(r, "postgres")' = 1
      BY <1>10, <2>1 DEF FaltaVerificar
    <2> QED
      BY <1>9, <1>10, <2>1, <2>2, <2>3
  <1>12. ASSUME NEW d \in Dependencias, TerminarVerificacao(r, d)
         PROVE  FaltaPedido(r)' < FaltaPedido(r)
    <2>1. /\ verif[r][d] \in {"verificando", "ocupando"} /\ (AoFim(r, d, "ok") \/ AoFim(r, d, "falha"))
          /\ req' = req /\ req[r] = "tratando"
      BY <1>12 DEF TerminarVerificacao
    <2>2. verif[r][d] \in {"verificando", "ocupando"}
      BY <1>12 DEF TerminarVerificacao
    <2>3. verif'[r][d] \in {"ok", "falha"}
      BY <1>10, <2>1
    <2>4. FaltaVerificar(r, d) > 0 /\ FaltaVerificar(r, d)' = 0
      BY <2>2, <2>3 DEF FaltaVerificar
    <2> QED
      BY <1>0, <1>9, <1>10, <2>1, <2>4
  <1> QED
    BY <1>4, <1>5, <1>6, <1>7, <1>8, <1>11, <1>12 DEF Tratar

(* A step of a request takes no connection of a pool that is not open. *)
LEMMA SoPoolAbertoEmpresta ==
  ASSUME TypeOK, VerificacaoInv, NEW r \in Requisicoes, Aceitar(r) \/ Tratar(r), pool # "aberto"
  PROVE  Ocupantes' \subseteq Ocupantes
  <1> SUFFICES ASSUME r \in Ocupantes' PROVE r \in Ocupantes
    BY PassoReduz DEF Ocupantes
  <1>1. req'[r] = "conexao" \/ verif'[r]["postgres"] = "ocupando"
    BY DEF Ocupantes
  <1>2. CASE req'[r] = "conexao"
    <2>1. req[r] = "conexao"
      BY <1>2 DEF TypeOK, IrReq, Responder, HaConexao, Tratar, Aceitar, Abandonar, Rotear,
         ResponderDireto, Adquirir, FalharConexao, ConsultarBanco, EnviarResposta,
         OcuparConexao, ConcluirProntidao, TerminarVerificacao
    <2> QED
      BY <2>1 DEF Ocupantes
  <1>3. CASE verif'[r]["postgres"] = "ocupando"
    <2>1. verif[r]["postgres"] = "ocupando"
      BY <1>3 DEF TypeOK, AoFim, HaConexao, Dependencias, Tratar, Aceitar, Abandonar, Rotear,
         ResponderDireto, Adquirir, FalharConexao, ConsultarBanco, EnviarResposta,
         OcuparConexao, ConcluirProntidao, TerminarVerificacao
    <2> QED
      BY <2>1 DEF Ocupantes
  <1> QED
    BY <1>1, <1>2, <1>3

(* No step takes executar or a request further from its end. *)
LEMMA PassoAproxima ==
  ASSUME IndInv, VerificacaoInv, Next
  PROVE  Aproxima
  <1>0. TypeOK /\ FaseInv
    BY DEF IndInv
  <1>n. FaltaContada /\ FaltaContada'
    BY FaltasNaturais, PTL
  <1>a. Executar => FaltaPrincipal' < FaltaPrincipal
    BY <1>0, PassoDeExecutar
  <1>b. \A r \in Requisicoes : Aceitar(r) \/ Tratar(r) => FaltaPedido(r)' < FaltaPedido(r)
    BY <1>0, PassoReduz
  <1>1. ASSUME UNCHANGED <<req, verif>>
        PROVE  /\ \A r \in Requisicoes : FaltaPedido(r)' <= FaltaPedido(r)
               /\ Ocupantes' = Ocupantes
    <2>1. \A r \in Requisicoes : FaltaPedido(r)' = FaltaPedido(r)
      BY <1>1 DEF FaltaPedido, FaltaVerificar
    <2> QED
      BY <1>1, <2>1, <1>n DEF FaltaContada, Ocupantes
  <1>2. ASSUME UNCHANGED <<fase, pool>>, sinal => sinal', escuta = "falhou" => escuta' = "falhou",
               pool # "aberto" => Ocupantes' \subseteq Ocupantes
        PROVE  /\ FaltaPrincipal' <= FaltaPrincipal
               /\ Vivo' /\ sinal /\ Prossegue => Prossegue'
    <2>1. FaltaPrincipal' = FaltaPrincipal
      BY <1>2 DEF FaltaPrincipal
    <2> QED
      BY <1>2, <2>1, <1>n DEF FaltaContada, Prossegue
  <1>3. CASE Executar
    <2>1. UNCHANGED <<req, verif>>
      BY <1>0, <1>3, PassoDeExecutar DEF pedidos
    <2>2. FaltaPrincipal' <= FaltaPrincipal
      BY <1>3, <1>a, <1>n DEF FaltaContada
    <2> QED
      BY <1>3, <1>a, <1>b, <1>1, <2>1, <2>2 DEF Aproxima
  <1>4. CASE Escutar \/ FalharAceite \/ \E d \in Dependencias : Oscilar(d)
    <2>1. UNCHANGED <<fase, pool, req, verif>> /\ sinal' = sinal
      BY <1>4 DEF Escutar, FalharAceite, Oscilar, principal, recursos, pedidos
    <2>2. escuta = "falhou" => escuta' = "falhou"
      BY <1>4 DEF Escutar, FalharAceite, Oscilar, IrEscuta, servidor
    <2> QED
      BY <1>a, <1>b, <1>1, <1>2, <2>1, <2>2 DEF Aproxima
  <1>5. CASE Sinalizar
    <2>1. UNCHANGED <<pool, req, verif, escuta>> /\ sinal'
      BY <1>5 DEF Sinalizar, recursos, servidor, pedidos
    <2>2. CASE fase' = fase
      BY <1>a, <1>b, <1>1, <1>2, <2>1, <2>2 DEF Aproxima
    <2>3. CASE fase' # fase
      <3>1. fase \in {"config", "executor"} /\ fase' = "fim"
        BY <1>5, <2>3 DEF Sinalizar
      <3>2. FaltaPrincipal' <= FaltaPrincipal /\ ~Vivo'
        BY <3>1 DEF FaltaPrincipal, Vivo
      <3> QED
        BY <1>a, <1>b, <1>1, <2>1, <3>2 DEF Aproxima
    <2> QED
      BY <2>2, <2>3
  <1>6. ASSUME NEW r \in Requisicoes, Aceitar(r) \/ Tratar(r) PROVE Aproxima
    <2>1. UNCHANGED <<principal, sinal, recursos, servidor>>
      BY <1>0, <1>6, PassoReduz
    <2>2. UNCHANGED <<fase, pool, escuta>> /\ sinal' = sinal
      BY <2>1 DEF principal, recursos, servidor
    <2>3. pool # "aberto" => Ocupantes' \subseteq Ocupantes
      BY <1>0, <1>6, SoPoolAbertoEmpresta
    <2>4. \A s \in Requisicoes \ {r} : FaltaPedido(s)' = FaltaPedido(s)
      <3>1. \A s \in Requisicoes \ {r} : req'[s] = req[s] /\ verif'[s] = verif[s]
        BY <1>0, <1>6, PassoReduz
      <3> QED
        BY <3>1 DEF FaltaPedido, FaltaVerificar
    <2>5. \A s \in Requisicoes : FaltaPedido(s) \in Nat /\ FaltaPedido(s)' \in Nat
      BY <1>n DEF FaltaContada
    <2>6. \A s \in Requisicoes : FaltaPedido(s)' <= FaltaPedido(s)
      BY <1>6, <1>b, <2>4, <2>5
    <2> QED
      BY <1>a, <1>b, <1>2, <2>2, <2>3, <2>6 DEF Aproxima
  <1> QED
    BY <1>3, <1>4, <1>5, <1>6 DEF Next

(* executar, Shutdown and Pool.Close: for any number of requests and any size of
   the pool, what is still open after a signal is waiting for requests that give
   their connections back by themselves, and each step brings executar or a
   request nearer to its end. *)
THEOREM NadaPrendeOProcesso == Spec => []NadaPrende /\ []FaltaContada /\ [][Aproxima]_vars
  <1>1. Init => VerificacaoInv
    BY DEF Init, VerificacaoInv
  <1>2. IndInv /\ VerificacaoInv /\ [Next]_vars => VerificacaoInv'
    BY VerificacaoPreservada DEF IndInv
  <1>3. IndInv /\ VerificacaoInv => NadaPrende
    <2> SUFFICES ASSUME TypeOK, FaseInv, VerificacaoInv PROVE NadaPrende
      BY DEF IndInv
    <2>1. Vivo /\ sinal /\ ~Prossegue => fase = "fechar_pool" /\ pool = "fechando"
      BY DEF TypeOK, FaseInv, Fases, AntesDeServir, Vivo, Prossegue
    <2>2. \A r \in Ocupantes : Solta(r)
      BY DEF Ocupantes, VerificacaoInv, Solta, Dependencias
    <2> QED
      BY <2>1, <2>2 DEF NadaPrende
  <1>4. IndInv /\ VerificacaoInv /\ [Next]_vars => [Aproxima]_vars
    BY PassoAproxima
  <1> QED
    BY <1>1, <1>2, <1>3, <1>4, Invariante, FaltasNaturais, PTL DEF Spec
==============================================================================
