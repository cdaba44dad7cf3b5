---------------------------- MODULE Sandbox_proofs ----------------------------
(* Proofs about Sandbox.  The inductive invariant IndInv follows a result from
   the container to the caller: the program ends with code 0 only if the
   collector kept its own result, Azure says Succeeded only of code 0, and a
   call reads the collector only after Succeeded.  At the end: the first result
   of a task_run is the only one, and what ends a call. *)
EXTENDS Sandbox, TLAPS

------------------------------------------------------------------------------
(* The inductive invariant, in named parts. *)

(* Where a call is tells which executor it uses and how far its job is. *)
FormaInv ==
  \A e \in Execucoes :
    /\ executor = "local" => job[e] = "nenhum"
    /\ executor = "local" =>
         pc[e] \in {"nova", "docker", "remover", "fim"}
    /\ executor = "azure" => pc[e] \notin {"docker", "remover"}
    /\ pc[e] \in {"nova", "disparar"} => job[e] = "nenhum" /\ cont[e] = "nenhum"
    /\ executor = "azure" /\ job[e] \in {"nenhum", "Processing"} => cont[e] = "nenhum"
    /\ job[e] \in Terminados => cont[e] \notin Rodando
    /\ job[e] = "Succeeded" => cont[e] = "saiu0"
    /\ pc[e] = "aguardar" => job[e] = "Succeeded"
    /\ abandono[e] = "sem_nome" => executor = "azure"
    /\ abandono[e] = "cliente_terminou" => executor = "local"
    /\ pc[e] = "fim" /\ abandono[e] = "nao" =>
         job[e] \notin Ativos /\ cont[e] \notin Rodando

(* The program delivers a result of its own; one that ended with code 0 in
   Azure is the one whose result the collector kept. *)
EntregaInv ==
  /\ \A e \in Execucoes : mao[e] # Nenhum => mao[e].de = e
  /\ \A e \in Execucoes : cont[e] \in {"entregando", "saiu0"} => mao[e] # Nenhum
  /\ \A e \in Execucoes : NoColetor /\ cont[e] = "saiu0" => coletor[TaskRunDe[e]] = mao[e]
  /\ ~NoColetor => \A t \in TaskRunIds : coletor[t] = Nenhum

(* iniciou remembers that the job was seen running. *)
IniciouInv == \A e \in viu : iniciou[e]

IndInv == TypeOK /\ FormaInv /\ EntregaInv /\ IniciouInv /\ ResultadoProprio

(* A call that has not returned has no result yet. *)
PendenteInv == \A e \in Execucoes : pc[e] # "fim" => devolvido[e] = Nenhum

------------------------------------------------------------------------------
LEMMA ResultadoTipado ==
  ASSUME NEW e \in Execucoes, NEW t \in Veredictos \union {Infra}
  PROVE  /\ ResultadoDe(e, t) \in Resultados
         /\ ResultadoDe(e, t).de = e /\ ResultadoDe(e, t).tipo = t
         /\ ResultadoDe(e, t) # Nenhum
  BY SandboxAssumption DEF ResultadoDe, Resultados

(* What docker publishes for a call is a result of the call's own container. *)
LEMMA PublicadoProprio ==
  ASSUME TypeOK, EntregaInv, NEW e \in Execucoes, NEW r \in Publicados(e)
  PROVE  r \in Resultados /\ r # Nenhum /\ r.de = e
  <1>1. CASE r = mao[e] /\ r # Nenhum
    BY <1>1 DEF TypeOK, EntregaInv
  <1>2. CASE r = ResultadoDe(e, Infra)
    BY <1>2, ResultadoTipado
  <1> QED
    BY <1>1, <1>2 DEF Publicados

LEMMA InitIndInv == Init => IndInv
  BY SandboxAssumption
  DEF Init, IndInv, TypeOK, FormaInv, EntregaInv, IniciouInv, ResultadoProprio, Etapas, Ativos,
      Terminados, Rodando, Encerrados, NoColetor


(* A step of a call keeps the invariant. *)
LEMMA PassoDaChamada ==
  ASSUME IndInv, NEW e \in Execucoes, Chamada(e)
  PROVE  IndInv'
  <1> USE SandboxAssumption
  <1>0. TypeOK /\ FormaInv /\ EntregaInv /\ IniciouInv /\ ResultadoProprio
    BY DEF IndInv
  <1>r. \A t \in Veredictos \union {Infra} :
          /\ ResultadoDe(e, t) \in Resultados /\ ResultadoDe(e, t) # Nenhum
          /\ ResultadoDe(e, t).de = e /\ ResultadoDe(e, t).tipo = t
    BY ResultadoTipado
  <1>1. CASE Rejeitar(e)
    <2>1. TypeOK'
      BY <1>0, <1>r, <1>1 DEF Rejeitar, Ir, Devolver, DevolverInfra, doConteiner,
                              doAcompanhar, TypeOK, Etapas, Ativos, Terminados, Rodando,
                              Encerrados
    <2>2. FormaInv'
      BY <1>0, <1>r, <1>1 DEF Rejeitar, Ir, Devolver, DevolverInfra, doConteiner,
                              doAcompanhar, TypeOK, FormaInv, Etapas, Ativos,
                              Terminados, Rodando, Encerrados
    <2>3. EntregaInv'
      BY <1>0, <1>r, <1>1 DEF Rejeitar, Ir, Devolver, DevolverInfra, doConteiner,
                              doAcompanhar, TypeOK, EntregaInv, NoColetor, Rodando,
                              Encerrados, Terminados
    <2>4. IniciouInv'
      BY <1>0, <1>r, <1>1 DEF Rejeitar, Ir, Devolver, DevolverInfra, doConteiner,
                              doAcompanhar, TypeOK, IniciouInv
    <2>5. ResultadoProprio'
      BY <1>0, <1>r, <1>1 DEF Rejeitar, Ir, Devolver, DevolverInfra, doConteiner,
                              doAcompanhar, TypeOK, FormaInv, EntregaInv,
                              ResultadoProprio, NoColetor
    <2> QED
      BY <2>1, <2>2, <2>3, <2>4, <2>5 DEF IndInv
  <1>2. CASE Partir(e)
    <2>1. TypeOK'
      BY <1>0, <1>r, <1>2 DEF Partir, Ir, doConteiner, doAcompanhar, TypeOK, Etapas,
                              Ativos, Terminados, Rodando, Encerrados
    <2>2. FormaInv'
      BY <1>0, <1>r, <1>2 DEF Partir, Ir, doConteiner, doAcompanhar, TypeOK, FormaInv,
                              Etapas, Ativos, Terminados, Rodando, Encerrados
    <2>3. EntregaInv'
      BY <1>0, <1>r, <1>2 DEF Partir, Ir, doConteiner, doAcompanhar, TypeOK, EntregaInv,
                              NoColetor, Rodando, Encerrados, Terminados
    <2>4. IniciouInv'
      BY <1>0, <1>r, <1>2 DEF Partir, Ir, doConteiner, doAcompanhar, TypeOK, IniciouInv
    <2>5. ResultadoProprio'
      BY <1>0, <1>r, <1>2 DEF Partir, Ir, doConteiner, doAcompanhar, TypeOK, FormaInv,
                              EntregaInv, ResultadoProprio, NoColetor
    <2> QED
      BY <2>1, <2>2, <2>3, <2>4, <2>5 DEF IndInv
  <1>3. CASE Disparar(e)
    <2>1. TypeOK'
      BY <1>0, <1>r, <1>3 DEF Disparar, Ir, Devolver, DevolverInfra, Abandonar,
                              doConteiner, doAcompanhar, TypeOK, Etapas, Ativos,
                              Terminados, Rodando, Encerrados
    <2>2. FormaInv'
      BY <1>0, <1>r, <1>3 DEF Disparar, Ir, Devolver, DevolverInfra, Abandonar,
                              doConteiner, doAcompanhar, TypeOK, FormaInv, Etapas,
                              Ativos, Terminados, Rodando, Encerrados
    <2>3. EntregaInv'
      BY <1>0, <1>r, <1>3 DEF Disparar, Ir, Devolver, DevolverInfra, Abandonar,
                              doConteiner, doAcompanhar, TypeOK, EntregaInv, NoColetor,
                              Rodando, Encerrados, Terminados
    <2>4. IniciouInv'
      BY <1>0, <1>r, <1>3 DEF Disparar, Ir, Devolver, DevolverInfra, Abandonar,
                              doConteiner, doAcompanhar, TypeOK, IniciouInv
    <2>5. ResultadoProprio'
      BY <1>0, <1>r, <1>3 DEF Disparar, Ir, Devolver, DevolverInfra, Abandonar,
                              doConteiner, doAcompanhar, TypeOK, FormaInv, EntregaInv,
                              ResultadoProprio, NoColetor
    <2> QED
      BY <2>1, <2>2, <2>3, <2>4, <2>5 DEF IndInv
  <1>4. CASE ReceberNome(e)
    <2>1. TypeOK'
      BY <1>0, <1>r, <1>4 DEF ReceberNome, Ir, Devolver, DevolverInfra, Abandonar,
                              doConteiner, doAcompanhar, TypeOK, Etapas, Ativos,
                              Terminados, Rodando, Encerrados
    <2>2. FormaInv'
      BY <1>0, <1>r, <1>4 DEF ReceberNome, Ir, Devolver, DevolverInfra, Abandonar,
                              doConteiner, doAcompanhar, TypeOK, FormaInv, Etapas,
                              Ativos, Terminados, Rodando, Encerrados
    <2>3. EntregaInv'
      BY <1>0, <1>r, <1>4 DEF ReceberNome, Ir, Devolver, DevolverInfra, Abandonar,
                              doConteiner, doAcompanhar, TypeOK, EntregaInv, NoColetor,
                              Rodando, Encerrados, Terminados
    <2>4. IniciouInv'
      BY <1>0, <1>r, <1>4 DEF ReceberNome, Ir, Devolver, DevolverInfra, Abandonar,
                              doConteiner, doAcompanhar, TypeOK, IniciouInv
    <2>5. ResultadoProprio'
      BY <1>0, <1>r, <1>4 DEF ReceberNome, Ir, Devolver, DevolverInfra, Abandonar,
                              doConteiner, doAcompanhar, TypeOK, FormaInv, EntregaInv,
                              ResultadoProprio, NoColetor
    <2> QED
      BY <2>1, <2>2, <2>3, <2>4, <2>5 DEF IndInv
  <1>5. CASE Consultar(e)
    <2>0. PICK s \in Lidos(e) :
            \/ /\ s = "Succeeded" /\ job[e] = "Succeeded"
               /\ Ir(e, "aguardar") /\ UNCHANGED <<devolvido, iniciou, viu>>
            \/ /\ job[e] \in Terminados
               /\ DevolverInfra(e) /\ UNCHANGED <<iniciou, viu>>
            \/ /\ iniciou' = [iniciou EXCEPT ![e] = iniciou[e] \/ s = "Running"]
               /\ viu' = IF s = "Running" THEN viu \union {e} ELSE viu
               /\ Ir(e, "parar") \/ Ir(e, "dormir")
               /\ UNCHANGED devolvido
      BY <1>5 DEF Consultar, Lidos, Iniciou, Terminados
    <2>u. /\ pc[e] = "consultar"
          /\ UNCHANGED <<executor, ctxFim, vencido, job, abandono, cont, mao, coletor>>
      BY <1>5 DEF Consultar, doConteiner
    <2>1. TypeOK'
      <3>1. CASE s = "Succeeded" /\ Ir(e, "aguardar") /\ UNCHANGED <<devolvido, iniciou, viu>>
        BY <1>0, <2>u, <3>1 DEF Ir, TypeOK, Etapas
      <3>2. CASE DevolverInfra(e) /\ UNCHANGED <<iniciou, viu>>
        BY <1>0, <1>r, <2>u, <3>2 DEF Ir, Devolver, DevolverInfra, TypeOK, Etapas
      <3>3. CASE /\ iniciou' = [iniciou EXCEPT ![e] = iniciou[e] \/ s = "Running"]
                 /\ viu' = IF s = "Running" THEN viu \union {e} ELSE viu
                 /\ Ir(e, "parar") \/ Ir(e, "dormir")
                 /\ UNCHANGED devolvido
        <4>1. iniciou' \in [Execucoes -> BOOLEAN]
          BY <1>0, <3>3, Zenon DEF TypeOK
        <4> QED
          BY <1>0, <2>u, <3>3, <4>1 DEF Ir, TypeOK, Etapas
      <3> QED
        BY <2>0, <3>1, <3>2, <3>3
    <2>2. FormaInv'
      BY <1>0, <2>0, <2>u DEF Ir, Devolver, DevolverInfra, TypeOK, FormaInv, Ativos, Terminados,
                               Rodando
    <2>3. EntregaInv'
      BY <1>0, <2>u DEF EntregaInv, NoColetor
    <2>4. IniciouInv'
      <3> SUFFICES ASSUME NEW f \in viu' PROVE iniciou'[f]
        BY DEF IniciouInv
      <3>1. CASE UNCHANGED <<iniciou, viu>>
        BY <1>0, <3>1, Zenon DEF IniciouInv
      <3>2. CASE /\ iniciou' = [iniciou EXCEPT ![e] = iniciou[e] \/ s = "Running"]
                 /\ viu' = IF s = "Running" THEN viu \union {e} ELSE viu
        <4>0. f \in Execucoes /\ (f \in viu \/ (f = e /\ s = "Running"))
          BY <1>0, <3>2 DEF TypeOK
        <4>1. iniciou[f] \/ (f = e /\ s = "Running")
          BY <1>0, <4>0, Zenon DEF IniciouInv
        <4>2. f = e => (iniciou'[f] <=> (iniciou[f] \/ s = "Running"))
          BY <1>0, <3>2, Zenon DEF TypeOK
        <4>3. f # e => iniciou'[f] = iniciou[f]
          BY <1>0, <3>2, <4>0, Zenon DEF TypeOK
        <4> QED
          BY <4>1, <4>2, <4>3, Zenon
      <3> QED
        BY <2>0, <3>1, <3>2
    <2>5. ResultadoProprio'
      BY <1>0, <1>r, <2>0, <2>u DEF Ir, Devolver, DevolverInfra, TypeOK, ResultadoProprio
    <2> QED
      BY <2>1, <2>2, <2>3, <2>4, <2>5 DEF IndInv
  <1>6. CASE Dormir(e)
    <2>1. TypeOK'
      BY <1>0, <1>r, <1>6 DEF Dormir, Ir, doConteiner, doAcompanhar, TypeOK, Etapas,
                              Ativos, Terminados, Rodando, Encerrados
    <2>2. FormaInv'
      BY <1>0, <1>r, <1>6 DEF Dormir, Ir, doConteiner, doAcompanhar, TypeOK, FormaInv,
                              Etapas, Ativos, Terminados, Rodando, Encerrados
    <2>3. EntregaInv'
      BY <1>0, <1>r, <1>6 DEF Dormir, Ir, doConteiner, doAcompanhar, TypeOK, EntregaInv,
                              NoColetor, Rodando, Encerrados, Terminados
    <2>4. IniciouInv'
      BY <1>0, <1>r, <1>6 DEF Dormir, Ir, doConteiner, doAcompanhar, TypeOK, IniciouInv
    <2>5. ResultadoProprio'
      BY <1>0, <1>r, <1>6 DEF Dormir, Ir, doConteiner, doAcompanhar, TypeOK, FormaInv,
                              EntregaInv, ResultadoProprio, NoColetor
    <2> QED
      BY <2>1, <2>2, <2>3, <2>4, <2>5 DEF IndInv
  <1>7. CASE Parar(e)
    <2>1. TypeOK'
      BY <1>0, <1>r, <1>7 DEF Parar, Ir, Devolver, DevolverInfra, Abandonar,
                              doConteiner, doAcompanhar, TypeOK, Etapas, Ativos,
                              Terminados, Rodando, Encerrados
    <2>2. FormaInv'
      BY <1>0, <1>r, <1>7 DEF Parar, Ir, Devolver, DevolverInfra, Abandonar,
                              doConteiner, doAcompanhar, TypeOK, FormaInv, Etapas,
                              Ativos, Terminados, Rodando, Encerrados
    <2>3. EntregaInv'
      BY <1>0, <1>r, <1>7 DEF Parar, Ir, Devolver, DevolverInfra, Abandonar,
                              doConteiner, doAcompanhar, TypeOK, EntregaInv, NoColetor,
                              Rodando, Encerrados, Terminados
    <2>4. IniciouInv'
      BY <1>0, <1>r, <1>7 DEF Parar, Ir, Devolver, DevolverInfra, Abandonar,
                              doConteiner, doAcompanhar, TypeOK, IniciouInv
    <2>5. ResultadoProprio'
      BY <1>0, <1>r, <1>7 DEF Parar, Ir, Devolver, DevolverInfra, Abandonar,
                              doConteiner, doAcompanhar, TypeOK, FormaInv, EntregaInv,
                              ResultadoProprio, NoColetor
    <2> QED
      BY <2>1, <2>2, <2>3, <2>4, <2>5 DEF IndInv
  <1>8. CASE ConfirmarParada(e)
    <2>1. TypeOK'
      BY <1>0, <1>r, <1>8 DEF ConfirmarParada, Ir, Devolver, DevolverInfra, Abandonar,
                              doConteiner, doAcompanhar, TypeOK, Etapas, Ativos,
                              Terminados, Rodando, Encerrados
    <2>2. FormaInv'
      BY <1>0, <1>r, <1>8 DEF ConfirmarParada, Ir, Devolver, DevolverInfra, Abandonar,
                              doConteiner, doAcompanhar, TypeOK, FormaInv, Etapas,
                              Ativos, Terminados, Rodando, Encerrados
    <2>3. EntregaInv'
      BY <1>0, <1>r, <1>8 DEF ConfirmarParada, Ir, Devolver, DevolverInfra, Abandonar,
                              doConteiner, doAcompanhar, TypeOK, EntregaInv, NoColetor,
                              Rodando, Encerrados, Terminados
    <2>4. IniciouInv'
      BY <1>0, <1>r, <1>8 DEF ConfirmarParada, Ir, Devolver, DevolverInfra, Abandonar,
                              doConteiner, doAcompanhar, TypeOK, IniciouInv
    <2>5. ResultadoProprio'
      BY <1>0, <1>r, <1>8 DEF ConfirmarParada, Ir, Devolver, DevolverInfra, Abandonar,
                              doConteiner, doAcompanhar, TypeOK, FormaInv, EntregaInv,
                              ResultadoProprio, NoColetor
    <2> QED
      BY <2>1, <2>2, <2>3, <2>4, <2>5 DEF IndInv
  <1>9. CASE LerResultado(e)
    <2>1. TypeOK'
      BY <1>0, <1>r, <1>9 DEF LerResultado, Ir, Devolver, doConteiner, doAcompanhar,
                              TypeOK, Etapas, Ativos, Terminados, Rodando, Encerrados
    <2>2. FormaInv'
      BY <1>0, <1>r, <1>9 DEF LerResultado, Ir, Devolver, doConteiner, doAcompanhar,
                              TypeOK, FormaInv, Etapas, Ativos, Terminados, Rodando,
                              Encerrados
    <2>3. EntregaInv'
      BY <1>0, <1>r, <1>9 DEF LerResultado, Ir, Devolver, doConteiner, doAcompanhar,
                              TypeOK, EntregaInv, NoColetor, Rodando, Encerrados,
                              Terminados
    <2>4. IniciouInv'
      BY <1>0, <1>r, <1>9 DEF LerResultado, Ir, Devolver, doConteiner, doAcompanhar,
                              TypeOK, IniciouInv
    <2>5. ResultadoProprio'
      BY <1>0, <1>r, <1>9 DEF LerResultado, Ir, Devolver, doConteiner, doAcompanhar,
                              TypeOK, FormaInv, EntregaInv, ResultadoProprio, NoColetor
    <2> QED
      BY <2>1, <2>2, <2>3, <2>4, <2>5 DEF IndInv
  <1>10. CASE DesistirDoColetor(e)
    <2>1. TypeOK'
      BY <1>0, <1>r, <1>10 DEF DesistirDoColetor, Ir, Devolver, DevolverInfra,
                               doConteiner, doAcompanhar, TypeOK, Etapas, Ativos,
                               Terminados, Rodando, Encerrados
    <2>2. FormaInv'
      BY <1>0, <1>r, <1>10 DEF DesistirDoColetor, Ir, Devolver, DevolverInfra,
                               doConteiner, doAcompanhar, TypeOK, FormaInv, Etapas,
                               Ativos, Terminados, Rodando, Encerrados
    <2>3. EntregaInv'
      BY <1>0, <1>r, <1>10 DEF DesistirDoColetor, Ir, Devolver, DevolverInfra,
                               doConteiner, doAcompanhar, TypeOK, EntregaInv, NoColetor,
                               Rodando, Encerrados, Terminados
    <2>4. IniciouInv'
      BY <1>0, <1>r, <1>10 DEF DesistirDoColetor, Ir, Devolver, DevolverInfra,
                               doConteiner, doAcompanhar, TypeOK, IniciouInv
    <2>5. ResultadoProprio'
      BY <1>0, <1>r, <1>10 DEF DesistirDoColetor, Ir, Devolver, DevolverInfra,
                               doConteiner, doAcompanhar, TypeOK, FormaInv, EntregaInv,
                               ResultadoProprio, NoColetor
    <2> QED
      BY <2>1, <2>2, <2>3, <2>4, <2>5 DEF IndInv
  <1>11. CASE RodarDocker(e)
    <2>1. TypeOK'
      BY <1>0, <1>r, <1>11 DEF RodarDocker, Ir, Devolver, DevolverInfra, doConteiner,
                               doAcompanhar, TypeOK, Etapas, Ativos, Terminados,
                               Rodando, Encerrados
    <2>2. FormaInv'
      BY <1>0, <1>r, <1>11 DEF RodarDocker, Ir, Devolver, DevolverInfra, doConteiner,
                               doAcompanhar, TypeOK, FormaInv, Etapas, Ativos,
                               Terminados, Rodando, Encerrados
    <2>3. EntregaInv'
      BY <1>0, <1>r, <1>11 DEF RodarDocker, Ir, Devolver, DevolverInfra, doConteiner,
                               doAcompanhar, TypeOK, EntregaInv, NoColetor, Rodando,
                               Encerrados, Terminados
    <2>4. IniciouInv'
      BY <1>0, <1>r, <1>11 DEF RodarDocker, Ir, Devolver, DevolverInfra, doConteiner,
                               doAcompanhar, TypeOK, IniciouInv
    <2>5. ResultadoProprio'
      BY <1>0, <1>r, <1>11 DEF RodarDocker, Ir, Devolver, DevolverInfra, doConteiner,
                               doAcompanhar, TypeOK, FormaInv, EntregaInv,
                               ResultadoProprio, NoColetor
    <2> QED
      BY <2>1, <2>2, <2>3, <2>4, <2>5 DEF IndInv
  <1>12. CASE DockerTermina(e)
    <2>0. \/ Ir(e, "remover") /\ UNCHANGED devolvido
          \/ cont[e] \in Encerrados /\ \E r \in Resultados : r # Nenhum /\ r.de = e /\ Devolver(e, r)
      BY <1>0, <1>12, PublicadoProprio DEF DockerTermina
    <2>u. /\ pc[e] = "docker"
          /\ UNCHANGED <<executor, ctxFim, job, abandono, vencido, iniciou, viu, cont, mao, coletor>>
      BY <1>12 DEF DockerTermina, doConteiner, doAcompanhar
    <2>1. TypeOK'
      BY <1>0, <2>0, <2>u DEF Ir, Devolver, TypeOK, Etapas
    <2>2. FormaInv'
      BY <1>0, <2>0, <2>u DEF Ir, Devolver, TypeOK, FormaInv, Ativos,
                             Terminados, Rodando, Encerrados
    <2>3. EntregaInv'
      BY <1>0, <2>u DEF EntregaInv, NoColetor
    <2>4. IniciouInv'
      BY <1>0, <2>u DEF IniciouInv
    <2>5. ResultadoProprio'
      BY <1>0, <2>0, <2>u DEF Ir, Devolver, TypeOK, FormaInv, ResultadoProprio
    <2> QED
      BY <2>1, <2>2, <2>3, <2>4, <2>5 DEF IndInv
  <1>13. CASE Remover(e)
    <2>1. TypeOK'
      BY <1>0, <1>r, <1>13 DEF Remover, Ir, Devolver, DevolverInfra, Abandonar,
                               doConteiner, doAcompanhar, TypeOK, Etapas, Ativos,
                               Terminados, Rodando, Encerrados
    <2>2. FormaInv'
      BY <1>0, <1>r, <1>13 DEF Remover, Ir, Devolver, DevolverInfra, Abandonar,
                               doConteiner, doAcompanhar, TypeOK, FormaInv, Etapas,
                               Ativos, Terminados, Rodando, Encerrados
    <2>3. EntregaInv'
      BY <1>0, <1>r, <1>13 DEF Remover, Ir, Devolver, DevolverInfra, Abandonar,
                               doConteiner, doAcompanhar, TypeOK, EntregaInv, NoColetor,
                               Rodando, Encerrados, Terminados
    <2>4. IniciouInv'
      BY <1>0, <1>r, <1>13 DEF Remover, Ir, Devolver, DevolverInfra, Abandonar,
                               doConteiner, doAcompanhar, TypeOK, IniciouInv
    <2>5. ResultadoProprio'
      BY <1>0, <1>r, <1>13 DEF Remover, Ir, Devolver, DevolverInfra, Abandonar,
                               doConteiner, doAcompanhar, TypeOK, FormaInv, EntregaInv,
                               ResultadoProprio, NoColetor
    <2> QED
      BY <2>1, <2>2, <2>3, <2>4, <2>5 DEF IndInv
  <1> QED
    BY <1>1, <1>2, <1>3, <1>4, <1>5, <1>6, <1>7, <1>8, <1>9, <1>10, <1>11, <1>12, <1>13 DEF Chamada

(* A step of the program in the container keeps the invariant. *)
LEMMA PassoDoPrograma ==
  ASSUME IndInv, NEW e \in Execucoes, Programa(e)
  PROVE  IndInv'
  <1> USE SandboxAssumption
  <1>0. TypeOK /\ FormaInv /\ EntregaInv /\ IniciouInv /\ ResultadoProprio
    BY DEF IndInv
  <1>r. \A t \in Veredictos \union {Infra} :
          /\ ResultadoDe(e, t) \in Resultados /\ ResultadoDe(e, t) # Nenhum
          /\ ResultadoDe(e, t).de = e /\ ResultadoDe(e, t).tipo = t
    BY ResultadoTipado
  <1>1. CASE Ler(e)
    <2>1. TypeOK'
      BY <1>0, <1>r, <1>1 DEF Ler, Escrever, doConteiner, doAcompanhar, TypeOK, Etapas,
                              Ativos, Terminados, Rodando, Encerrados
    <2>2. FormaInv'
      BY <1>0, <1>r, <1>1 DEF Ler, Escrever, doConteiner, doAcompanhar, TypeOK,
                              FormaInv, Etapas, Ativos, Terminados, Rodando, Encerrados
    <2>3. EntregaInv'
      BY <1>0, <1>r, <1>1 DEF Ler, Escrever, doConteiner, doAcompanhar, TypeOK,
                              EntregaInv, NoColetor, Rodando, Encerrados, Terminados
    <2>4. IniciouInv'
      BY <1>0, <1>r, <1>1 DEF Ler, Escrever, doConteiner, doAcompanhar, TypeOK,
                              IniciouInv
    <2>5. ResultadoProprio'
      BY <1>0, <1>r, <1>1 DEF Ler, Escrever, doConteiner, doAcompanhar, TypeOK,
                              FormaInv, EntregaInv, ResultadoProprio, NoColetor
    <2> QED
      BY <2>1, <2>2, <2>3, <2>4, <2>5 DEF IndInv
  <1>2. CASE Clonar(e)
    <2>1. TypeOK'
      BY <1>0, <1>r, <1>2 DEF Clonar, Escrever, doConteiner, doAcompanhar, TypeOK,
                              Etapas, Ativos, Terminados, Rodando, Encerrados
    <2>2. FormaInv'
      BY <1>0, <1>r, <1>2 DEF Clonar, Escrever, doConteiner, doAcompanhar, TypeOK,
                              FormaInv, Etapas, Ativos, Terminados, Rodando, Encerrados
    <2>3. EntregaInv'
      BY <1>0, <1>r, <1>2 DEF Clonar, Escrever, doConteiner, doAcompanhar, TypeOK,
                              EntregaInv, NoColetor, Rodando, Encerrados, Terminados
    <2>4. IniciouInv'
      BY <1>0, <1>r, <1>2 DEF Clonar, Escrever, doConteiner, doAcompanhar, TypeOK,
                              IniciouInv
    <2>5. ResultadoProprio'
      BY <1>0, <1>r, <1>2 DEF Clonar, Escrever, doConteiner, doAcompanhar, TypeOK,
                              FormaInv, EntregaInv, ResultadoProprio, NoColetor
    <2> QED
      BY <2>1, <2>2, <2>3, <2>4, <2>5 DEF IndInv
  <1>3. CASE Testar(e)
    <2>1. TypeOK'
      BY <1>0, <1>r, <1>3 DEF Testar, Escrever, doConteiner, doAcompanhar, TypeOK,
                              Etapas, Ativos, Terminados, Rodando, Encerrados
    <2>2. FormaInv'
      BY <1>0, <1>r, <1>3 DEF Testar, Escrever, doConteiner, doAcompanhar, TypeOK,
                              FormaInv, Etapas, Ativos, Terminados, Rodando, Encerrados
    <2>3. EntregaInv'
      BY <1>0, <1>r, <1>3 DEF Testar, Escrever, doConteiner, doAcompanhar, TypeOK,
                              EntregaInv, NoColetor, Rodando, Encerrados, Terminados
    <2>4. IniciouInv'
      BY <1>0, <1>r, <1>3 DEF Testar, Escrever, doConteiner, doAcompanhar, TypeOK,
                              IniciouInv
    <2>5. ResultadoProprio'
      BY <1>0, <1>r, <1>3 DEF Testar, Escrever, doConteiner, doAcompanhar, TypeOK,
                              FormaInv, EntregaInv, ResultadoProprio, NoColetor
    <2> QED
      BY <2>1, <2>2, <2>3, <2>4, <2>5 DEF IndInv
  <1>4. CASE Entregar(e)
    <2>1. TypeOK'
      BY <1>0, <1>r, <1>4 DEF Entregar, Gravar, Sair, NoColetor, doConteiner,
                              doAcompanhar, TypeOK, Etapas, Ativos, Terminados, Rodando,
                              Encerrados
    <2>2. FormaInv'
      BY <1>0, <1>r, <1>4 DEF Entregar, Gravar, Sair, NoColetor, doConteiner,
                              doAcompanhar, TypeOK, FormaInv, Etapas, Ativos,
                              Terminados, Rodando, Encerrados
    <2>3. EntregaInv'
      BY <1>0, <1>r, <1>4 DEF Entregar, Gravar, Sair, NoColetor, doConteiner,
                              doAcompanhar, TypeOK, EntregaInv, Rodando, Encerrados,
                              Terminados
    <2>4. IniciouInv'
      BY <1>0, <1>r, <1>4 DEF Entregar, Gravar, Sair, NoColetor, doConteiner,
                              doAcompanhar, TypeOK, IniciouInv
    <2>5. ResultadoProprio'
      BY <1>0, <1>r, <1>4 DEF Entregar, Gravar, Sair, NoColetor, doConteiner,
                              doAcompanhar, TypeOK, FormaInv, EntregaInv,
                              ResultadoProprio
    <2> QED
      BY <2>1, <2>2, <2>3, <2>4, <2>5 DEF IndInv
  <1> QED
    BY <1>1, <1>2, <1>3, <1>4 DEF Programa

(* A step of Azure, the host and the clocks keeps the invariant. *)
LEMMA PassoDoAmbiente ==
  ASSUME IndInv, NEW e \in Execucoes, Ambiente(e)
  PROVE  IndInv'
  <1> USE SandboxAssumption
  <1>0. TypeOK /\ FormaInv /\ EntregaInv /\ IniciouInv /\ ResultadoProprio
    BY DEF IndInv
  <1>r. \A t \in Veredictos \union {Infra} :
          /\ ResultadoDe(e, t) \in Resultados /\ ResultadoDe(e, t) # Nenhum
          /\ ResultadoDe(e, t).de = e /\ ResultadoDe(e, t).tipo = t
    BY ResultadoTipado
  <1>1. CASE IniciarJob(e)
    <2>1. TypeOK'
      BY <1>0, <1>r, <1>1 DEF IniciarJob, doConteiner, doAcompanhar, TypeOK, Etapas,
                              Ativos, Terminados, Rodando, Encerrados
    <2>2. FormaInv'
      BY <1>0, <1>r, <1>1 DEF IniciarJob, doConteiner, doAcompanhar, TypeOK, FormaInv,
                              Etapas, Ativos, Terminados, Rodando, Encerrados
    <2>3. EntregaInv'
      BY <1>0, <1>r, <1>1 DEF IniciarJob, doConteiner, doAcompanhar, TypeOK, EntregaInv,
                              NoColetor, Rodando, Encerrados, Terminados
    <2>4. IniciouInv'
      BY <1>0, <1>r, <1>1 DEF IniciarJob, doConteiner, doAcompanhar, TypeOK, IniciouInv
    <2>5. ResultadoProprio'
      BY <1>0, <1>r, <1>1 DEF IniciarJob, doConteiner, doAcompanhar, TypeOK, FormaInv,
                              EntregaInv, ResultadoProprio, NoColetor
    <2> QED
      BY <2>1, <2>2, <2>3, <2>4, <2>5 DEF IndInv
  <1>2. CASE EncerrarJob(e)
    <2>1. TypeOK'
      BY <1>0, <1>r, <1>2 DEF EncerrarJob, doConteiner, doAcompanhar, TypeOK, Etapas,
                              Ativos, Terminados, Rodando, Encerrados
    <2>2. FormaInv'
      BY <1>0, <1>r, <1>2 DEF EncerrarJob, doConteiner, doAcompanhar, TypeOK, FormaInv,
                              Etapas, Ativos, Terminados, Rodando, Encerrados
    <2>3. EntregaInv'
      BY <1>0, <1>r, <1>2 DEF EncerrarJob, doConteiner, doAcompanhar, TypeOK,
                              EntregaInv, NoColetor, Rodando, Encerrados, Terminados
    <2>4. IniciouInv'
      BY <1>0, <1>r, <1>2 DEF EncerrarJob, doConteiner, doAcompanhar, TypeOK, IniciouInv
    <2>5. ResultadoProprio'
      BY <1>0, <1>r, <1>2 DEF EncerrarJob, doConteiner, doAcompanhar, TypeOK, FormaInv,
                              EntregaInv, ResultadoProprio, NoColetor
    <2> QED
      BY <2>1, <2>2, <2>3, <2>4, <2>5 DEF IndInv
  <1>3. CASE InterromperJob(e)
    <2>1. TypeOK'
      BY <1>0, <1>r, <1>3 DEF InterromperJob, doConteiner, doAcompanhar, TypeOK, Etapas,
                              Ativos, Terminados, Rodando, Encerrados
    <2>2. FormaInv'
      BY <1>0, <1>r, <1>3 DEF InterromperJob, doConteiner, doAcompanhar, TypeOK,
                              FormaInv, Etapas, Ativos, Terminados, Rodando, Encerrados
    <2>3. EntregaInv'
      BY <1>0, <1>r, <1>3 DEF InterromperJob, doConteiner, doAcompanhar, TypeOK,
                              EntregaInv, NoColetor, Rodando, Encerrados, Terminados
    <2>4. IniciouInv'
      BY <1>0, <1>r, <1>3 DEF InterromperJob, doConteiner, doAcompanhar, TypeOK,
                              IniciouInv
    <2>5. ResultadoProprio'
      BY <1>0, <1>r, <1>3 DEF InterromperJob, doConteiner, doAcompanhar, TypeOK,
                              FormaInv, EntregaInv, ResultadoProprio, NoColetor
    <2> QED
      BY <2>1, <2>2, <2>3, <2>4, <2>5 DEF IndInv
  <1>4. CASE PerderHost(e)
    <2>1. TypeOK'
      BY <1>0, <1>r, <1>4 DEF PerderHost, doConteiner, doAcompanhar, TypeOK, Etapas,
                              Ativos, Terminados, Rodando, Encerrados
    <2>2. FormaInv'
      BY <1>0, <1>r, <1>4 DEF PerderHost, doConteiner, doAcompanhar, TypeOK, FormaInv,
                              Etapas, Ativos, Terminados, Rodando, Encerrados
    <2>3. EntregaInv'
      BY <1>0, <1>r, <1>4 DEF PerderHost, doConteiner, doAcompanhar, TypeOK, EntregaInv,
                              NoColetor, Rodando, Encerrados, Terminados
    <2>4. IniciouInv'
      BY <1>0, <1>r, <1>4 DEF PerderHost, doConteiner, doAcompanhar, TypeOK, IniciouInv
    <2>5. ResultadoProprio'
      BY <1>0, <1>r, <1>4 DEF PerderHost, doConteiner, doAcompanhar, TypeOK, FormaInv,
                              EntregaInv, ResultadoProprio, NoColetor
    <2> QED
      BY <2>1, <2>2, <2>3, <2>4, <2>5 DEF IndInv
  <1>5. CASE PerderDocker(e)
    <2>0. \E r \in Resultados : r # Nenhum /\ r.de = e /\ Devolver(e, r)
      BY <1>0, <1>5, PublicadoProprio DEF PerderDocker
    <2>u. /\ pc[e] = "docker" /\ Abandonar(e, "cliente_terminou")
          /\ UNCHANGED <<executor, ctxFim, job, vencido, iniciou, viu, cont, mao, coletor>>
      BY <1>5 DEF PerderDocker, doConteiner, doAcompanhar
    <2>1. TypeOK'
      BY <1>0, <2>0, <2>u DEF Ir, Devolver, Abandonar, TypeOK, Etapas
    <2>2. FormaInv'
      BY <1>0, <2>0, <2>u DEF Ir, Devolver, Abandonar, TypeOK, FormaInv, Ativos,
                             Terminados, Rodando, Encerrados
    <2>3. EntregaInv'
      BY <1>0, <2>u DEF EntregaInv, NoColetor
    <2>4. IniciouInv'
      BY <1>0, <2>u DEF IniciouInv
    <2>5. ResultadoProprio'
      BY <1>0, <2>0, <2>u DEF Ir, Devolver, TypeOK, FormaInv, ResultadoProprio
    <2> QED
      BY <2>1, <2>2, <2>3, <2>4, <2>5 DEF IndInv
  <1>6. CASE FalharNaLeitura(e)
    <2>1. TypeOK'
      BY <1>0, <1>r, <1>6 DEF FalharNaLeitura, Ir, Devolver, DevolverInfra, doConteiner,
                              doAcompanhar, TypeOK, Etapas, Ativos, Terminados, Rodando,
                              Encerrados
    <2>2. FormaInv'
      BY <1>0, <1>r, <1>6 DEF FalharNaLeitura, Ir, Devolver, DevolverInfra, doConteiner,
                              doAcompanhar, TypeOK, FormaInv, Etapas, Ativos,
                              Terminados, Rodando, Encerrados
    <2>3. EntregaInv'
      BY <1>0, <1>r, <1>6 DEF FalharNaLeitura, Ir, Devolver, DevolverInfra, doConteiner,
                              doAcompanhar, TypeOK, EntregaInv, NoColetor, Rodando,
                              Encerrados, Terminados
    <2>4. IniciouInv'
      BY <1>0, <1>r, <1>6 DEF FalharNaLeitura, Ir, Devolver, DevolverInfra, doConteiner,
                              doAcompanhar, TypeOK, IniciouInv
    <2>5. ResultadoProprio'
      BY <1>0, <1>r, <1>6 DEF FalharNaLeitura, Ir, Devolver, DevolverInfra, doConteiner,
                              doAcompanhar, TypeOK, FormaInv, EntregaInv,
                              ResultadoProprio, NoColetor
    <2> QED
      BY <2>1, <2>2, <2>3, <2>4, <2>5 DEF IndInv
  <1>7. CASE EsgotarPrazo(e)
    <2>1. TypeOK'
      BY <1>0, <1>r, <1>7 DEF EsgotarPrazo, doConteiner, doAcompanhar, TypeOK, Etapas,
                              Ativos, Terminados, Rodando, Encerrados
    <2>2. FormaInv'
      BY <1>0, <1>r, <1>7 DEF EsgotarPrazo, doConteiner, doAcompanhar, TypeOK, FormaInv,
                              Etapas, Ativos, Terminados, Rodando, Encerrados
    <2>3. EntregaInv'
      BY <1>0, <1>r, <1>7 DEF EsgotarPrazo, doConteiner, doAcompanhar, TypeOK,
                              EntregaInv, NoColetor, Rodando, Encerrados, Terminados
    <2>4. IniciouInv'
      BY <1>0, <1>r, <1>7 DEF EsgotarPrazo, doConteiner, doAcompanhar, TypeOK,
                              IniciouInv
    <2>5. ResultadoProprio'
      BY <1>0, <1>r, <1>7 DEF EsgotarPrazo, doConteiner, doAcompanhar, TypeOK, FormaInv,
                              EntregaInv, ResultadoProprio, NoColetor
    <2> QED
      BY <2>1, <2>2, <2>3, <2>4, <2>5 DEF IndInv
  <1>8. CASE VencerInicio(e)
    <2>1. TypeOK'
      BY <1>0, <1>r, <1>8 DEF VencerInicio, doConteiner, doAcompanhar, TypeOK, Etapas,
                              Ativos, Terminados, Rodando, Encerrados
    <2>2. FormaInv'
      BY <1>0, <1>r, <1>8 DEF VencerInicio, doConteiner, doAcompanhar, TypeOK, FormaInv,
                              Etapas, Ativos, Terminados, Rodando, Encerrados
    <2>3. EntregaInv'
      BY <1>0, <1>r, <1>8 DEF VencerInicio, doConteiner, doAcompanhar, TypeOK,
                              EntregaInv, NoColetor, Rodando, Encerrados, Terminados
    <2>4. IniciouInv'
      BY <1>0, <1>r, <1>8 DEF VencerInicio, doConteiner, doAcompanhar, TypeOK,
                              IniciouInv
    <2>5. ResultadoProprio'
      BY <1>0, <1>r, <1>8 DEF VencerInicio, doConteiner, doAcompanhar, TypeOK, FormaInv,
                              EntregaInv, ResultadoProprio, NoColetor
    <2> QED
      BY <2>1, <2>2, <2>3, <2>4, <2>5 DEF IndInv
  <1> QED
    BY <1>1, <1>2, <1>3, <1>4, <1>5, <1>6, <1>7, <1>8 DEF Ambiente

THEOREM Inductive == IndInv /\ [Next]_vars => IndInv'
  <1> SUFFICES ASSUME IndInv, [Next]_vars PROVE IndInv'
    OBVIOUS
  <1>1. CASE UNCHANGED vars
    BY <1>1 DEF vars, doConteiner, doAcompanhar, IndInv, TypeOK, FormaInv, EntregaInv, IniciouInv,
             ResultadoProprio, NoColetor
  <1>2. ASSUME NEW e \in Execucoes, Chamada(e) \/ Programa(e) \/ Ambiente(e) PROVE IndInv'
    BY <1>2, PassoDaChamada, PassoDoPrograma, PassoDoAmbiente
  <1> QED
    BY <1>1, <1>2 DEF Next

THEOREM Invariante == Spec => []IndInv
  BY InitIndInv, Inductive, PTL DEF Spec

(* The variables keep their types. *)
THEOREM TiposCorretos == Spec => []TypeOK
  BY Invariante, PTL DEF IndInv

(* Executor.Executar: a call returns what its own container found, and what it
   returns about the PR is the result recorded for the task_run. *)
THEOREM DevolveOProprio == Spec => []ResultadoProprio
  BY Invariante, PTL DEF IndInv

(* parar and removerContainer: what a call started does not survive it, but
   for a stop or a removal that failed, an execution of Azure whose name was
   never known, and a container whose docker client ended before it. *)
THEOREM NadaFicaRodando == Spec => []NadaSobrevive
  <1>1. IndInv => NadaSobrevive
    <2> SUFFICES ASSUME TypeOK, FormaInv, NEW e \in Execucoes, pc[e] = "fim",
                        job[e] \in Ativos \/ cont[e] \in Rodando
                 PROVE  \/ abandono[e] = "parada_falhou"
                        \/ executor = "azure" /\ abandono[e] = "sem_nome"
                        \/ executor = "local" /\ abandono[e] = "cliente_terminou"
      BY DEF IndInv, NadaSobrevive
    <2>1. abandono[e] \in {"sem_nome", "parada_falhou", "cliente_terminou"}
      BY DEF TypeOK, FormaInv
    <2> QED
      BY <2>1 DEF FormaInv
  <1> QED
    BY <1>1, Invariante, PTL

(* limiteParaIniciar: a job seen running is stopped only by the end of the
   context of the call. *)
THEOREM RodandoNaoPerdeOPrazo == Spec => PrazoDeInicioSoAntesDeRodar
  <1>1. IndInv /\ [Next]_vars => [SoParaSeAcabou]_vars
    <2> SUFFICES ASSUME IndInv, [Next]_vars, NEW e \in Execucoes,
                        pc[e] # "parar", pc'[e] = "parar", e \in viu'
                 PROVE  ctxFim[e]
      BY DEF SoParaSeAcabou
    <2>1. PICK f \in Execucoes : Chamada(f) \/ Programa(f) \/ Ambiente(f)
      BY DEF Next, vars
    <2>2. pc' # pc
      OBVIOUS
    <2>3. Chamada(f) \/ PerderDocker(f) \/ FalharNaLeitura(f)
      BY <2>1, <2>2 DEF Programa, Ler, Clonar, Testar, Entregar, Ambiente, IniciarJob, EncerrarJob,
                        InterromperJob, PerderHost, EsgotarPrazo, VencerInicio
    <2>4. CASE Consultar(f)
      <3>1. f = e
        BY <2>4 DEF Consultar, Ir, Devolver, DevolverInfra, IndInv, TypeOK
      <3>2. viu' \subseteq viu \union {f}
        BY <2>4 DEF Consultar
      <3>3. PICK s \in Lidos(e) : ~Iniciou(e, s) /\ viu' = IF s = "Running" THEN viu \union {e} ELSE viu
        BY <2>4, <3>1 DEF Consultar, Ir, Devolver, DevolverInfra, IndInv, TypeOK
      <3> QED
        BY <3>3 DEF Iniciou, IndInv, IniciouInv
    <2>5. CASE Dormir(f)
      BY <2>5 DEF Dormir, Ir, IndInv, TypeOK
    <2> QED
      BY <2>3, <2>4, <2>5 DEF Chamada, Rejeitar, Partir, Disparar, ReceberNome, Parar,
           ConfirmarParada, LerResultado, DesistirDoColetor, RodarDocker, DockerTermina, Remover,
           PerderDocker, FalharNaLeitura, Ir, Devolver, DevolverInfra, IndInv, TypeOK
  <1> QED
    BY <1>1, Invariante, PTL DEF Spec, PrazoDeInicioSoAntesDeRodar

(* Only a step of a call answers it, and only once: what the step does to the
   answers is to leave them alone or to write that of the call that returns. *)
LEMMA PassoDaResposta ==
  ASSUME IndInv, PendenteInv, NEW e \in Execucoes, Chamada(e) \/ Ambiente(e)
  PROVE  /\ coletor' = coletor /\ executor' = executor
         /\ PendenteInv'
         /\ \/ devolvido' = devolvido
            \/ devolvido[e] = Nenhum /\ \E r : devolvido' = [devolvido EXCEPT ![e] = r]
  <1> USE DEF doConteiner, doAcompanhar
  <1>0. pc \in [Execucoes -> Etapas] /\ devolvido \in [Execucoes -> Resultados \union {Nenhum}]
    BY DEF IndInv, TypeOK
  <1>1. coletor' = coletor /\ executor' = executor
    BY DEF Chamada, Ambiente, Rejeitar, Partir, Disparar, ReceberNome, Consultar, Dormir, Parar,
           ConfirmarParada, LerResultado, DesistirDoColetor, RodarDocker, DockerTermina, Remover,
           IniciarJob, EncerrarJob, InterromperJob, PerderHost, PerderDocker, FalharNaLeitura,
           EsgotarPrazo, VencerInicio
  <1>2. \/ pc' = pc /\ devolvido' = devolvido
        \/ /\ pc[e] # "fim" /\ devolvido' = devolvido
           /\ \E para : pc' = [pc EXCEPT ![e] = para]
        \/ pc[e] # "fim" /\ \E r : Devolver(e, r)
    <2>1. CASE Ambiente(e)
      BY <2>1 DEF Ambiente, IniciarJob, EncerrarJob, InterromperJob, PerderHost, PerderDocker,
                  FalharNaLeitura, EsgotarPrazo, VencerInicio, DevolverInfra
    <2>2. CASE Chamada(e)
      BY <2>2 DEF Chamada, Rejeitar, Partir, Disparar, ReceberNome, Consultar, Dormir, Parar,
                  ConfirmarParada, LerResultado, DesistirDoColetor, RodarDocker, DockerTermina,
                  Remover, DevolverInfra, Ir
    <2> QED
      BY <2>1, <2>2
  <1>3. CASE pc' = pc /\ devolvido' = devolvido
    BY <1>1, <1>3 DEF PendenteInv
  <1>4. CASE /\ pc[e] # "fim" /\ devolvido' = devolvido
             /\ \E para : pc' = [pc EXCEPT ![e] = para]
    BY <1>0, <1>1, <1>4 DEF PendenteInv
  <1>5. CASE pc[e] # "fim" /\ \E r : Devolver(e, r)
    BY <1>0, <1>1, <1>5 DEF PendenteInv, Devolver, Ir
  <1> QED
    BY <1>2, <1>3, <1>4, <1>5

(* The program writes in the collector only what it holds, and only once. *)
LEMMA PassoDoRegistro ==
  ASSUME IndInv, PendenteInv, NEW e \in Execucoes, Programa(e)
  PROVE  /\ devolvido' = devolvido /\ executor' = executor
         /\ PendenteInv'
         /\ \/ coletor' = coletor
            \/ /\ executor = "azure" /\ coletor[TaskRunDe[e]] = Nenhum
               /\ mao[e] \in Resultados /\ mao[e].de = e
               /\ coletor' = [coletor EXCEPT ![TaskRunDe[e]] = mao[e]]
  <1>1. /\ devolvido' = devolvido /\ executor' = executor /\ pc' = pc
        /\ coletor' = coletor \/ (cont[e] = "entregando" /\ NoColetor /\ Gravar(e))
    BY DEF Programa, Ler, Clonar, Testar, Entregar, doAcompanhar
  <1>2. PendenteInv'
    BY <1>1 DEF PendenteInv
  <1>3. CASE cont[e] = "entregando" /\ NoColetor /\ Gravar(e)
    <2>1. mao[e] \in Resultados /\ mao[e].de = e
      BY <1>3 DEF IndInv, TypeOK, EntregaInv
    <2>2. \/ coletor' = coletor
          \/ /\ coletor[TaskRunDe[e]] = Nenhum
             /\ coletor' = [coletor EXCEPT ![TaskRunDe[e]] = mao[e]]
      BY <1>3 DEF Gravar
    <2> QED
      BY <1>1, <1>2, <1>3, <2>1, <2>2 DEF NoColetor
  <1> QED
    BY <1>1, <1>2, <1>3

(* Every step of a call, of a program or of Azure is a step of the promise, or
   changes nothing the promise sees. *)
LEMMA PassoDaPromessa ==
  ASSUME IndInv, IndInv', PendenteInv, [Next]_vars
  PROVE  /\ PendenteInv'
         /\ [Promessa!AbsNext]_(Promessa!absVars)
  <1>1. CASE UNCHANGED vars
    BY <1>1 DEF vars, doConteiner, doAcompanhar, PendenteInv, Promessa!absVars
  <1>2. ASSUME NEW e \in Execucoes, Chamada(e) \/ Ambiente(e)
        PROVE  PendenteInv' /\ [Promessa!AbsNext]_(Promessa!absVars)
    <2>1. /\ coletor' = coletor /\ executor' = executor /\ PendenteInv'
          /\ \/ devolvido' = devolvido
             \/ devolvido[e] = Nenhum /\ \E r : devolvido' = [devolvido EXCEPT ![e] = r]
      BY <1>2, PassoDaResposta
    <2>2. CASE devolvido' = devolvido
      BY <2>1, <2>2 DEF Promessa!absVars
    <2>3. CASE devolvido' # devolvido
      <3>1. PICK r : devolvido[e] = Nenhum /\ devolvido' = [devolvido EXCEPT ![e] = r]
        BY <2>1, <2>3
      <3>2. devolvido \in [Execucoes -> Resultados \union {Nenhum}] /\ devolvido'[e] = r
        BY <3>1 DEF IndInv, TypeOK
      <3>3. r # Nenhum
        BY <2>3, <3>1, <3>2
      <3>4. r \in Resultados /\ r.de = e
        BY <3>2, <3>3 DEF IndInv, TypeOK, ResultadoProprio
      <3>5. executor = "azure" /\ r.tipo # Infra => coletor[TaskRunDe[e]] = r
        BY <2>1, <3>2, <3>3 DEF IndInv, ResultadoProprio
      <3>6. r \in Promessa!Possiveis(e)
        BY <3>4 DEF Promessa!Possiveis, Resultados
      <3>7. Promessa!ResponderChamada(e)
        BY <2>1, <3>1, <3>5, <3>6 DEF Promessa!ResponderChamada
      <3> QED
        BY <2>1, <3>7 DEF Promessa!AbsNext
    <2> QED
      BY <2>2, <2>3
  <1>3. ASSUME NEW e \in Execucoes, Programa(e)
        PROVE  PendenteInv' /\ [Promessa!AbsNext]_(Promessa!absVars)
    <2>1. /\ devolvido' = devolvido /\ executor' = executor /\ PendenteInv'
          /\ \/ coletor' = coletor
             \/ /\ executor = "azure" /\ coletor[TaskRunDe[e]] = Nenhum
                /\ mao[e] \in Resultados /\ mao[e].de = e
                /\ coletor' = [coletor EXCEPT ![TaskRunDe[e]] = mao[e]]
      BY <1>3, PassoDoRegistro
    <2>2. CASE coletor' = coletor
      BY <2>1, <2>2 DEF Promessa!absVars
    <2>3. CASE coletor' # coletor
      <3>1. mao[e] \in Promessa!Possiveis(e)
        BY <2>1, <2>3 DEF Promessa!Possiveis, Resultados
      <3>2. Promessa!RegistrarResultado(e)
        BY <2>1, <2>3, <3>1 DEF Promessa!RegistrarResultado
      <3> QED
        BY <2>1, <3>2 DEF Promessa!AbsNext
    <2> QED
      BY <2>2, <2>3
  <1> QED
    BY <1>1, <1>2, <1>3 DEF Next

(* Executor.Executar implements the promise about the result of a task_run: the
   first one delivered is recorded for good, and a call answers once, with what
   was recorded for its task_run before. *)
THEOREM ImplementaPromessa == Spec => ImplementaResultadoUnico
  <1>1. Init => Promessa!AbsInit /\ PendenteInv
    BY SandboxAssumption DEF Init, Promessa!AbsInit, Promessa!Slots, PendenteInv
  <1>2. IndInv /\ IndInv' /\ PendenteInv /\ [Next]_vars =>
          PendenteInv' /\ [Promessa!AbsNext]_(Promessa!absVars)
    BY PassoDaPromessa
  <1> QED
    BY <1>1, <1>2, Invariante, PTL DEF Spec, ImplementaResultadoUnico, Promessa!AbsSpec

------------------------------------------------------------------------------
(* What the promise means for those who read the results *)

(* Of the calls of one task_run, made again after a failure or by two workers,
   one at most returns a result about the PR where results are recorded. *)
UmVeredicto ==
  executor = "azure" => \A e, f \in Execucoes :
    /\ TaskRunDe[e] = TaskRunDe[f]
    /\ devolvido[e] # Nenhum /\ devolvido[e].tipo # Infra
    /\ devolvido[f] # Nenhum /\ devolvido[f].tipo # Infra
    => e = f

(* A recorded result is never replaced, by the container of a call that was
   given up either, and neither is the answer of a call. *)
Definitivo ==
  /\ \A t \in TaskRunIds : coletor[t] # Nenhum => coletor'[t] = coletor[t]
  /\ \A e \in Execucoes : devolvido[e] # Nenhum => devolvido'[e] = devolvido[e]

(* ColetorResultado.Gravar and LerResultado: for any calls of any task_runs, the
   first result recorded stays and only the call it is of returns it. *)
THEOREM PrimeiroResultadoFica == Spec => []UmVeredicto /\ [][Definitivo]_vars
  <1>1. IndInv => UmVeredicto
    <2> SUFFICES ASSUME ResultadoProprio PROVE UmVeredicto
      BY DEF IndInv
    <2> QED
      BY DEF ResultadoProprio, UmVeredicto
  <1>2. TypeOK /\ [Promessa!AbsNext]_(Promessa!absVars) => [Definitivo]_vars
    <2> SUFFICES ASSUME TypeOK, [Promessa!AbsNext]_(Promessa!absVars) PROVE Definitivo
      OBVIOUS
    <2>1. CASE UNCHANGED Promessa!absVars
      BY <2>1 DEF Promessa!absVars, Definitivo
    <2>2. ASSUME NEW e \in Execucoes, Promessa!RegistrarResultado(e) PROVE Definitivo
      <3>1. /\ coletor[TaskRunDe[e]] = Nenhum /\ devolvido' = devolvido
            /\ \E r : coletor' = [coletor EXCEPT ![TaskRunDe[e]] = r]
        BY <2>2 DEF Promessa!RegistrarResultado
      <3> QED
        BY <3>1 DEF Definitivo, TypeOK
    <2>3. ASSUME NEW e \in Execucoes, Promessa!ResponderChamada(e) PROVE Definitivo
      <3>1. /\ devolvido[e] = Nenhum /\ coletor' = coletor
            /\ \E r : devolvido' = [devolvido EXCEPT ![e] = r]
        BY <2>3 DEF Promessa!ResponderChamada
      <3> QED
        BY <3>1 DEF Definitivo, TypeOK
    <2> QED
      BY <2>1, <2>2, <2>3 DEF Promessa!AbsNext
  <1> QED
    BY <1>1, <1>2, Invariante, TiposCorretos, ImplementaPromessa, PTL
    DEF ImplementaResultadoUnico, Promessa!AbsSpec

------------------------------------------------------------------------------
(* What a call waits for *)

(* ColetorResultado.Aguardar: a call that reads the collector finds there the
   result of its own container, as long as the job has a collector. *)
AguardaOQueExiste ==
  ColetorNoJob => \A e \in Execucoes : pc[e] = "aguardar" =>
    coletor[TaskRunDe[e]] # Nenhum /\ coletor[TaskRunDe[e]].de = e

(* How many steps of its own a call takes at most once its context ended. *)
FaltaDepois(e) ==
  CASE pc[e] = "nova" -> 6
    [] pc[e] \in {"disparar", "criar"} -> 5
    [] pc[e] = "consultar" -> 4
    [] pc[e] = "dormir" -> 3
    [] pc[e] \in {"parar", "docker"} -> 2
    [] pc[e] \in {"parando", "aguardar", "remover"} -> 1
    [] OTHER -> 0

(* Executor.Executar: once its context ended it stays so, every step of the call
   brings it nearer to its end and no other step, of Azure, of docker or of
   another call, takes it back. *)
PrazoAproxima ==
  \A e \in Execucoes : ctxFim[e] =>
    /\ ctxFim'[e] /\ FaltaDepois(e)' <= FaltaDepois(e)
    /\ Chamada(e) => FaltaDepois(e)' < FaltaDepois(e)

LEMMA PassoAposPrazo ==
  ASSUME TypeOK, NEW e \in Execucoes, ctxFim[e], Chamada(e)
  PROVE  FaltaDepois(e)' < FaltaDepois(e) /\ ctxFim'[e]
  <1>1. ctxFim' = ctxFim
    BY DEF Chamada, Rejeitar, Partir, Disparar, ReceberNome, Consultar, Dormir, Parar,
       ConfirmarParada, LerResultado, DesistirDoColetor, RodarDocker, DockerTermina, Remover
  <1> SUFFICES FaltaDepois(e)' < FaltaDepois(e)
    BY <1>1
  <1>2. ASSUME NEW para, Ir(e, para) PROVE pc'[e] = para
    BY <1>2 DEF Ir, TypeOK
  <1>3. ASSUME NEW r, Devolver(e, r) PROVE pc'[e] = "fim"
    BY <1>2, <1>3 DEF Devolver
  <1>4. CASE Rejeitar(e) \/ Partir(e)
    <2>1. pc[e] = "nova" /\ pc'[e] \in {"disparar", "fim"}
      BY <1>2, <1>3, <1>4 DEF Rejeitar, Partir, DevolverInfra
    <2> QED
      BY <2>1 DEF FaltaDepois
  <1>5. CASE Disparar(e) \/ ReceberNome(e)
    <2>1. pc[e] \in {"disparar", "criar"} /\ pc'[e] = "fim"
      BY <1>3, <1>5 DEF Disparar, ReceberNome, DevolverInfra
    <2> QED
      BY <2>1 DEF FaltaDepois
  <1>6. CASE Consultar(e)
    <2>1. Lidos(e) = {"Unknown"}
      BY DEF Lidos
    <2>2. pc[e] = "consultar" /\ pc'[e] \in {"parar", "dormir"}
      BY <1>2, <1>6, <2>1 DEF Consultar, Terminados
    <2> QED
      BY <2>2 DEF FaltaDepois
  <1>7. CASE Dormir(e)
    <2>1. pc[e] = "dormir" /\ pc'[e] = "parar"
      BY <1>2, <1>7 DEF Dormir
    <2> QED
      BY <2>1 DEF FaltaDepois
  <1>8. CASE Parar(e) \/ ConfirmarParada(e)
    <2>1. \/ pc[e] = "parar" /\ pc'[e] \in {"parando", "fim"}
          \/ pc[e] = "parando" /\ pc'[e] = "fim"
      BY <1>2, <1>3, <1>8 DEF Parar, ConfirmarParada, DevolverInfra
    <2> QED
      BY <2>1 DEF FaltaDepois
  <1>9. CASE LerResultado(e) \/ DesistirDoColetor(e)
    <2>1. pc[e] = "aguardar" /\ pc'[e] = "fim"
      BY <1>3, <1>9 DEF LerResultado, DesistirDoColetor, DevolverInfra
    <2> QED
      BY <2>1 DEF FaltaDepois
  <1>10. CASE RodarDocker(e) \/ DockerTermina(e) \/ Remover(e)
    <2>1. \/ pc[e] = "nova" /\ pc'[e] = "remover"
          \/ pc[e] = "docker" /\ pc'[e] = "remover"
          \/ pc[e] = "remover" /\ pc'[e] = "fim"
      BY <1>2, <1>3, <1>10 DEF RodarDocker, DockerTermina, Remover, DevolverInfra
    <2> QED
      BY <2>1 DEF FaltaDepois
  <1> QED
    BY <1>4, <1>5, <1>6, <1>7, <1>8, <1>9, <1>10 DEF Chamada

(* acompanhar, Aguardar, parar and removerContainer: for any calls, one that
   waits for its result finds it, and one whose context ended returns within six
   steps of its own, whatever the others, Azure and docker do or fail to do. *)
THEOREM NaoEsperaEmVao == Spec => []AguardaOQueExiste /\ [][PrazoAproxima]_vars
  <1>1. TypeOK /\ [Next]_vars => [PrazoAproxima]_vars
    <2> SUFFICES ASSUME TypeOK, Next, NEW e \in Execucoes, ctxFim[e]
                 PROVE  /\ ctxFim'[e] /\ FaltaDepois(e)' <= FaltaDepois(e)
                        /\ Chamada(e) => FaltaDepois(e)' < FaltaDepois(e)
      BY DEF PrazoAproxima
    <2>0. FaltaDepois(e) \in 0 .. 6 /\ FaltaDepois(e)' \in 0 .. 6
      BY DEF FaltaDepois
    <2>1. Chamada(e) => FaltaDepois(e)' < FaltaDepois(e) /\ ctxFim'[e]
      BY PassoAposPrazo
    <2>2. ASSUME ~Chamada(e) PROVE ctxFim'[e] /\ pc'[e] \in {pc[e], "fim"}
      <3>1. PICK f \in Execucoes : Chamada(f) \/ Programa(f) \/ Ambiente(f)
        BY DEF Next
      <3>2. ASSUME f # e, Chamada(f) PROVE ctxFim' = ctxFim /\ pc'[e] = pc[e]
        BY <3>2 DEF TypeOK, Ir, Devolver, DevolverInfra, Chamada, Rejeitar, Partir, Disparar,
           ReceberNome, Consultar, Dormir, Parar, ConfirmarParada, LerResultado,
           DesistirDoColetor, RodarDocker, DockerTermina, Remover
      <3>3. ASSUME Programa(f) PROVE UNCHANGED <<pc, ctxFim>>
        BY <3>3 DEF Programa, Ler, Clonar, Testar, Entregar
      <3>4. ASSUME IniciarJob(f) \/ EncerrarJob(f) \/ InterromperJob(f) \/ PerderHost(f) \/ VencerInicio(f)
            PROVE  UNCHANGED <<pc, ctxFim>>
        BY <3>4 DEF IniciarJob, EncerrarJob, InterromperJob, PerderHost, VencerInicio
      <3>5. ASSUME EsgotarPrazo(f) PROVE pc' = pc /\ ctxFim'[e]
        BY <3>5 DEF EsgotarPrazo, TypeOK
      <3>6. ASSUME PerderDocker(f) \/ FalharNaLeitura(f)
            PROVE  ctxFim' = ctxFim /\ pc'[e] \in {pc[e], "fim"}
        BY <3>6 DEF PerderDocker, FalharNaLeitura, DevolverInfra, Devolver, Ir, TypeOK
      <3> QED
        BY <2>2, <3>1, <3>2, <3>3, <3>4, <3>5, <3>6 DEF Ambiente
    <2>3. pc'[e] \in {pc[e], "fim"} => FaltaDepois(e)' <= FaltaDepois(e)
      BY <2>0 DEF FaltaDepois
    <2> QED
      BY <2>0, <2>1, <2>2, <2>3
  <1>2. IndInv => AguardaOQueExiste
    <2> SUFFICES ASSUME TypeOK, FormaInv, EntregaInv, ColetorNoJob, NEW e \in Execucoes, pc[e] = "aguardar"
                 PROVE  coletor[TaskRunDe[e]] # Nenhum /\ coletor[TaskRunDe[e]].de = e
      BY DEF IndInv, AguardaOQueExiste
    <2>1. NoColetor
      BY DEF TypeOK, FormaInv, NoColetor
    <2>2. cont[e] = "saiu0"
      BY DEF FormaInv
    <2> QED
      BY <2>1, <2>2 DEF EntregaInv
  <1> QED
    BY <1>1, <1>2, Invariante, TiposCorretos, PTL DEF Spec
==============================================================================
