----------------------------- MODULE Tokens_proofs -----------------------------
(* Proofs about Tokens.  The inductive invariant IndInv says that the calls of a
   renewal have one leader, that no call lasts longer than Duracao, and that a
   token in a call is of its installation and outlives the call: one from the
   cache by the margin, one from GitHub by its validity less what the leader and
   those that wait may have taken, which the margin covers twice.  At the end: the
   cache only advances, and who waits has somebody to wait for. *)
EXTENDS Tokens, TLAPS

------------------------------------------------------------------------------
(* The inductive invariant, in named parts. *)

(* The call that runs the renewal of an installation is its leader. *)
LiderInv ==
  /\ \A c \in Chamadas : pc[c] \in NaRenovacao => lider[Inst(c)] = c
  /\ \A i \in Instalacoes : lider[i] # Nenhum => pc[lider[i]] \in NaRenovacao /\ Inst(lider[i]) = i

(* No call began in the future or lasts longer than Duracao. *)
TempoInv ==
  \A c \in Chamadas : inicio[c] <= relogio /\ (EmCurso(c) => relogio <= inicio[c] + Duracao)

(* A token is of its installation; the one a leader got is good for Validade
   from a moment of its call, and the one handed over to those that waited was
   good for the margin when none of them had been waiting for longer than the
   leader took. *)
TokenInv ==
  /\ \A i \in Instalacoes : tokens[i] # Nenhum => tokens[i].instalacao = i
  /\ \A c \in Chamadas : mao[c] \in Tokens => mao[c].instalacao = Inst(c)
  /\ \A c \in Chamadas : pc[c] \in {"guardar", "concluir"} =>
       mao[c] \in Tokens /\ inicio[c] + Validade <= mao[c].expiraEm
  /\ \A c \in Chamadas : pc[c] = "retornar" => mao[c] # Nenhum
  /\ \A c \in Chamadas : pc[c] = "retornar" /\ mao[c] \in Tokens =>
       inicio[c] + Duracao <= mao[c].expiraEm

(* Errors are counted only while the leader makes its requests. *)
ErrosInv == \A c \in Chamadas : pc[c] # "pedir" => erros[c] = <<>>

IndInv ==
  /\ TypeOK /\ LiderInv /\ TempoInv /\ TokenInv /\ ErrosInv
  /\ RenovacaoNecessaria /\ RetentativaContida

------------------------------------------------------------------------------
(* A token is no error, and neither is nil. *)
LEMMA Distintos == Tokens \intersect Erros = {} /\ Nenhum \notin Tokens /\ Nenhum \notin Erros
  BY TokensAssumption DEF Tokens, Erros

(* What the end of fn does to the calls of its renewal and to the others. *)
LEMMA EfeitoDeConcluida ==
  ASSUME TypeOK, NEW c \in Chamadas, NEW valor \in Tokens \union Erros, Concluida(c, valor)
  PROVE  /\ lider' = [lider EXCEPT ![Inst(c)] = Nenhum]
         /\ pc' \in [Chamadas -> Etapas] /\ mao' \in [Chamadas -> Tokens \union Erros \union {Nenhum}]
         /\ pc'[c] = "retornar" /\ mao'[c] = valor
         /\ \A d \in Chamadas :
              \/ pc'[d] = pc[d] /\ mao'[d] = mao[d] /\ (pc[d] # "espera" \/ Inst(d) # Inst(c))
              \/ /\ pc'[d] = "retornar" /\ mao'[d] = valor /\ Inst(d) = Inst(c)
                 /\ d = c \/ pc[d] = "espera"
  BY DEF Concluida, TypeOK, Etapas

LEMMA InitIndInv == Init => IndInv
  BY TokensAssumption, Distintos
  DEF Init, IndInv, TypeOK, LiderInv, TempoInv, TokenInv, ErrosInv, RenovacaoNecessaria,
      RetentativaContida, Etapas, NaRenovacao, EmCurso

(* A step of a call keeps the invariant. *)
LEMMA PassoDaChamada ==
  ASSUME IndInv, NEW c \in Chamadas, Chamar(c) \/ Andar(c)
  PROVE  IndInv'
  <1> USE TokensAssumption
  <1>0. TypeOK /\ LiderInv /\ TempoInv /\ TokenInv /\ ErrosInv /\ RenovacaoNecessaria /\ RetentativaContida
    BY DEF IndInv
  <1>d. Inst(c) \in Instalacoes /\ \A d \in Chamadas : Inst(d) \in Instalacoes
    BY DEF Inst
  <1>n. Tokens \intersect Erros = {} /\ Nenhum \notin Tokens /\ Nenhum \notin Erros
    BY Distintos
  <1>1. CASE Chamar(c)
    <2>u. /\ pc[c] = "livre"
          /\ inicio' = [inicio EXCEPT ![c] = relogio] /\ UNCHANGED <<relogio, tokens, lider, erros>>
      BY <1>1 DEF Chamar
    <2>a. CASE Aproveitavel(Inst(c)) /\ mao' = [mao EXCEPT ![c] = tokens[Inst(c)]] /\ Ir(c, "retornar")
      <3>1. TypeOK'
        BY <1>0, <1>d, <1>n, <2>u, <2>a DEF Ir, TypeOK, Etapas
      <3>2. LiderInv'
        BY <1>0, <1>d, <1>n, <2>u, <2>a DEF Ir, TypeOK, LiderInv, NaRenovacao
      <3>3. TempoInv'
        BY <1>0, <1>d, <1>n, <2>u, <2>a DEF Ir, TypeOK, TempoInv, EmCurso
      <3>4. TokenInv'
        BY <1>0, <1>d, <1>n, <2>u, <2>a DEF Ir, TypeOK, TokenInv, Tokens, TempoInv,
                                            EmCurso, Aproveitavel
      <3>5. ErrosInv'
        BY <1>0, <1>d, <1>n, <2>u, <2>a DEF Ir, TypeOK, ErrosInv
      <3>6. RenovacaoNecessaria'
        BY <1>0, <1>d, <1>n, <2>u, <2>a DEF Ir, TypeOK, RenovacaoNecessaria,
                                            Aproveitavel
      <3>7. RetentativaContida'
        BY <1>0, <1>d, <1>n, <2>u, <2>a DEF Ir, TypeOK, RetentativaContida
      <3> QED
        BY <3>1, <3>2, <3>3, <3>4, <3>5, <3>6, <3>7 DEF IndInv
    <2>b. CASE Ir(c, "voo") /\ UNCHANGED mao
      <3>1. TypeOK'
        BY <1>0, <1>d, <1>n, <2>u, <2>b DEF Ir, TypeOK, Etapas
      <3>2. LiderInv'
        BY <1>0, <1>d, <1>n, <2>u, <2>b DEF Ir, TypeOK, LiderInv, NaRenovacao
      <3>3. TempoInv'
        BY <1>0, <1>d, <1>n, <2>u, <2>b DEF Ir, TypeOK, TempoInv, EmCurso
      <3>4. TokenInv'
        BY <1>0, <1>d, <1>n, <2>u, <2>b DEF Ir, TypeOK, TokenInv, Tokens, TempoInv,
                                            EmCurso
      <3>5. ErrosInv'
        BY <1>0, <1>d, <1>n, <2>u, <2>b DEF Ir, TypeOK, ErrosInv
      <3>6. RenovacaoNecessaria'
        BY <1>0, <1>d, <1>n, <2>u, <2>b DEF Ir, TypeOK, RenovacaoNecessaria,
                                            Aproveitavel
      <3>7. RetentativaContida'
        BY <1>0, <1>d, <1>n, <2>u, <2>b DEF Ir, TypeOK, RetentativaContida
      <3> QED
        BY <3>1, <3>2, <3>3, <3>4, <3>5, <3>6, <3>7 DEF IndInv
    <2> QED
      BY <1>1, <2>a, <2>b DEF Chamar
  <1>2. CASE Entrar(c)
    <2>u. /\ pc[c] = "voo"
          /\ UNCHANGED <<relogio, tokens, inicio, mao, erros>>
      BY <1>2 DEF Entrar
    <2>a. CASE lider[Inst(c)] = Nenhum /\ lider' = [lider EXCEPT ![Inst(c)] = c] /\ Ir(c, "reconferir")
      <3>1. TypeOK'
        BY <1>0, <1>d, <1>n, <2>u, <2>a DEF Ir, TypeOK, Etapas
      <3>2. LiderInv'
        BY <1>0, <1>d, <1>n, <2>u, <2>a DEF Ir, TypeOK, LiderInv, NaRenovacao
      <3>3. TempoInv'
        BY <1>0, <1>d, <1>n, <2>u, <2>a DEF Ir, TypeOK, TempoInv, EmCurso
      <3>4. TokenInv'
        BY <1>0, <1>d, <1>n, <2>u, <2>a DEF Ir, TypeOK, TokenInv, Tokens, TempoInv,
                                            EmCurso
      <3>5. ErrosInv'
        BY <1>0, <1>d, <1>n, <2>u, <2>a DEF Ir, TypeOK, ErrosInv
      <3>6. RenovacaoNecessaria'
        BY <1>0, <1>d, <1>n, <2>u, <2>a DEF Ir, TypeOK, RenovacaoNecessaria,
                                            Aproveitavel
      <3>7. RetentativaContida'
        BY <1>0, <1>d, <1>n, <2>u, <2>a DEF Ir, TypeOK, RetentativaContida
      <3> QED
        BY <3>1, <3>2, <3>3, <3>4, <3>5, <3>6, <3>7 DEF IndInv
    <2>b. CASE Ir(c, "espera") /\ UNCHANGED lider
      <3>1. TypeOK'
        BY <1>0, <1>d, <1>n, <2>u, <2>b DEF Ir, TypeOK, Etapas
      <3>2. LiderInv'
        BY <1>0, <1>d, <1>n, <2>u, <2>b DEF Ir, TypeOK, LiderInv, NaRenovacao
      <3>3. TempoInv'
        BY <1>0, <1>d, <1>n, <2>u, <2>b DEF Ir, TypeOK, TempoInv, EmCurso
      <3>4. TokenInv'
        BY <1>0, <1>d, <1>n, <2>u, <2>b DEF Ir, TypeOK, TokenInv, Tokens, TempoInv,
                                            EmCurso
      <3>5. ErrosInv'
        BY <1>0, <1>d, <1>n, <2>u, <2>b DEF Ir, TypeOK, ErrosInv
      <3>6. RenovacaoNecessaria'
        BY <1>0, <1>d, <1>n, <2>u, <2>b DEF Ir, TypeOK, RenovacaoNecessaria,
                                            Aproveitavel
      <3>7. RetentativaContida'
        BY <1>0, <1>d, <1>n, <2>u, <2>b DEF Ir, TypeOK, RetentativaContida
      <3> QED
        BY <3>1, <3>2, <3>3, <3>4, <3>5, <3>6, <3>7 DEF IndInv
    <2> QED
      BY <1>2, <2>a, <2>b DEF Entrar
  <1>3. CASE Reconferir(c)
    <2>a. CASE Aproveitavel(Inst(c)) /\ Concluida(c, tokens[Inst(c)])
      <3> DEFINE valor == tokens[Inst(c)]
      <3>0. valor \in Tokens \union Erros
        BY <1>0, <1>d, <2>a DEF Aproveitavel, TypeOK
      <3>e. /\ lider' = [lider EXCEPT ![Inst(c)] = Nenhum]
            /\ pc' \in [Chamadas -> Etapas] /\ mao' \in [Chamadas -> Tokens \union Erros \union {Nenhum}]
            /\ pc'[c] = "retornar" /\ mao'[c] = valor
            /\ \A d \in Chamadas :
                 \/ pc'[d] = pc[d] /\ mao'[d] = mao[d] /\ (pc[d] # "espera" \/ Inst(d) # Inst(c))
                 \/ /\ pc'[d] = "retornar" /\ mao'[d] = valor /\ Inst(d) = Inst(c)
                    /\ d = c \/ pc[d] = "espera"
        BY <1>0, <2>a, <3>0, EfeitoDeConcluida
      <3>1. TypeOK'
        BY <1>0, <1>d, <1>n, <1>3, <2>a, <3>e DEF Reconferir, TypeOK, Etapas
      <3>2. LiderInv'
        BY <1>0, <1>d, <1>n, <1>3, <2>a, <3>e DEF Reconferir, TypeOK, LiderInv,
                                                  NaRenovacao
      <3>3. TempoInv'
        BY <1>0, <1>d, <1>n, <1>3, <2>a, <3>e DEF Reconferir, TypeOK, TempoInv, EmCurso
      <3>4. TokenInv'
        <4>1. ASSUME valor \in Tokens, NEW d \in Chamadas, pc'[d] = "retornar", pc[d] # "retornar"
             PROVE  inicio[d] + Duracao <= valor.expiraEm
          <5>1. relogio + Margem <= valor.expiraEm /\ valor.expiraEm \in Nat
            BY <1>0, <1>d, <1>n, <1>3, <2>a, <3>0, <3>e, <4>1 DEF Aproveitavel, Tokens
          <5>2. inicio[d] <= relogio /\ inicio[d] \in Nat /\ relogio \in Nat
            BY <1>0 DEF TempoInv, TypeOK
          <5> QED
            BY <5>1, <5>2
        <4>2. valor \in Tokens => valor.instalacao = Inst(c)
          BY <1>0, <1>d, <1>n, <1>3, <2>a, <3>0, <3>e DEF TokenInv, Aproveitavel
        <4>3. inicio' = inicio /\ tokens' = tokens /\ valor # Nenhum
          BY <1>0, <1>d, <1>n, <1>3, <2>a, <3>0, <3>e DEF Reconferir
        <4>4. ASSUME NEW d \in Chamadas
             PROVE  /\ mao'[d] \in Tokens => mao'[d].instalacao = Inst(d)
                    /\ pc'[d] \in {"guardar", "concluir"} => mao'[d] \in Tokens /\ inicio'[d] + Validade <= mao'[d].expiraEm
                    /\ pc'[d] = "retornar" => mao'[d] # Nenhum
                    /\ pc'[d] = "retornar" /\ mao'[d] \in Tokens => inicio'[d] + Duracao <= mao'[d].expiraEm
          <5>1. CASE pc'[d] = pc[d] /\ mao'[d] = mao[d]
            BY <1>0, <4>3, <5>1 DEF TokenInv
          <5>2. CASE pc'[d] = "retornar" /\ mao'[d] = valor /\ Inst(d) = Inst(c) /\ pc[d] # "retornar"
            BY <4>1, <4>2, <4>3, <5>2
          <5> QED
            BY <1>0, <1>d, <1>n, <1>3, <2>a, <3>0, <3>e, <5>1, <5>2 DEF Reconferir
        <4> QED
          BY <1>0, <4>3, <4>4 DEF TokenInv, Inst
      <3>5. ErrosInv'
        BY <1>0, <1>d, <1>n, <1>3, <2>a, <3>e DEF Reconferir, TypeOK, ErrosInv
      <3>6. RenovacaoNecessaria'
        <4>1. \A d \in Chamadas : pc'[d] = "pedir" => pc[d] = "pedir"
          BY <1>0, <1>d, <1>n, <1>3, <2>a, <3>0, <3>e
        <4>2. \A d \in Chamadas : Aproveitavel(Inst(d))' = Aproveitavel(Inst(d))
          BY <1>0, <1>d, <1>n, <1>3, <2>a, <3>0, <3>e DEF Reconferir, Aproveitavel, Inst
        <4> QED
          BY <1>0, <4>1, <4>2 DEF RenovacaoNecessaria
      <3>7. RetentativaContida'
        BY <1>0, <1>d, <1>n, <1>3, <2>a, <3>e DEF Reconferir, TypeOK, RetentativaContida
      <3> QED
        BY <3>1, <3>2, <3>3, <3>4, <3>5, <3>6, <3>7 DEF IndInv
    <2>b. CASE ~Aproveitavel(Inst(c)) /\ Ir(c, "pedir") /\ UNCHANGED <<lider, mao>>
      <3>1. TypeOK'
        BY <1>0, <1>d, <1>n, <1>3, <2>b DEF Reconferir, Ir, TypeOK, Etapas
      <3>2. LiderInv'
        BY <1>0, <1>d, <1>n, <1>3, <2>b DEF Reconferir, Ir, TypeOK, LiderInv,
                                            NaRenovacao
      <3>3. TempoInv'
        BY <1>0, <1>d, <1>n, <1>3, <2>b DEF Reconferir, Ir, TypeOK, TempoInv, EmCurso
      <3>4. TokenInv'
        BY <1>0, <1>d, <1>n, <1>3, <2>b DEF Reconferir, Ir, TypeOK, TokenInv, Tokens,
                                            TempoInv, EmCurso
      <3>5. ErrosInv'
        BY <1>0, <1>d, <1>n, <1>3, <2>b DEF Reconferir, Ir, TypeOK, ErrosInv
      <3>6. RenovacaoNecessaria'
        BY <1>0, <1>d, <1>n, <1>3, <2>b DEF Reconferir, Ir, TypeOK, RenovacaoNecessaria,
                                            LiderInv, NaRenovacao, Aproveitavel
      <3>7. RetentativaContida'
        BY <1>0, <1>d, <1>n, <1>3, <2>b DEF Reconferir, Ir, TypeOK, RetentativaContida
      <3> QED
        BY <3>1, <3>2, <3>3, <3>4, <3>5, <3>6, <3>7 DEF IndInv
    <2> QED
      BY <1>3, <2>a, <2>b DEF Reconferir
  <1>4. CASE Obter(c)
    <2>1. TypeOK'
      BY <1>0, <1>d, <1>n, <1>4 DEF Obter, Ir, TypeOK, Etapas, Tokens
    <2>2. LiderInv'
      BY <1>0, <1>d, <1>n, <1>4 DEF Obter, Ir, TypeOK, LiderInv, NaRenovacao
    <2>3. TempoInv'
      BY <1>0, <1>d, <1>n, <1>4 DEF Obter, Ir, TypeOK, TempoInv, EmCurso
    <2>4. TokenInv'
      BY <1>0, <1>d, <1>n, <1>4 DEF Obter, Ir, TypeOK, TokenInv, Tokens, TempoInv,
                                    EmCurso
    <2>5. ErrosInv'
      BY <1>0, <1>d, <1>n, <1>4 DEF Obter, Ir, TypeOK, ErrosInv
    <2>6. RenovacaoNecessaria'
      BY <1>0, <1>d, <1>n, <1>4 DEF Obter, Ir, TypeOK, RenovacaoNecessaria, LiderInv,
                                    NaRenovacao, Aproveitavel
    <2>7. RetentativaContida'
      BY <1>0, <1>d, <1>n, <1>4 DEF Obter, Ir, TypeOK, RetentativaContida
    <2> QED
      BY <2>1, <2>2, <2>3, <2>4, <2>5, <2>6, <2>7 DEF IndInv
  <1>5. CASE Guardar(c)
    <2>1. TypeOK'
      BY <1>0, <1>d, <1>n, <1>5 DEF Guardar, Ir, TypeOK, Etapas, TokenInv
    <2>2. LiderInv'
      BY <1>0, <1>d, <1>n, <1>5 DEF Guardar, Ir, TypeOK, LiderInv, NaRenovacao
    <2>3. TempoInv'
      BY <1>0, <1>d, <1>n, <1>5 DEF Guardar, Ir, TypeOK, TempoInv, EmCurso
    <2>4. TokenInv'
      BY <1>0, <1>d, <1>n, <1>5 DEF Guardar, Ir, TypeOK, TokenInv, Tokens, TempoInv,
                                    EmCurso
    <2>5. ErrosInv'
      BY <1>0, <1>d, <1>n, <1>5 DEF Guardar, Ir, TypeOK, ErrosInv
    <2>6. RenovacaoNecessaria'
      BY <1>0, <1>d, <1>n, <1>5 DEF Guardar, Ir, TypeOK, RenovacaoNecessaria, LiderInv,
                                    NaRenovacao, Aproveitavel
    <2>7. RetentativaContida'
      BY <1>0, <1>d, <1>n, <1>5 DEF Guardar, Ir, TypeOK, RetentativaContida
    <2> QED
      BY <2>1, <2>2, <2>3, <2>4, <2>5, <2>6, <2>7 DEF IndInv
  <1>6. CASE Concluir(c)
    <2>0. mao[c] \in Tokens \union Erros /\ Concluida(c, mao[c])
      BY <1>0, <1>6 DEF Concluir, TypeOK, TokenInv
    <2>e. /\ lider' = [lider EXCEPT ![Inst(c)] = Nenhum]
          /\ pc' \in [Chamadas -> Etapas] /\ mao' \in [Chamadas -> Tokens \union Erros \union {Nenhum}]
          /\ pc'[c] = "retornar" /\ mao'[c] = mao[c]
          /\ \A d \in Chamadas :
               \/ pc'[d] = pc[d] /\ mao'[d] = mao[d] /\ (pc[d] # "espera" \/ Inst(d) # Inst(c))
               \/ /\ pc'[d] = "retornar" /\ mao'[d] = mao[c] /\ Inst(d) = Inst(c)
                  /\ d = c \/ pc[d] = "espera"
      BY <1>0, <2>0, EfeitoDeConcluida
    <2>1. TypeOK'
      BY <1>0, <1>d, <1>n, <1>6, <2>e DEF Concluir, TypeOK, Etapas
    <2>2. LiderInv'
      BY <1>0, <1>d, <1>n, <1>6, <2>e DEF Concluir, TypeOK, LiderInv, NaRenovacao
    <2>3. TempoInv'
      BY <1>0, <1>d, <1>n, <1>6, <2>e DEF Concluir, TypeOK, TempoInv, EmCurso
    <2>4. TokenInv'
      <3>1. ASSUME mao[c] \in Tokens, NEW d \in Chamadas, pc'[d] = "retornar", pc[d] # "retornar"
           PROVE  inicio[d] + Duracao <= mao[c].expiraEm
        <4>1. inicio[c] + Validade <= mao[c].expiraEm /\ mao[c].expiraEm \in Nat
          BY <1>0, <1>d, <1>n, <1>6, <2>e, <2>0, <3>1 DEF Concluir, TokenInv, Tokens
        <4>2. inicio[d] <= relogio /\ relogio <= inicio[c] + Duracao
          BY <1>0, <1>6 DEF Concluir, TempoInv, EmCurso
        <4>3. inicio[d] \in Nat /\ inicio[c] \in Nat /\ relogio \in Nat
          BY <1>0 DEF TypeOK
        <4> QED
          BY <4>1, <4>2, <4>3
      <3>2. mao[c] \in Tokens => mao[c].instalacao = Inst(c)
        BY <1>0, <1>d, <1>n, <1>6, <2>e, <2>0 DEF TokenInv, Aproveitavel
      <3>3. inicio' = inicio /\ tokens' = tokens /\ mao[c] # Nenhum
        BY <1>0, <1>d, <1>n, <1>6, <2>e, <2>0 DEF Concluir
      <3>4. ASSUME NEW d \in Chamadas
           PROVE  /\ mao'[d] \in Tokens => mao'[d].instalacao = Inst(d)
                  /\ pc'[d] \in {"guardar", "concluir"} => mao'[d] \in Tokens /\ inicio'[d] + Validade <= mao'[d].expiraEm
                  /\ pc'[d] = "retornar" => mao'[d] # Nenhum
                  /\ pc'[d] = "retornar" /\ mao'[d] \in Tokens => inicio'[d] + Duracao <= mao'[d].expiraEm
        <4>1. CASE pc'[d] = pc[d] /\ mao'[d] = mao[d]
          BY <1>0, <3>3, <4>1 DEF TokenInv
        <4>2. CASE pc'[d] = "retornar" /\ mao'[d] = mao[c] /\ Inst(d) = Inst(c) /\ pc[d] # "retornar"
          BY <3>1, <3>2, <3>3, <4>2
        <4> QED
          BY <1>0, <1>d, <1>n, <1>6, <2>e, <2>0, <4>1, <4>2 DEF Concluir
      <3> QED
        BY <1>0, <3>3, <3>4 DEF TokenInv, Inst
    <2>5. ErrosInv'
      BY <1>0, <1>d, <1>n, <1>6, <2>e DEF Concluir, TypeOK, ErrosInv
    <2>6. RenovacaoNecessaria'
      <3>1. \A d \in Chamadas : pc'[d] = "pedir" => pc[d] = "pedir"
        BY <1>0, <1>d, <1>n, <1>6, <2>e, <2>0
      <3>2. \A d \in Chamadas : Aproveitavel(Inst(d))' = Aproveitavel(Inst(d))
        BY <1>0, <1>d, <1>n, <1>6, <2>e, <2>0 DEF Concluir, Aproveitavel, Inst
      <3> QED
        BY <1>0, <3>1, <3>2 DEF RenovacaoNecessaria
    <2>7. RetentativaContida'
      BY <1>0, <1>d, <1>n, <1>6, <2>e DEF Concluir, TypeOK, RetentativaContida
    <2> QED
      BY <2>1, <2>2, <2>3, <2>4, <2>5, <2>6, <2>7 DEF IndInv
  <1>7. CASE Retornar(c)
    <2>1. TypeOK'
      BY <1>0, <1>d, <1>n, <1>7 DEF Retornar, Ir, TypeOK, Etapas
    <2>2. LiderInv'
      BY <1>0, <1>d, <1>n, <1>7 DEF Retornar, Ir, TypeOK, LiderInv, NaRenovacao
    <2>3. TempoInv'
      BY <1>0, <1>d, <1>n, <1>7 DEF Retornar, Ir, TypeOK, TempoInv, EmCurso
    <2>4. TokenInv'
      BY <1>0, <1>d, <1>n, <1>7 DEF Retornar, Ir, TypeOK, TokenInv, Tokens, TempoInv,
                                    EmCurso
    <2>5. ErrosInv'
      BY <1>0, <1>d, <1>n, <1>7 DEF Retornar, Ir, TypeOK, ErrosInv
    <2>6. RenovacaoNecessaria'
      BY <1>0, <1>d, <1>n, <1>7 DEF Retornar, Ir, TypeOK, RenovacaoNecessaria, LiderInv,
                                    NaRenovacao, Aproveitavel
    <2>7. RetentativaContida'
      BY <1>0, <1>d, <1>n, <1>7 DEF Retornar, Ir, TypeOK, RetentativaContida
    <2> QED
      BY <2>1, <2>2, <2>3, <2>4, <2>5, <2>6, <2>7 DEF IndInv
  <1>8. ASSUME NEW erro \in Erros, Retentar(c, erro) PROVE IndInv'
    <2>1. TypeOK'
      BY <1>0, <1>d, <1>n, <1>8 DEF Retentar, Ir, TypeOK, Etapas, LimiteDeTentativas
    <2>2. LiderInv'
      BY <1>0, <1>d, <1>n, <1>8 DEF Retentar, Ir, TypeOK, LiderInv, NaRenovacao
    <2>3. TempoInv'
      BY <1>0, <1>d, <1>n, <1>8 DEF Retentar, Ir, TypeOK, TempoInv, EmCurso
    <2>4. TokenInv'
      BY <1>0, <1>d, <1>n, <1>8 DEF Retentar, Ir, TypeOK, TokenInv, Tokens, TempoInv,
                                    EmCurso
    <2>5. ErrosInv'
      BY <1>0, <1>d, <1>n, <1>8 DEF Retentar, Ir, TypeOK, ErrosInv
    <2>6. RenovacaoNecessaria'
      BY <1>0, <1>d, <1>n, <1>8 DEF Retentar, Ir, TypeOK, RenovacaoNecessaria, LiderInv,
                                    NaRenovacao, Aproveitavel
    <2>7. RetentativaContida'
      BY <1>0, <1>d, <1>n, <1>8 DEF Retentar, Ir, TypeOK, RetentativaContida,
                                    LimiteDeTentativas
    <2> QED
      BY <2>1, <2>2, <2>3, <2>4, <2>5, <2>6, <2>7 DEF IndInv
  <1>9. ASSUME NEW erro \in Erros, Desistir(c, erro) PROVE IndInv'
    <2>0. erro \in Tokens \union Erros /\ Concluida(c, erro)
      BY <1>0, <1>9 DEF Desistir, TypeOK, TokenInv
    <2>e. /\ lider' = [lider EXCEPT ![Inst(c)] = Nenhum]
          /\ pc' \in [Chamadas -> Etapas] /\ mao' \in [Chamadas -> Tokens \union Erros \union {Nenhum}]
          /\ pc'[c] = "retornar" /\ mao'[c] = erro
          /\ \A d \in Chamadas :
               \/ pc'[d] = pc[d] /\ mao'[d] = mao[d] /\ (pc[d] # "espera" \/ Inst(d) # Inst(c))
               \/ /\ pc'[d] = "retornar" /\ mao'[d] = erro /\ Inst(d) = Inst(c)
                  /\ d = c \/ pc[d] = "espera"
      BY <1>0, <2>0, EfeitoDeConcluida
    <2>1. TypeOK'
      <3>1. erros' \in [Chamadas -> Seq(Erros)]
        BY <1>0, <1>9 DEF Desistir, TypeOK
      <3>2. lider' \in [Instalacoes -> Chamadas \union {Nenhum}]
        BY <1>0, <1>d, <2>e DEF TypeOK
      <3>3. UNCHANGED <<relogio, tokens, inicio>>
        BY <1>9 DEF Desistir
      <3> QED
        BY <1>0, <2>e, <3>1, <3>2, <3>3 DEF TypeOK
    <2>2. LiderInv'
      BY <1>0, <1>d, <1>n, <1>9, <2>e DEF Desistir, TypeOK, LiderInv, NaRenovacao
    <2>3. TempoInv'
      BY <1>0, <1>d, <1>n, <1>9, <2>e DEF Desistir, TypeOK, TempoInv, EmCurso
    <2>4. TokenInv'
      <3>1. UNCHANGED <<tokens, inicio>> /\ erro \notin Tokens /\ erro # Nenhum
        BY <1>n, <1>9 DEF Desistir
      <3>2. \A d \in Chamadas : Inst(d)' = Inst(d)
        BY DEF Inst
      <3>3. \A d \in Chamadas :
              \/ pc'[d] = pc[d] /\ mao'[d] = mao[d]
              \/ pc'[d] = "retornar" /\ mao'[d] \notin Tokens /\ mao'[d] # Nenhum
        BY <2>e, <3>1
      <3> QED
        BY <1>0, <3>1, <3>2, <3>3 DEF TokenInv, Tokens
    <2>5. ErrosInv'
      BY <1>0, <1>d, <1>n, <1>9, <2>e DEF Desistir, TypeOK, ErrosInv
    <2>6. RenovacaoNecessaria'
      BY <1>0, <1>d, <1>n, <1>9, <2>e DEF Desistir, TypeOK, RenovacaoNecessaria,
                                          LiderInv, NaRenovacao, Aproveitavel
    <2>7. RetentativaContida'
      BY <1>0, <1>d, <1>n, <1>9, <2>e DEF Desistir, TypeOK, RetentativaContida
    <2> QED
      BY <2>1, <2>2, <2>3, <2>4, <2>5, <2>6, <2>7 DEF IndInv
  <1> QED
    BY <1>1, <1>2, <1>3, <1>4, <1>5, <1>6, <1>7, <1>8, <1>9 DEF Andar

(* Time passing keeps the invariant: no call in course is older than Duracao. *)
LEMMA PassoDoTempo ==
  ASSUME IndInv, PassarTempo
  PROVE  IndInv'
  <1>0. TypeOK /\ LiderInv /\ TempoInv /\ TokenInv /\ ErrosInv /\ RenovacaoNecessaria /\ RetentativaContida
    BY DEF IndInv
  <1>d. \A d \in Chamadas : Inst(d) \in Instalacoes
    BY TokensAssumption DEF Inst
  <1>1. TypeOK'
    BY TokensAssumption, <1>0, <1>d DEF PassarTempo, TypeOK, Etapas
  <1>2. LiderInv'
    BY TokensAssumption, <1>0, <1>d DEF PassarTempo, TypeOK, LiderInv, NaRenovacao
  <1>3. TempoInv'
    BY TokensAssumption, <1>0, <1>d DEF PassarTempo, TypeOK, TempoInv, EmCurso
  <1>4. TokenInv'
    BY TokensAssumption, <1>0, <1>d DEF PassarTempo, TypeOK, TokenInv, Tokens, TempoInv,
                                        EmCurso
  <1>5. ErrosInv'
    BY TokensAssumption, <1>0, <1>d DEF PassarTempo, TypeOK, ErrosInv
  <1>6. RenovacaoNecessaria'
    BY TokensAssumption, <1>0, <1>d DEF PassarTempo, TypeOK, RenovacaoNecessaria,
                                        LiderInv, NaRenovacao, Aproveitavel, Tokens
  <1>7. RetentativaContida'
    BY TokensAssumption, <1>0, <1>d DEF PassarTempo, TypeOK, RetentativaContida
  <1> QED
    BY <1>1, <1>2, <1>3, <1>4, <1>5, <1>6, <1>7 DEF IndInv

THEOREM Inductive == IndInv /\ [Next]_vars => IndInv'
  <1> SUFFICES ASSUME IndInv, [Next]_vars PROVE IndInv'
    OBVIOUS
  <1>1. CASE UNCHANGED vars
    BY <1>1 DEF vars, IndInv, TypeOK, LiderInv, TempoInv, TokenInv, ErrosInv, RenovacaoNecessaria,
                RetentativaContida, EmCurso, Aproveitavel
  <1> QED
    BY <1>1, PassoDaChamada, PassoDoTempo DEF Next

THEOREM Invariante == Spec => []IndInv
  BY InitIndInv, Inductive, PTL DEF Spec

(* The variables keep their types. *)
THEOREM TiposCorretos == Spec => []TypeOK
  BY Invariante, PTL DEF IndInv

(* TokenParaInstalacao: the token a call returns is of its installation and has
   not expired, whether it came from the cache, from GitHub or from the renewal
   of another call. *)
THEOREM TokenEntregueVive == Spec => []TokenVivo
  <1>1. IndInv => TokenVivo
    <2> SUFFICES ASSUME IndInv, NEW c \in Chamadas, pc[c] = "retornar", mao[c] \notin Erros
                 PROVE  mao[c] \in Tokens /\ mao[c].instalacao = Inst(c) /\ relogio <= mao[c].expiraEm
      BY DEF TokenVivo
    <2>1. mao[c] \in Tokens
      BY DEF IndInv, TypeOK, TokenInv
    <2>2. mao[c].instalacao = Inst(c) /\ inicio[c] + Duracao <= mao[c].expiraEm
      BY <2>1 DEF IndInv, TokenInv
    <2>3. relogio <= inicio[c] + Duracao
      BY DEF IndInv, TempoInv, EmCurso
    <2> QED
      BY <2>1, <2>2, <2>3, TokensAssumption DEF IndInv, TypeOK, Tokens
  <1> QED
    BY <1>1, Invariante, PTL

(* renovacoes: GitHub is asked by one call of an installation at a time, and
   only while the cache has no token that would do. *)
THEOREM SoRenovaSePrecisa == Spec => []RenovacaoNecessaria
  BY Invariante, PTL DEF IndInv

(* limiteDeTentativas: at most three requests, none after an error that a
   repetition does not solve. *)
THEOREM RetentativasContidas == Spec => []RetentativaContida
  BY Invariante, PTL DEF IndInv

------------------------------------------------------------------------------
(* The cache, and the calls that wait *)

(* A token about to be stored expires after the one it takes the place of. *)
GuardarInv ==
  \A c \in Chamadas : pc[c] = "guardar" /\ tokens[Inst(c)] # Nenhum =>
    tokens[Inst(c)].expiraEm < mao[c].expiraEm

(* TokenParaInstalacao: the cache keeps a token of each installation that had
   one, and puts in its place only one that expires later, whatever calls raced
   to renew it and however long their requests took. *)
CacheAvanca ==
  \A i \in Instalacoes : tokens[i] # Nenhum =>
    /\ tokens'[i] # Nenhum
    /\ tokens'[i] = tokens[i] \/ tokens[i].expiraEm < tokens'[i].expiraEm

(* renovacoes.Do: a call that waits waits for another that is running the
   renewal of its installation: no end of fn leaves it behind. *)
EsperaTemLider ==
  \A c \in Chamadas : pc[c] = "espera" =>
    \E d \in Chamadas \ {c} : lider[Inst(c)] = d /\ Inst(d) = Inst(c) /\ pc[d] \in NaRenovacao

(* The requests of a call that failed. *)
Falhas(c) == Len(erros[c])

(* How many steps a call has left at most, three requests among them. *)
Falta(c) ==
  CASE pc[c] = "voo" -> 9
    [] pc[c] = "reconferir" -> 8
    [] pc[c] = "pedir" -> 7 - Falhas(c)
    [] pc[c] = "guardar" -> 4
    [] pc[c] = "concluir" -> 3
    [] pc[c] = "espera" -> 2
    [] pc[c] = "retornar" -> 1
    [] OTHER -> 0

FaltaContada == \A c \in Chamadas : Falta(c) \in Nat

(* solicitarTokenComRetentativa: every step of a call under way brings it nearer
   to its end, and neither the others nor the clock take it further away. *)
Aproxima ==
  /\ \A c \in Chamadas : EmCurso(c) => Falta(c)' <= Falta(c)
  /\ \A c \in Chamadas : Andar(c) => Falta(c)' < Falta(c)

(* What a step of a call does to another: nothing, or it ends its wait. *)
LEMMA PassoVistoDeFora ==
  ASSUME IndInv, NEW c \in Chamadas, Chamar(c) \/ Andar(c), NEW d \in Chamadas, d # c
  PROVE  /\ erros'[d] = erros[d]
         /\ \/ pc'[d] = pc[d] /\ mao'[d] = mao[d]
            \/ pc[d] = "espera" /\ pc'[d] = "retornar"
  <1> USE DEF IndInv, TypeOK, Ir
  <1>1. ASSUME NEW valor, Concluida(c, valor)
        PROVE  (pc'[d] = pc[d] /\ mao'[d] = mao[d]) \/ (pc[d] = "espera" /\ pc'[d] = "retornar")
    BY <1>1 DEF Concluida
  <1>2. CASE Chamar(c)
    BY <1>2 DEF Chamar
  <1>3. CASE Entrar(c)
    BY <1>3 DEF Entrar
  <1>4. CASE Reconferir(c)
    BY <1>1, <1>4 DEF Reconferir
  <1>5. CASE Obter(c)
    BY <1>5 DEF Obter
  <1>6. CASE Guardar(c)
    BY <1>6 DEF Guardar
  <1>7. CASE Concluir(c)
    BY <1>1, <1>7 DEF Concluir
  <1>8. CASE Retornar(c)
    BY <1>8 DEF Retornar
  <1>9. ASSUME NEW erro \in Erros, Retentar(c, erro) \/ Desistir(c, erro)
        PROVE  /\ erros'[d] = erros[d]
               /\ (pc'[d] = pc[d] /\ mao'[d] = mao[d]) \/ (pc[d] = "espera" /\ pc'[d] = "retornar")
    BY <1>1, <1>9 DEF Retentar, Desistir
  <1> QED
    BY <1>2, <1>3, <1>4, <1>5, <1>6, <1>7, <1>8, <1>9 DEF Andar

(* Only a leader that got a token changes the cache, for its installation. *)
LEMMA SoGuardarEscreve ==
  ASSUME NEW c \in Chamadas, Chamar(c) \/ Andar(c)
  PROVE  tokens' = tokens \/ Guardar(c)
  BY DEF Andar, Chamar, Entrar, Reconferir, Obter, Concluir, Retornar, Retentar, Desistir

LEMMA GuardarPreservado ==
  ASSUME IndInv, GuardarInv, NEW c \in Chamadas, Chamar(c) \/ Andar(c)
  PROVE  GuardarInv'
  <1> SUFFICES ASSUME NEW d \in Chamadas, pc'[d] = "guardar", tokens'[Inst(d)] # Nenhum
               PROVE  tokens'[Inst(d)].expiraEm < mao'[d].expiraEm
    BY DEF GuardarInv, Inst
  <1>0. Inst(d) \in Instalacoes /\ Inst(c) \in Instalacoes
    BY TokensAssumption DEF Inst
  <1>1. CASE d # c
    <2>1. pc[d] = "guardar" /\ mao'[d] = mao[d]
      BY <1>1, PassoVistoDeFora
    <2>2. tokens'[Inst(d)] = tokens[Inst(d)]
      <3>1. CASE Guardar(c)
        <4>1. lider[Inst(c)] = c /\ lider[Inst(d)] = d
          BY <2>1, <3>1 DEF Guardar, IndInv, LiderInv, NaRenovacao
        <4> QED
          BY <1>0, <1>1, <3>1, <4>1 DEF Guardar, IndInv, TypeOK
      <3> QED
        BY <3>1, SoGuardarEscreve
    <2> QED
      BY <2>1, <2>2 DEF GuardarInv
  <1>2. CASE d = c
    <2>1. Obter(c)
      BY <1>2 DEF Andar, Chamar, Entrar, Reconferir, Obter, Guardar, Concluir, Retornar, Retentar, Desistir,
                  Concluida, Ir, IndInv, TypeOK
    <2>2. tokens' = tokens /\ mao'[c].expiraEm = relogio + Validade /\ ~Aproveitavel(Inst(c))
      BY <2>1 DEF Obter, IndInv, TypeOK, RenovacaoNecessaria
    <2>3. tokens[Inst(c)].expiraEm < relogio + Margem
      <3>1. tokens[Inst(c)] \in Tokens
        BY <1>0, <1>2, <2>2 DEF IndInv, TypeOK
      <3> QED
        BY <1>2, <2>2, <3>1, TokensAssumption DEF Aproveitavel, IndInv, TypeOK, Tokens
    <2>4. tokens[Inst(c)].expiraEm \in Nat
      BY <1>0, <1>2, <2>2 DEF IndInv, TypeOK, Tokens
    <2> QED
      BY <1>2, <2>2, <2>3, <2>4, TokensAssumption DEF IndInv, TypeOK
  <1> QED
    BY <1>1, <1>2

(* TokenParaInstalacao: for any calls and installations, no renewal takes the
   cache back to a token that expires before the one it had. *)
THEOREM CacheSoAvanca == Spec => [][CacheAvanca]_vars
  <1>1. Init => GuardarInv
    BY DEF Init, GuardarInv
  <1>2. IndInv /\ GuardarInv /\ [Next]_vars => GuardarInv'
    <2>1. ASSUME GuardarInv, PassarTempo \/ UNCHANGED vars PROVE GuardarInv'
      BY <2>1 DEF GuardarInv, PassarTempo, vars, Inst
    <2> QED
      BY <2>1, GuardarPreservado DEF Next
  <1>3. IndInv /\ GuardarInv /\ [Next]_vars => [CacheAvanca]_vars
    <2> SUFFICES ASSUME IndInv, GuardarInv, Next PROVE CacheAvanca
      OBVIOUS
    <2>1. CASE tokens' = tokens
      BY <2>1 DEF CacheAvanca
    <2>2. ASSUME NEW c \in Chamadas, Guardar(c) PROVE CacheAvanca
      <3> SUFFICES ASSUME NEW i \in Instalacoes, tokens[i] # Nenhum
                   PROVE  /\ tokens'[i] # Nenhum
                          /\ tokens'[i] = tokens[i] \/ tokens[i].expiraEm < tokens'[i].expiraEm
        BY DEF CacheAvanca
      <3>1. CASE i # Inst(c)
        BY <2>2, <3>1 DEF Guardar, IndInv, TypeOK
      <3>2. CASE i = Inst(c)
        <4>1. tokens'[i] = mao[c] /\ pc[c] = "guardar"
          BY <2>2, <3>2 DEF Guardar, IndInv, TypeOK
        <4>2. mao[c] # Nenhum
          BY <4>1, Distintos DEF IndInv, TokenInv
        <4> QED
          BY <3>2, <4>1, <4>2 DEF GuardarInv
      <3> QED
        BY <3>1, <3>2
    <2> QED
      BY <2>1, <2>2, SoGuardarEscreve DEF Next, PassarTempo
  <1> QED
    BY <1>1, <1>2, <1>3, Invariante, PTL DEF Spec

(* renovacoes.Do: for any calls, one that waits has another to wake it. *)
LEMMA EsperaSeguida == Spec => []EsperaTemLider
  <1> DEFINE Seguido == \A c \in Chamadas : pc[c] = "espera" => lider[Inst(c)] # Nenhum
  <1>1. Init => Seguido
    BY DEF Init
  <1>2. IndInv /\ Seguido /\ [Next]_vars => Seguido'
    <2>1. ASSUME Seguido, PassarTempo \/ UNCHANGED vars PROVE Seguido'
      BY <2>1 DEF PassarTempo, vars, Inst
    <2>2. ASSUME IndInv, Seguido, NEW c \in Chamadas, Chamar(c) \/ Andar(c) PROVE Seguido'
      <3> SUFFICES ASSUME NEW d \in Chamadas, pc'[d] = "espera" PROVE lider'[Inst(d)] # Nenhum
        BY DEF Inst
      <3>0. Inst(d) \in Instalacoes /\ Inst(c) \in Instalacoes /\ c # Nenhum
        BY TokensAssumption DEF Inst
      <3>1. \/ lider' = lider
            \/ lider' = [lider EXCEPT ![Inst(c)] = c]
            \/ \E valor : Concluida(c, valor)
        BY <2>2 DEF Andar, Chamar, Entrar, Reconferir, Obter, Guardar, Concluir, Retornar, Retentar, Desistir
      <3>2. pc[d] = "espera" \/ (d = c /\ Entrar(c))
        BY <2>2, PassoVistoDeFora
        DEF Andar, Chamar, Entrar, Reconferir, Obter, Guardar, Concluir, Retornar, Retentar, Desistir,
            Concluida, Ir, IndInv, TypeOK
      <3>3. CASE d = c /\ Entrar(c)
        <4>1. pc'[c] \in {"reconferir", "espera"}
                /\ (pc'[c] = "espera" => lider[Inst(c)] # Nenhum /\ lider' = lider)
          BY <2>2, <3>3 DEF Entrar, Ir, IndInv, TypeOK
        <4> QED
          BY <3>3, <4>1
      <3>4. CASE pc[d] = "espera"
        <4>1. lider[Inst(d)] # Nenhum
          BY <2>2, <3>4
        <4>2. ASSUME NEW valor, Concluida(c, valor) PROVE lider'[Inst(d)] = lider[Inst(d)]
          BY <2>2, <3>0, <3>4, <4>2 DEF Concluida, IndInv, TypeOK
        <4> QED
          BY <2>2, <3>0, <3>1, <4>1, <4>2 DEF IndInv, TypeOK
      <3> QED
        BY <3>2, <3>3, <3>4
    <2> QED
      BY <2>1, <2>2 DEF Next
  <1>3. IndInv /\ Seguido => EsperaTemLider
    <2> SUFFICES ASSUME IndInv, Seguido, NEW c \in Chamadas, pc[c] = "espera"
                 PROVE  \E d \in Chamadas \ {c} :
                          lider[Inst(c)] = d /\ Inst(d) = Inst(c) /\ pc[d] \in NaRenovacao
      BY DEF EsperaTemLider
    <2>1. Inst(c) \in Instalacoes /\ lider[Inst(c)] \in Chamadas
      BY TokensAssumption DEF Inst, IndInv, TypeOK
    <2>2. pc[lider[Inst(c)]] \in NaRenovacao /\ Inst(lider[Inst(c)]) = Inst(c)
      BY <2>1 DEF IndInv, LiderInv
    <2> QED
      BY <2>1, <2>2 DEF NaRenovacao
  <1> QED
    BY <1>1, <1>2, <1>3, Invariante, PTL DEF Spec

(* A call makes at most three requests. *)
LEMMA FalhasContadas ==
  ASSUME TypeOK, RetentativaContida, NEW c \in Chamadas
  PROVE  Falhas(c) \in Nat /\ Falhas(c) <= 2
  <1>1. erros[c] \in Seq(Erros)
    BY DEF TypeOK
  <1>2. Len(erros[c]) \in Nat
    BY <1>1
  <1>3. Len(erros[c]) <= 2
    BY DEF RetentativaContida
  <1> QED
    BY <1>2, <1>3 DEF Falhas

LEMMA FaltaNatural ==
  ASSUME IndInv, NEW c \in Chamadas
  PROVE  Falhas(c) \in Nat /\ Falhas(c) <= 2 /\ Falta(c) \in Nat
  <1>1. Falhas(c) \in Nat /\ Falhas(c) <= 2
    BY FalhasContadas DEF IndInv
  <1> QED
    BY <1>1 DEF Falta

LEMMA PassoReduz ==
  ASSUME IndInv, NEW c \in Chamadas, Andar(c)
  PROVE  Falta(c)' < Falta(c)
  <1>0. Falhas(c) \in Nat /\ Falhas(c) <= 2
    BY FaltaNatural
  <1>1. ASSUME NEW valor, Concluida(c, valor) PROVE pc'[c] = "retornar"
    BY <1>1 DEF Concluida
  <1>2. ASSUME NEW para, Ir(c, para) PROVE pc'[c] = para
    BY <1>2 DEF Ir, IndInv, TypeOK
  <1>3. CASE Entrar(c)
    BY <1>2, <1>3 DEF Entrar, Falta
  <1>4. CASE Reconferir(c)
    <2>1. pc'[c] \in {"retornar", "pedir"} /\ Falhas(c)' = Falhas(c) /\ pc[c] = "reconferir"
      BY <1>1, <1>2, <1>4 DEF Reconferir, Falhas
    <2> QED
      BY <1>0, <2>1 DEF Falta
  <1>5. CASE Obter(c)
    <2>1. pc'[c] = "guardar" /\ pc[c] = "pedir"
      BY <1>2, <1>5 DEF Obter
    <2>2. Falta(c)' = 4 /\ Falta(c) = 7 - Falhas(c)
      BY <2>1 DEF Falta
    <2> QED
      BY <1>0, <2>2
  <1>6. CASE Guardar(c)
    BY <1>2, <1>6 DEF Guardar, Falta
  <1>7. CASE Concluir(c)
    BY <1>1, <1>7 DEF Concluir, Falta
  <1>8. CASE Retornar(c)
    BY <1>2, <1>8 DEF Retornar, Falta
  <1>9. ASSUME NEW erro \in Erros, Retentar(c, erro) PROVE Falta(c)' < Falta(c)
    <2>1. pc'[c] = "pedir" /\ pc[c] = "pedir" /\ erros'[c] = Append(erros[c], erro)
      BY <1>9 DEF Retentar, IndInv, TypeOK
    <2>2. Falhas(c)' = Falhas(c) + 1
      <3>1. erros[c] \in Seq(Erros)
        BY DEF IndInv, TypeOK
      <3>2. Len(Append(erros[c], erro)) = Len(erros[c]) + 1
        BY <3>1
      <3> QED
        BY <2>1, <3>2 DEF Falhas
    <2>3. Falta(c)' = 7 - Falhas(c)' /\ Falta(c) = 7 - Falhas(c)
      BY <2>1 DEF Falta
    <2> QED
      BY <1>0, <2>2, <2>3
  <1>10. ASSUME NEW erro \in Erros, Desistir(c, erro) PROVE Falta(c)' < Falta(c)
    <2>1. pc'[c] = "retornar" /\ pc[c] = "pedir"
      BY <1>1, <1>10 DEF Desistir
    <2>2. Falta(c)' = 1 /\ Falta(c) = 7 - Falhas(c)
      BY <2>1 DEF Falta
    <2> QED
      BY <1>0, <2>2
  <1> QED
    BY <1>3, <1>4, <1>5, <1>6, <1>7, <1>8, <1>9, <1>10 DEF Andar

(* TokenParaInstalacao: for any calls, one that waits has a leader to wake it,
   and every step of a call under way leaves it fewer steps, of a number that is
   bounded from the start. *)
THEOREM TodaChamadaAvanca == Spec => []EsperaTemLider /\ []FaltaContada /\ [][Aproxima]_vars
  <1>1. IndInv => FaltaContada
    BY FaltaNatural DEF FaltaContada
  <1>2. IndInv /\ [Next]_vars => FaltaContada'
    BY <1>1, Inductive, PTL
  <1>3. IndInv /\ [Next]_vars /\ FaltaContada' => [Aproxima]_vars
    <2> SUFFICES ASSUME IndInv, Next, FaltaContada' PROVE Aproxima
      OBVIOUS
    <2>1. \A c \in Chamadas : Andar(c) => Falta(c)' < Falta(c)
      BY PassoReduz
    <2>2. ASSUME NEW c \in Chamadas, EmCurso(c) PROVE Falta(c)' <= Falta(c)
      <3>0. Falta(c) \in Nat
        BY FaltaNatural
      <3>1. CASE PassarTempo
        BY <3>0, <3>1 DEF PassarTempo, Falta, Falhas
      <3>2. ASSUME NEW d \in Chamadas, Chamar(d) \/ Andar(d), d # c PROVE Falta(c)' <= Falta(c)
        <4>1. erros'[c] = erros[c] /\ (pc'[c] = pc[c] \/ (pc[c] = "espera" /\ pc'[c] = "retornar"))
          BY <3>2, PassoVistoDeFora
        <4> QED
          BY <3>0, <4>1 DEF Falta, Falhas
      <3>3. CASE Andar(c)
        <4>1. Falta(c)' < Falta(c) /\ Falta(c)' \in Nat
          BY <3>3, PassoReduz DEF FaltaContada
        <4> QED
          BY <3>0, <4>1
      <3>4. ~Chamar(c)
        BY <2>2 DEF Chamar, EmCurso
      <3> QED
        BY <3>1, <3>2, <3>3, <3>4 DEF Next
    <2> QED
      BY <2>1, <2>2 DEF Aproxima
  <1> QED
    BY <1>1, <1>2, <1>3, EsperaSeguida, Invariante, PTL DEF Spec
==============================================================================
