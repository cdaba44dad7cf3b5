----------------------------- MODULE Recibos_proofs -----------------------------
(* Proofs about Recibos.  The inductive invariant IndInv follows a row from the
   statement that enters it in the indexes to the commit: the keys of open
   transactions and of committed rows never meet, so neither a commit nor a
   rollback can break the chains.  At the end: no call is held for good. *)
EXTENDS Recibos, TLAPS

------------------------------------------------------------------------------
(* The inductive invariant, in named parts. *)

ComLinha == {"chave", "sucessor"}
ComNovas == {"fn"} \union ComLinha

(* The predecessor of r, if it has one, is an older receipt in R. *)
Precedida(r, R) ==
  r.anterior # 0 =>
    /\ r.tabela = "recibo"
    /\ \E a \in R : a.tabela = "recibo" /\ a.id = r.anterior /\ a.tenant = r.tenant /\ a.id < r.id

DaOperacao(c, r) ==
  r.chamada = c /\ r.tabela = Pedido[c][r.passo].tabela /\ r.run = Pedido[c][r.passo].run

LinhasInv ==
  \A r \in linhas :
    /\ r.id < proximoId /\ Precedida(r, linhas)
    /\ pc[r.chamada] = "confirmada" \/ r.chamada \in vitima

(* What an open transaction inserted, and that it answered for it. *)
NovasInv ==
  \A c \in Chamadas :
    /\ novas[c] # {} => pc[c] \in ComNovas
    /\ \A r \in novas[c] :
         /\ DaOperacao(c, r) /\ r.passo < passo[c]
         /\ r.id < proximoId /\ Precedida(r, Vistas(c))
         /\ \E y \in respostas : /\ y.chamada = c /\ y.passo = r.passo
                                 /\ y.resultado = "ok" /\ y.anterior = r.anterior

(* The row being entered is of the current operation. *)
LinhaInv ==
  \A c \in Chamadas : pc[c] \in ComLinha =>
    /\ linha[c] # SemLinha /\ DaOperacao(c, linha[c]) /\ linha[c].passo = passo[c]
    /\ linha[c].id < proximoId /\ Precedida(linha[c], Vistas(c))
    /\ pc[c] = "sucessor" => linha[c].anterior # 0

(* No two rows, committed or not, have one key, but for one that has not entered
   the index yet. *)
ChavesInv ==
  /\ UmaPorTaskRun
  /\ \A c \in Chamadas : \A r \in Indexadas(c) :
       /\ \A s \in linhas : ~MesmaChave(r, s)
       /\ \A d \in Chamadas : \A s \in Indexadas(d) : MesmaChave(r, s) => r = s

(* No two rows, committed or not, have one predecessor. *)
SucessoresInv ==
  /\ UmSucessor
  /\ \A c \in Chamadas : \A r \in novas[c] :
       /\ \A s \in linhas : ~MesmoAnterior(r, s)
       /\ \A d \in Chamadas : \A s \in novas[d] : MesmoAnterior(r, s) => r = s

(* Only a call that began answers; a success that was answered has its row, and
   an error that was not confined to its savepoint has aborted the transaction. *)
RespostasInv ==
  \A x \in respostas :
    /\ pc[x.chamada] # "livre"
    /\ x.resultado = "ok" /\ pc[x.chamada] \in ComNovas =>
         \E r \in novas[x.chamada] : r.id = x.id /\ r.chamada = x.chamada /\ r.passo = x.passo
    /\ x.resultado = "ok" /\ pc[x.chamada] = "confirmada" => Registrada(x)
    /\ x.resultado \in Fatais => OpDe(x).aninhada \/ pc[x.chamada] \in {"abortada", "erro"}

IndInv ==
  /\ TypeOK /\ LinhasInv /\ NovasInv /\ LinhaInv /\ ChavesInv /\ SucessoresInv
  /\ RespostasInv /\ DuplicadoTemDono

------------------------------------------------------------------------------
LEMMA InitIndInv == Init => IndInv
  <1> SUFFICES ASSUME Init PROVE IndInv
    OBVIOUS
  <1>1. TypeOK
    BY DEF Init, TypeOK, Etapas
  <1>2. LinhasInv /\ NovasInv /\ LinhaInv
    BY DEF Init, LinhasInv, NovasInv, LinhaInv, ComLinha
  <1>3. ChavesInv /\ SucessoresInv
    BY DEF Init, ChavesInv, SucessoresInv, UmaPorTaskRun, UmSucessor, Indexadas
  <1>4. RespostasInv /\ DuplicadoTemDono
    BY DEF Init, RespostasInv, DuplicadoTemDono
  <1> QED
    BY <1>1, <1>2, <1>3, <1>4 DEF IndInv

LEMMA Desdobrar ==
  ASSUME IndInv
  PROVE  /\ TypeOK /\ LinhasInv /\ NovasInv /\ LinhaInv /\ ChavesInv /\ SucessoresInv
         /\ RespostasInv /\ DuplicadoTemDono
  BY DEF IndInv

(* The answer of an operation is well formed. *)
LEMMA RespostaTipada ==
  ASSUME TypeOK, LinhaInv, NEW c \in Chamadas, NEW r \in Resultados, NEW id \in Nat, Responder(c, r, id)
  PROVE  /\ Citado(c) \in Nat
         /\ respostas' \subseteq Respostas
         /\ passo' \in [Chamadas -> Nat \ {0}]
         /\ passo'[c] = passo[c] + 1 /\ \A d \in Chamadas \ {c} : passo'[d] = passo[d]
  <1>1. Citado(c) \in Nat
    BY DEF TypeOK, LinhaInv, Citado, ComLinha, Linhas
  <1>2. [chamada |-> c, passo |-> passo[c], resultado |-> r, id |-> id, anterior |-> Citado(c)]
           \in Respostas
    BY <1>1 DEF TypeOK, Respostas
  <1>3. passo' = [passo EXCEPT ![c] = passo[c] + 1] /\ passo[c] \in Nat \ {0}
    BY DEF Responder, TypeOK
  <1>4. respostas' \subseteq Respostas
    BY <1>2 DEF Responder, TypeOK
  <1> QED
    BY <1>1, <1>3, <1>4 DEF TypeOK

(* An operation answered without touching the rows: refused by validar, not
   found, or made in an aborted transaction. *)
LEMMA PassoDaRecusa ==
  ASSUME IndInv, NEW c \in Chamadas, NEW r \in {"invalida", "nao_encontrado", "ignorada"},
         Responder(c, r, 0), pc[c] \in {"fn", "abortada"},
         r = "ignorada" => pc[c] = "abortada",
         UNCHANGED <<linhas, proximoId, pc, linha, novas, vitima>>
  PROVE  IndInv'
  <1> DEFINE x == [chamada |-> c, passo |-> passo[c], resultado |-> r, id |-> 0,
                   anterior |-> Citado(c)]
  <1>0. /\ TypeOK /\ LinhasInv /\ NovasInv /\ LinhaInv /\ ChavesInv /\ SucessoresInv
        /\ RespostasInv /\ DuplicadoTemDono
    BY Desdobrar
  <1>1. /\ respostas' \subseteq Respostas /\ passo' \in [Chamadas -> Nat \ {0}]
        /\ passo'[c] = passo[c] + 1 /\ \A d \in Chamadas \ {c} : passo'[d] = passo[d]
    BY <1>0, RespostaTipada DEF Resultados
  <1>2. respostas' = respostas \union {x}
    BY DEF Responder
  <1>3. TypeOK'
    BY <1>0, <1>1 DEF TypeOK
  <1>4. LinhasInv'
    BY <1>0 DEF LinhasInv
  <1>5. NovasInv'
    BY <1>0, <1>1, <1>2 DEF NovasInv, TypeOK, Vistas, Linhas, DaOperacao, Precedida
  <1>6. LinhaInv'
    BY <1>0, <1>1 DEF LinhaInv, Vistas, ComLinha
  <1>7. ChavesInv' /\ SucessoresInv'
    BY <1>0 DEF ChavesInv, SucessoresInv, UmaPorTaskRun, UmSucessor, Indexadas
  <1>8. RespostasInv'
    BY <1>0, <1>2 DEF RespostasInv, Registrada, Fatais, OpDe
  <1>9. DuplicadoTemDono'
    BY <1>0, <1>2 DEF DuplicadoTemDono, OpDe, Disputam
  <1> QED
    BY <1>3, <1>4, <1>5, <1>6, <1>7, <1>8, <1>9 DEF IndInv

(* A call begins. *)
LEMMA PassoDeAbrir ==
  ASSUME IndInv, NEW c \in Chamadas, Abrir(c)
  PROVE  IndInv'
  <1>0. /\ TypeOK /\ LinhasInv /\ NovasInv /\ LinhaInv /\ ChavesInv /\ SucessoresInv
        /\ RespostasInv /\ DuplicadoTemDono
    BY Desdobrar
  <1>1. /\ pc' = [pc EXCEPT ![c] = "fn"] /\ pc[c] = "livre" /\ pc \in [Chamadas -> Etapas]
        /\ UNCHANGED <<linhas, proximoId, passo, linha, novas, respostas, vitima>>
    BY <1>0 DEF Abrir, Ir, TypeOK
  <1>2. TypeOK'
    BY <1>0, <1>1 DEF TypeOK, Etapas
  <1>3. LinhasInv' /\ NovasInv' /\ LinhaInv'
    <2>1. LinhasInv'
      BY <1>0, <1>1 DEF LinhasInv, TypeOK, Linhas
    <2>2. NovasInv'
      BY <1>0, <1>1 DEF NovasInv, Vistas, ComNovas, ComLinha, DaOperacao, Precedida
    <2>3. LinhaInv'
      BY <1>0, <1>1 DEF LinhaInv, Vistas, ComLinha
    <2> QED
      BY <2>1, <2>2, <2>3
  <1>4. ChavesInv' /\ SucessoresInv'
    BY <1>0, <1>1 DEF ChavesInv, SucessoresInv, UmaPorTaskRun, UmSucessor, Indexadas
  <1>5. RespostasInv'
    <2>1. \A x \in respostas : x.chamada # c
      BY <1>0, <1>1 DEF RespostasInv
    <2> QED
      BY <1>0, <1>1, <2>1 DEF RespostasInv, Registrada, OpDe, ComNovas, ComLinha
  <1>6. DuplicadoTemDono'
    BY <1>0, <1>1 DEF DuplicadoTemDono, OpDe, Disputam
  <1> QED
    BY <1>2, <1>3, <1>4, <1>5, <1>6 DEF IndInv

(* The SELECT of an INSERT finds what it needs: its row is new, and has a
   predecessor the transaction sees. *)
LEMMA PassoDeEntrar ==
  ASSUME IndInv, NEW c \in Chamadas, pc[c] = "fn", TemPasso(c),
         NEW anterior \in IF Atual(c).encadeia THEN Citaveis ELSE {0},
         Atual(c).run \in Existentes, Visivel(c, anterior),
         linha' = [linha EXCEPT ![c] = NovaLinha(c, anterior)],
         proximoId' = proximoId + 1, Ir(c, "chave"),
         UNCHANGED <<linhas, passo, novas, respostas, vitima>>
  PROVE  IndInv'
  <1> DEFINE nova == NovaLinha(c, anterior)
  <1>0. /\ TypeOK /\ LinhasInv /\ NovasInv /\ LinhaInv /\ ChavesInv /\ SucessoresInv
        /\ RespostasInv /\ DuplicadoTemDono
    BY Desdobrar
  <1>1. /\ pc \in [Chamadas -> Etapas] /\ pc' = [pc EXCEPT ![c] = "chave"]
        /\ proximoId \in Nat \ {0} /\ passo[c] \in 1 .. Passos[c]
        /\ linha \in [Chamadas -> Linhas \union {SemLinha}]
    BY <1>0, RecibosAssumption DEF TypeOK, Ir, TemPasso
  <1>2. Atual(c) \in Operacoes /\ (Atual(c).encadeia => Atual(c).tabela = "recibo")
    BY <1>1, RecibosAssumption DEF Atual
  <1>3. anterior \in Nat /\ (anterior # 0 => Atual(c).tabela = "recibo")
    BY <1>0, <1>1, <1>2 DEF Citaveis, TypeOK, Linhas, Respostas
  <1>4. nova \in Linhas
    BY <1>1, <1>2, <1>3, RecibosAssumption DEF NovaLinha, Linhas, Operacoes
  <1>5. /\ nova.chamada = c /\ nova.passo = passo[c] /\ nova.id = proximoId
        /\ nova.anterior = anterior /\ nova.tabela = Atual(c).tabela /\ nova.run = Atual(c).run
        /\ nova.tenant = TenantDe[Atual(c).run]
    BY DEF NovaLinha
  <1>6. /\ linha'[c] = nova /\ pc'[c] = "chave"
        /\ \A d \in Chamadas \ {c} : linha'[d] = linha[d] /\ pc'[d] = pc[d]
    BY <1>1
  <1>7. \A r \in Vistas(c) : r.id < proximoId
    BY <1>0 DEF Vistas, LinhasInv, NovasInv
  <1>8. Precedida(nova, Vistas(c))
    BY <1>3, <1>5, <1>7 DEF Precedida, Visivel
  <1> HIDE DEF nova
  <1>9. TypeOK'
    BY <1>0, <1>1, <1>4, <1>6 DEF TypeOK, Etapas, nova
  <1>10. LinhasInv'
    BY <1>0, <1>1 DEF LinhasInv, TypeOK, Linhas, Precedida
  <1>11. NovasInv'
    BY <1>0, <1>1 DEF NovasInv, TypeOK, Linhas, Vistas, ComNovas, ComLinha, DaOperacao, Precedida
  <1>12. LinhaInv'
    <2>1. \A d \in Chamadas : Vistas(d)' = Vistas(d)
      BY DEF Vistas
    <2>2. LinhaInv!(c)'
      <3>1. nova # SemLinha /\ nova.id < proximoId'
        BY <1>1, <1>4, <1>5, RecibosAssumption
      <3>2. DaOperacao(c, nova) /\ nova.passo = passo'[c]
        BY <1>5 DEF DaOperacao, Atual
      <3>3. Precedida(nova, Vistas(c)')
        BY <1>8, <2>1
      <3> QED
        BY <1>6, <3>1, <3>2, <3>3 DEF DaOperacao, Precedida
    <2>3. ASSUME NEW d \in Chamadas \ {c} PROVE LinhaInv!(d)'
      BY <1>0, <1>1, <1>6, <2>1 DEF LinhaInv, ComLinha, DaOperacao, Precedida, TypeOK, Linhas
    <2> QED
      BY <2>2, <2>3 DEF LinhaInv
  <1>13. ChavesInv' /\ SucessoresInv'
    <2>1. \A d \in Chamadas : Indexadas(d)' = Indexadas(d)
      BY <1>1, <1>6 DEF Indexadas
    <2> QED
      BY <1>0, <2>1 DEF ChavesInv, SucessoresInv, UmaPorTaskRun, UmSucessor, MesmaChave, MesmoAnterior
  <1>14. RespostasInv'
    BY <1>0, <1>1 DEF RespostasInv, Registrada, OpDe, ComNovas, ComLinha
  <1>15. DuplicadoTemDono'
    BY <1>0 DEF DuplicadoTemDono, OpDe, Disputam
  <1> QED
    BY <1>9, <1>10, <1>11, <1>12, <1>13, <1>14, <1>15 DEF IndInv

(* The row enters the index of the task_runs, and goes on to the other one. *)
LEMMA PassoDeIndexar ==
  ASSUME IndInv, NEW c \in Chamadas, pc[c] = "chave", ~Repetida(c), ~Presa(c),
         linha[c].anterior # 0, Ir(c, "sucessor"),
         UNCHANGED <<linhas, proximoId, passo, linha, novas, respostas, vitima>>
  PROVE  IndInv'
  <1>0. /\ TypeOK /\ LinhasInv /\ NovasInv /\ LinhaInv /\ ChavesInv /\ SucessoresInv
        /\ RespostasInv /\ DuplicadoTemDono
    BY Desdobrar
  <1>1. pc \in [Chamadas -> Etapas] /\ pc' = [pc EXCEPT ![c] = "sucessor"]
    BY <1>0 DEF TypeOK, Ir
  <1>2. \A d \in Chamadas : Vistas(d)' = Vistas(d)
    BY DEF Vistas
  <1>3. TypeOK'
    BY <1>0, <1>1 DEF TypeOK, Etapas
  <1>4. LinhasInv'
    BY <1>0, <1>1 DEF LinhasInv, Precedida
  <1>5. NovasInv'
    BY <1>0, <1>1, <1>2 DEF NovasInv, ComNovas, ComLinha, DaOperacao, Precedida
  <1>6. LinhaInv'
    BY <1>0, <1>1, <1>2 DEF LinhaInv, ComLinha, DaOperacao, Precedida
  <1>7. ChavesInv'
    <2>1. /\ Indexadas(c)' = novas[c] \union {linha[c]} /\ Indexadas(c) = novas[c]
          /\ \A d \in Chamadas \ {c} : Indexadas(d)' = Indexadas(d)
      BY <1>1 DEF Indexadas
    <2>2. /\ \A s \in linhas \union novas[c] : ~MesmaChave(s, linha[c])
          /\ \A d \in Chamadas \ {c} : \A s \in Indexadas(d) : ~MesmaChave(s, linha[c])
      BY DEF Repetida, Presa, Vistas
    <2> QED
      BY <1>0, <2>1, <2>2 DEF ChavesInv, UmaPorTaskRun, MesmaChave
  <1>8. SucessoresInv'
    BY <1>0 DEF SucessoresInv, UmSucessor, MesmoAnterior
  <1>9. RespostasInv'
    BY <1>0, <1>1 DEF RespostasInv, Registrada, OpDe, ComNovas, ComLinha
  <1>10. DuplicadoTemDono'
    BY <1>0 DEF DuplicadoTemDono, OpDe, Disputam
  <1> QED
    BY <1>3, <1>4, <1>5, <1>6, <1>7, <1>8, <1>9, <1>10 DEF IndInv

(* A row that is already there, with the key or the predecessor of the one
   being entered, accounts for the answer ErrDuplicado. *)
LEMMA DonoDoDuplicado ==
  ASSUME IndInv, NEW c \in Chamadas, pc[c] \in ComLinha,
         NEW s \in Vistas(c), MesmaChave(s, linha[c]) \/ MesmoAnterior(s, linha[c]),
         NEW x, x.chamada = c, x.passo = passo[c], x.anterior = Citado(c)
  PROVE  \/ \E r \in linhas : Disputam(r, x)
         \/ \E y \in respostas : /\ y.chamada = x.chamada /\ y.passo < x.passo /\ y.resultado = "ok"
                                 /\ Disputam([tabela |-> OpDe(y).tabela, run |-> OpDe(y).run,
                                              anterior |-> y.anterior], x)
  <1>0. TypeOK /\ LinhasInv /\ NovasInv /\ LinhaInv
    BY Desdobrar
  <1>1. /\ linha[c].tabela = OpDe(x).tabela /\ linha[c].run = OpDe(x).run
        /\ x.anterior = linha[c].anterior
        /\ linha[c].anterior # 0 => linha[c].tabela = "recibo"
    BY <1>0 DEF LinhaInv, DaOperacao, Precedida, OpDe, Citado, ComLinha
  <1>2. s.anterior # 0 => s.tabela = "recibo"
    BY <1>0 DEF Vistas, LinhasInv, NovasInv, Precedida
  <1>3. /\ s.tabela = OpDe(x).tabela
        /\ s.run = OpDe(x).run \/ (x.anterior # 0 /\ s.anterior = x.anterior)
    BY <1>1, <1>2 DEF MesmaChave, MesmoAnterior
  <1>4. CASE s \in linhas
    BY <1>3, <1>4 DEF Disputam
  <1>5. CASE s \in novas[c]
    <2>1. PICK y \in respostas : /\ y.chamada = c /\ y.passo = s.passo
                                 /\ y.resultado = "ok" /\ y.anterior = s.anterior
      BY <1>0, <1>5 DEF NovasInv
    <2>2. /\ s.passo < passo[c] /\ OpDe(y).tabela = s.tabela /\ OpDe(y).run = s.run
      BY <1>0, <1>5, <2>1 DEF NovasInv, DaOperacao, OpDe
    <2> QED
      BY <1>3, <2>1, <2>2 DEF Disputam
  <1> QED
    BY <1>4, <1>5 DEF Vistas

(* A statement fails, in its savepoint or with its transaction. *)
LEMMA PassoDaFalha ==
  ASSUME IndInv, NEW c \in Chamadas, NEW r \in {"duplicado", "check", "impasse"},
         pc[c] \in ComNovas,
         r = "duplicado" => /\ pc[c] \in ComLinha
                            /\ \E s \in Vistas(c) : \/ MesmaChave(s, linha[c])
                                                    \/ MesmoAnterior(s, linha[c]),
         FalharComando(c, r), UNCHANGED <<linhas, proximoId, vitima>>
  PROVE  IndInv'
  <1> DEFINE x == [chamada |-> c, passo |-> passo[c], resultado |-> r, id |-> 0,
                   anterior |-> Citado(c)]
  <1>0. /\ TypeOK /\ LinhasInv /\ NovasInv /\ LinhaInv /\ ChavesInv /\ SucessoresInv
        /\ RespostasInv /\ DuplicadoTemDono
    BY Desdobrar
  <1>1. /\ Responder(c, r, 0) /\ linha' = [linha EXCEPT ![c] = SemLinha]
        /\ respostas' = respostas \union {x}
    BY DEF FalharComando, Responder
  <1>2. /\ respostas' \subseteq Respostas /\ passo' \in [Chamadas -> Nat \ {0}]
        /\ passo'[c] = passo[c] + 1 /\ \A d \in Chamadas \ {c} : passo'[d] = passo[d]
    BY <1>0, <1>1, RespostaTipada DEF Resultados
  <1>3. /\ pc \in [Chamadas -> Etapas] /\ novas \in [Chamadas -> SUBSET Linhas]
        /\ linha \in [Chamadas -> Linhas \union {SemLinha}]
    BY <1>0 DEF TypeOK
  <1>4. /\ pc' \in [Chamadas -> Etapas] /\ novas' \in [Chamadas -> SUBSET Linhas]
        /\ linha' \in [Chamadas -> Linhas \union {SemLinha}]
        /\ \A d \in Chamadas \ {c} : pc'[d] = pc[d] /\ novas'[d] = novas[d] /\ linha'[d] = linha[d]
    BY <1>1, <1>3 DEF FalharComando, Ir, Etapas
  <1>5. \/ pc'[c] = "fn" /\ Atual(c).aninhada /\ novas'[c] = novas[c]
        \/ pc'[c] = "abortada" /\ novas'[c] = {}
    BY <1>3 DEF FalharComando, Ir
  <1>6. \A d \in Chamadas : /\ novas'[d] \subseteq novas[d]
                            /\ novas'[d] # {} => Vistas(d)' = Vistas(d)
                            /\ d # c => Vistas(d)' = Vistas(d)
    BY <1>4, <1>5 DEF Vistas
  <1>7. TypeOK'
    BY <1>0, <1>2, <1>4 DEF TypeOK
  <1>8. LinhasInv'
    BY <1>0, <1>4, <1>5 DEF LinhasInv, Precedida, ComNovas, ComLinha, TypeOK, Linhas
  <1>9. NovasInv'
    <2>1. ASSUME NEW d \in Chamadas, novas'[d] # {} PROVE pc'[d] \in ComNovas
      BY <1>0, <1>4, <1>5, <2>1 DEF NovasInv, ComNovas
    <2>2. ASSUME NEW d \in Chamadas, NEW s \in novas'[d]
          PROVE  /\ DaOperacao(d, s) /\ s.passo < passo'[d]
                 /\ s.id < proximoId /\ Precedida(s, Vistas(d)')
                 /\ \E y \in respostas' : /\ y.chamada = d /\ y.passo = s.passo
                                          /\ y.resultado = "ok" /\ y.anterior = s.anterior
      <3>1. s \in novas[d] /\ Vistas(d)' = Vistas(d)
        BY <1>6, <2>2
      <3>2. s.passo < passo'[d]
        BY <1>0, <1>2, <1>3, <3>1 DEF NovasInv, TypeOK, Linhas
      <3> QED
        BY <1>0, <1>1, <3>1, <3>2 DEF NovasInv
    <2> QED
      BY <2>1, <2>2 DEF NovasInv, DaOperacao, Precedida
  <1>10. LinhaInv'
    <2>1. \A d \in Chamadas : pc'[d] \in ComLinha => d # c
      BY <1>5 DEF ComLinha
    <2> QED
      BY <1>0, <1>2, <1>4, <1>6, <2>1 DEF LinhaInv, DaOperacao, Precedida
  <1>11. ChavesInv'
    <2>1. \A d \in Chamadas : Indexadas(d)' \subseteq Indexadas(d)
      BY <1>4, <1>5, <1>6 DEF Indexadas
    <2> QED
      BY <1>0, <2>1 DEF ChavesInv, UmaPorTaskRun, MesmaChave
  <1>12. SucessoresInv'
    BY <1>0, <1>6 DEF SucessoresInv, UmSucessor, MesmoAnterior
  <1>13. RespostasInv'
    <2>1. OpDe(x) = Atual(c)
      BY DEF OpDe, Atual
    <2>2. ASSUME NEW w \in respostas PROVE RespostasInv!(w)'
      BY <1>0, <1>4, <1>5 DEF RespostasInv, Registrada, OpDe, ComNovas, ComLinha, TypeOK, Respostas
    <2>3. /\ x.resultado # "ok" /\ pc'[x.chamada] # "livre"
          /\ OpDe(x).aninhada \/ pc'[x.chamada] \in {"abortada", "erro"}
      BY <1>5, <2>1
    <2> QED
      BY <1>1, <2>2, <2>3 DEF RespostasInv, OpDe
  <1>14. DuplicadoTemDono'
    <2>1. ASSUME r = "duplicado"
          PROVE  \/ \E s \in linhas : Disputam(s, x)
                 \/ \E y \in respostas : /\ y.chamada = x.chamada /\ y.passo < x.passo
                                         /\ y.resultado = "ok"
                                         /\ Disputam([tabela |-> OpDe(y).tabela, run |-> OpDe(y).run,
                                                      anterior |-> y.anterior], x)
      BY <2>1, DonoDoDuplicado
    <2> QED
      BY <1>0, <1>1, <2>1 DEF DuplicadoTemDono, OpDe, Disputam
  <1> QED
    BY <1>7, <1>8, <1>9, <1>10, <1>11, <1>12, <1>13, <1>14 DEF IndInv

(* The row is in all its indexes: no other row, committed or of an open
   transaction, has its key or its predecessor. *)
LEMMA PassoDaInsercao ==
  ASSUME IndInv, NEW c \in Chamadas,
         \/ pc[c] = "chave" /\ ~Repetida(c) /\ ~Presa(c) /\ linha[c].anterior = 0
         \/ pc[c] = "sucessor" /\ ~Sucedida(c) /\ ~Disputada(c),
         Inserida(c), UNCHANGED <<linhas, proximoId, vitima>>
  PROVE  IndInv'
  <1> DEFINE n == linha[c]
             x == [chamada |-> c, passo |-> passo[c], resultado |-> "ok", id |-> n.id,
                   anterior |-> Citado(c)]
  <1>0. /\ TypeOK /\ LinhasInv /\ NovasInv /\ LinhaInv /\ ChavesInv /\ SucessoresInv
        /\ RespostasInv /\ DuplicadoTemDono
    BY Desdobrar
  <1>1. pc[c] \in ComLinha /\ Citado(c) = n.anterior
    BY DEF ComLinha, Citado
  <1>2. /\ n \in Linhas /\ DaOperacao(c, n) /\ n.passo = passo[c] /\ n.id < proximoId
        /\ Precedida(n, Vistas(c)) /\ n.chamada = c
    BY <1>0, <1>1 DEF LinhaInv, TypeOK, DaOperacao
  <1>3. Responder(c, "ok", n.id) /\ respostas' = respostas \union {x}
    BY DEF Inserida, Responder
  <1>4. /\ respostas' \subseteq Respostas /\ passo' \in [Chamadas -> Nat \ {0}]
        /\ passo'[c] = passo[c] + 1 /\ \A d \in Chamadas \ {c} : passo'[d] = passo[d]
    <2>1. n.id \in Nat
      BY <1>2 DEF Linhas
    <2> QED
      BY <1>0, <1>3, <2>1, RespostaTipada DEF Resultados
  <1>5. /\ pc \in [Chamadas -> Etapas] /\ novas \in [Chamadas -> SUBSET Linhas]
        /\ linha \in [Chamadas -> Linhas \union {SemLinha}] /\ passo[c] \in Nat
    BY <1>0 DEF TypeOK
  <1>6. /\ pc' \in [Chamadas -> Etapas] /\ novas' \in [Chamadas -> SUBSET Linhas]
        /\ linha' \in [Chamadas -> Linhas \union {SemLinha}]
        /\ pc'[c] = "fn" /\ novas'[c] = novas[c] \union {n}
        /\ \A d \in Chamadas \ {c} : pc'[d] = pc[d] /\ novas'[d] = novas[d] /\ linha'[d] = linha[d]
    BY <1>2, <1>5 DEF Inserida, Ir, Etapas
  <1>7. /\ \A d \in Chamadas \ {c} : Vistas(d)' = Vistas(d)
        /\ Vistas(c)' = Vistas(c) \union {n}
    BY <1>6 DEF Vistas
  <1>8. /\ \A s \in linhas : ~MesmaChave(n, s)
        /\ \A d \in Chamadas : \A s \in Indexadas(d) : MesmaChave(n, s) => s = n
    <2>1. CASE pc[c] = "chave" /\ ~Repetida(c) /\ ~Presa(c)
      BY <2>1 DEF Repetida, Presa, Vistas, Indexadas, MesmaChave
    <2>2. CASE pc[c] = "sucessor"
      BY <1>0, <2>2 DEF ChavesInv, Indexadas
    <2> QED
      BY <2>1, <2>2
  <1>9. /\ \A s \in linhas : ~MesmoAnterior(n, s)
        /\ \A d \in Chamadas : \A s \in novas[d] : ~MesmoAnterior(n, s)
    BY DEF Sucedida, Disputada, Vistas, MesmoAnterior
  <1> HIDE DEF n
  <1>10. TypeOK'
    BY <1>0, <1>4, <1>6 DEF TypeOK
  <1>11. LinhasInv'
    BY <1>0, <1>1, <1>6 DEF LinhasInv, Precedida, ComLinha, TypeOK, Linhas
  <1>12. NovasInv'
    <2>1. ASSUME NEW d \in Chamadas, novas'[d] # {} PROVE pc'[d] \in ComNovas
      BY <1>0, <1>6, <2>1 DEF NovasInv, ComNovas
    <2>2. ASSUME NEW d \in Chamadas, NEW s \in novas[d]
          PROVE  /\ DaOperacao(d, s) /\ s.passo < passo'[d]
                 /\ s.id < proximoId /\ Precedida(s, Vistas(d)')
                 /\ \E y \in respostas' : /\ y.chamada = d /\ y.passo = s.passo
                                          /\ y.resultado = "ok" /\ y.anterior = s.anterior
      <3>1. s.passo < passo'[d]
        BY <1>0, <1>4, <1>5, <2>2 DEF NovasInv, TypeOK, Linhas
      <3>2. Precedida(s, Vistas(d)')
        BY <1>0, <1>7, <2>2 DEF NovasInv, Precedida
      <3> QED
        BY <1>0, <1>3, <2>2, <3>1, <3>2 DEF NovasInv
    <2>3. /\ DaOperacao(c, n) /\ n.passo < passo'[c]
          /\ n.id < proximoId /\ Precedida(n, Vistas(c)')
          /\ \E y \in respostas' : /\ y.chamada = c /\ y.passo = n.passo
                                   /\ y.resultado = "ok" /\ y.anterior = n.anterior
      <3>1. Precedida(n, Vistas(c)')
        BY <1>2, <1>7 DEF Precedida
      <3>2. x \in respostas' /\ x.anterior = n.anterior
        BY <1>1, <1>3 DEF n
      <3> QED
        BY <1>2, <1>4, <1>5, <3>1, <3>2
    <2>4. \A d \in Chamadas : \A s \in novas'[d] : s \in novas[d] \/ (d = c /\ s = n)
      BY <1>6
    <2> QED
      BY <2>1, <2>2, <2>3, <2>4 DEF NovasInv, DaOperacao, Precedida
  <1>13. LinhaInv'
    <2>1. \A d \in Chamadas : pc'[d] \in ComLinha => d # c
      BY <1>6 DEF ComLinha
    <2> QED
      BY <1>0, <1>4, <1>6, <1>7, <2>1 DEF LinhaInv, DaOperacao, Precedida
  <1>14. ChavesInv'
    <2>1. /\ Indexadas(c)' = novas[c] \union {n} /\ novas[c] \subseteq Indexadas(c)
          /\ \A d \in Chamadas \ {c} : Indexadas(d)' = Indexadas(d)
      BY <1>6 DEF Indexadas
    <2> QED
      BY <1>0, <1>8, <2>1 DEF ChavesInv, UmaPorTaskRun, MesmaChave
  <1>15. SucessoresInv'
    BY <1>0, <1>6, <1>9 DEF SucessoresInv, UmSucessor, MesmoAnterior
  <1>16. RespostasInv'
    <2>1. ASSUME NEW w \in respostas PROVE RespostasInv!(w)'
      BY <1>0, <1>1, <1>6 DEF RespostasInv, Registrada, OpDe, ComNovas, ComLinha, TypeOK, Respostas
    <2>2. /\ x.chamada = c /\ x.resultado = "ok"
          /\ \E r \in novas'[c] : r.id = x.id /\ r.chamada = c /\ r.passo = x.passo
      BY <1>2, <1>6
    <2> QED
      BY <1>3, <1>6, <2>1, <2>2 DEF RespostasInv, Fatais
  <1>17. DuplicadoTemDono'
    BY <1>0, <1>3 DEF DuplicadoTemDono, OpDe, Disputam
  <1> QED
    BY <1>10, <1>11, <1>12, <1>13, <1>14, <1>15, <1>16, <1>17 DEF IndInv

(* A transaction ends with nothing: its rows leave the indexes, and what others
   saw does not change. *)
LEMMA PassoDoRollback ==
  ASSUME IndInv, NEW c \in Chamadas, pc[c] \in Abertas \union {"livre"},
         Ir(c, "erro"), novas' = [novas EXCEPT ![c] = {}],
         linha' = linha \/ linha' = [linha EXCEPT ![c] = SemLinha],
         vitima' = vitima \/ vitima' = vitima \union {c},
         UNCHANGED <<linhas, proximoId, passo, respostas>>
  PROVE  IndInv'
  <1>0. /\ TypeOK /\ LinhasInv /\ NovasInv /\ LinhaInv /\ ChavesInv /\ SucessoresInv
        /\ RespostasInv /\ DuplicadoTemDono
    BY Desdobrar
  <1>1. /\ pc \in [Chamadas -> Etapas] /\ novas \in [Chamadas -> SUBSET Linhas]
        /\ linha \in [Chamadas -> Linhas \union {SemLinha}]
    BY <1>0 DEF TypeOK
  <1>2. /\ pc' \in [Chamadas -> Etapas] /\ novas' \in [Chamadas -> SUBSET Linhas]
        /\ linha' \in [Chamadas -> Linhas \union {SemLinha}]
        /\ pc'[c] = "erro" /\ novas'[c] = {}
        /\ \A d \in Chamadas \ {c} : pc'[d] = pc[d] /\ novas'[d] = novas[d] /\ linha'[d] = linha[d]
        /\ pc[c] # "confirmada"
    BY <1>1 DEF Ir, Etapas, Abertas
  <1>3. /\ vitima \subseteq vitima' /\ vitima' \subseteq Chamadas
        /\ \A d \in Chamadas \ {c} : Vistas(d)' = Vistas(d)
    BY <1>0, <1>2 DEF Vistas, TypeOK
  <1>4. TypeOK'
    BY <1>0, <1>2, <1>3 DEF TypeOK
  <1>5. LinhasInv'
    BY <1>0, <1>2, <1>3 DEF LinhasInv, Precedida, TypeOK, Linhas
  <1>6. NovasInv'
    BY <1>0, <1>2, <1>3 DEF NovasInv, DaOperacao, Precedida
  <1>7. LinhaInv'
    BY <1>0, <1>2, <1>3 DEF LinhaInv, ComLinha, DaOperacao, Precedida
  <1>8. ChavesInv'
    <2>1. /\ Indexadas(c)' = {} /\ \A d \in Chamadas \ {c} : Indexadas(d)' = Indexadas(d)
      BY <1>2 DEF Indexadas
    <2> QED
      BY <1>0, <2>1 DEF ChavesInv, UmaPorTaskRun, MesmaChave
  <1>9. SucessoresInv'
    BY <1>0, <1>2 DEF SucessoresInv, UmSucessor, MesmoAnterior
  <1>10. RespostasInv'
    BY <1>0, <1>2 DEF RespostasInv, Registrada, OpDe, ComNovas, ComLinha, TypeOK, Respostas
  <1>11. DuplicadoTemDono'
    BY <1>0 DEF DuplicadoTemDono, OpDe, Disputam
  <1> QED
    BY <1>4, <1>5, <1>6, <1>7, <1>8, <1>9, <1>10, <1>11 DEF IndInv

(* A commit: what the transaction inserted is now seen by all, and no row it
   meets, committed or open, has its keys or its predecessors. *)
LEMMA PassoDoCommit ==
  ASSUME IndInv, NEW c \in Chamadas, NEW para \in {"confirmada", "erro"},
         pc[c] = "fn", Ir(c, para), Publicar(c),
         linha' = linha \/ linha' = [linha EXCEPT ![c] = SemLinha],
         \/ para = "confirmada" /\ vitima' = vitima
         \/ para = "erro" /\ vitima' = vitima \union {c},
         UNCHANGED <<proximoId, passo, respostas>>
  PROVE  IndInv'
  <1>0. /\ TypeOK /\ LinhasInv /\ NovasInv /\ LinhaInv /\ ChavesInv /\ SucessoresInv
        /\ RespostasInv /\ DuplicadoTemDono
    BY Desdobrar
  <1>1. /\ pc \in [Chamadas -> Etapas] /\ novas \in [Chamadas -> SUBSET Linhas]
        /\ linha \in [Chamadas -> Linhas \union {SemLinha}]
    BY <1>0 DEF TypeOK
  <1>2. /\ pc' \in [Chamadas -> Etapas] /\ novas' \in [Chamadas -> SUBSET Linhas]
        /\ linha' \in [Chamadas -> Linhas \union {SemLinha}]
        /\ linhas' = linhas \union novas[c]
        /\ pc'[c] = para /\ novas'[c] = {}
        /\ \A d \in Chamadas \ {c} : pc'[d] = pc[d] /\ novas'[d] = novas[d] /\ linha'[d] = linha[d]
    BY <1>1 DEF Ir, Publicar, Etapas
  <1>3. /\ vitima \subseteq vitima' /\ vitima' \subseteq Chamadas
        /\ pc'[c] = "confirmada" \/ c \in vitima'
        /\ \A d \in Chamadas \ {c} : Vistas(d)' = Vistas(d) \union novas[c]
    BY <1>0, <1>2 DEF Vistas, TypeOK
  <1>4. \A r \in novas[c] : r.chamada = c
    BY <1>0 DEF NovasInv, DaOperacao
  <1>5. TypeOK'
    BY <1>0, <1>2, <1>3 DEF TypeOK
  <1>6. LinhasInv'
    <2>1. ASSUME NEW r \in linhas PROVE LinhasInv!(r)'
      BY <1>0, <1>2, <1>3, <2>1 DEF LinhasInv, Precedida, TypeOK, Linhas
    <2>2. ASSUME NEW r \in novas[c] PROVE LinhasInv!(r)'
      BY <1>0, <1>2, <1>3, <1>4, <2>2 DEF NovasInv, Precedida, Vistas
    <2> QED
      BY <1>2, <2>1, <2>2 DEF LinhasInv
  <1>7. NovasInv'
    BY <1>0, <1>2, <1>3 DEF NovasInv, DaOperacao, Precedida
  <1>8. LinhaInv'
    <2>1. \A d \in Chamadas : pc'[d] \in ComLinha => d # c
      BY <1>2 DEF ComLinha
    <2> QED
      BY <1>0, <1>2, <1>3, <2>1 DEF LinhaInv, ComLinha, DaOperacao, Precedida
  <1>9. ChavesInv'
    <2>1. /\ Indexadas(c)' = {} /\ novas[c] \subseteq Indexadas(c)
          /\ \A d \in Chamadas \ {c} : Indexadas(d)' = Indexadas(d)
      BY <1>2 DEF Indexadas
    <2>2. \A d \in Chamadas \ {c} : \A r \in Indexadas(d) : r.chamada = d
      BY <1>0 DEF Indexadas, NovasInv, LinhaInv, DaOperacao, ComLinha
    <2>3. UmaPorTaskRun'
      BY <1>0, <1>2, <2>1 DEF ChavesInv, UmaPorTaskRun, MesmaChave
    <2>4. \A d \in Chamadas \ {c} : \A r \in Indexadas(d) : \A s \in novas[c] : ~MesmaChave(r, s)
      BY <1>0, <1>4, <2>1, <2>2 DEF ChavesInv
    <2> QED
      BY <1>0, <1>2, <2>1, <2>3, <2>4 DEF ChavesInv, MesmaChave
  <1>10. SucessoresInv'
    <2>1. UmSucessor'
      BY <1>0, <1>2 DEF SucessoresInv, UmSucessor, MesmoAnterior
    <2>2. \A d \in Chamadas \ {c} : \A r \in novas[d] : \A s \in novas[c] : ~MesmoAnterior(r, s)
      BY <1>0, <1>4 DEF SucessoresInv, NovasInv, DaOperacao
    <2> QED
      BY <1>0, <1>2, <2>1, <2>2 DEF SucessoresInv, MesmoAnterior
  <1>11. RespostasInv'
    BY <1>0, <1>2 DEF RespostasInv, Registrada, OpDe, ComNovas, ComLinha, TypeOK, Respostas
  <1>12. DuplicadoTemDono'
    BY <1>0, <1>2 DEF DuplicadoTemDono, OpDe, Disputam
  <1> QED
    BY <1>5, <1>6, <1>7, <1>8, <1>9, <1>10, <1>11, <1>12 DEF IndInv

(* Every action of a call is one of those steps. *)
LEMMA PassoDaChamada ==
  ASSUME IndInv, NEW c \in Chamadas, Abrir(c) \/ Andar(c) \/ Falhar(c)
  PROVE  IndInv'
  <1>1. CASE Abrir(c)
    BY <1>1, PassoDeAbrir
  <1>2. CASE Validar(c)
    BY <1>2, PassoDaRecusa DEF Validar
  <1>3. CASE Consultar(c)
    <2>1. PICK anterior \in IF Atual(c).encadeia THEN Citaveis ELSE {0} :
            \/ /\ Atual(c).run \in Existentes /\ Visivel(c, anterior)
               /\ linha' = [linha EXCEPT ![c] = NovaLinha(c, anterior)]
               /\ proximoId' = proximoId + 1
               /\ Ir(c, "chave")
               /\ UNCHANGED <<passo, respostas>>
            \/ Responder(c, "nao_encontrado", 0) /\ UNCHANGED <<proximoId, pc, linha>>
      BY <1>3 DEF Consultar
    <2>2. pc[c] = "fn" /\ TemPasso(c) /\ UNCHANGED <<linhas, novas, vitima>>
      BY <1>3 DEF Consultar, ChegaAoBanco
    <2>3. CASE /\ Atual(c).run \in Existentes /\ Visivel(c, anterior)
               /\ linha' = [linha EXCEPT ![c] = NovaLinha(c, anterior)]
               /\ proximoId' = proximoId + 1
               /\ Ir(c, "chave")
               /\ UNCHANGED <<passo, respostas>>
      BY <2>2, <2>3, PassoDeEntrar
    <2>4. CASE Responder(c, "nao_encontrado", 0) /\ UNCHANGED <<proximoId, pc, linha>>
      BY <2>2, <2>4, PassoDaRecusa
    <2> QED
      BY <2>1, <2>3, <2>4
  <1>4. CASE RecusarPeloCheck(c)
    BY <1>4, PassoDaFalha DEF RecusarPeloCheck, ComNovas
  <1>5. CASE Indexar(c)
    <2>1. pc[c] = "chave" /\ pc[c] \in ComLinha /\ pc[c] \in ComNovas
      BY <1>5 DEF Indexar, ComLinha, ComNovas
    <2>2. CASE Repetida(c) /\ FalharComando(c, "duplicado")
      BY <1>5, <2>1, <2>2, PassoDaFalha DEF Indexar, Repetida
    <2>3. CASE /\ ~Repetida(c) /\ ~Presa(c) /\ linha[c].anterior = 0
               /\ Inserida(c)
      BY <1>5, <2>1, <2>3, PassoDaInsercao DEF Indexar
    <2>4. CASE /\ ~Repetida(c) /\ ~Presa(c) /\ linha[c].anterior # 0
               /\ Ir(c, "sucessor")
               /\ UNCHANGED <<passo, linha, novas, respostas>>
      BY <1>5, <2>1, <2>4, PassoDeIndexar DEF Indexar
    <2> QED
      BY <1>5, <2>2, <2>3, <2>4 DEF Indexar
  <1>6. CASE Suceder(c)
    <2>1. pc[c] = "sucessor" /\ pc[c] \in ComLinha /\ pc[c] \in ComNovas
      BY <1>6 DEF Suceder, ComLinha, ComNovas
    <2>2. CASE Sucedida(c) /\ FalharComando(c, "duplicado")
      BY <1>6, <2>1, <2>2, PassoDaFalha DEF Suceder, Sucedida
    <2>3. CASE ~Sucedida(c) /\ ~Disputada(c) /\ Inserida(c)
      BY <1>6, <2>1, <2>3, PassoDaInsercao DEF Suceder
    <2> QED
      BY <1>6, <2>2, <2>3 DEF Suceder
  <1>7. CASE Ignorar(c)
    BY <1>7, PassoDaRecusa DEF Ignorar
  <1>8. CASE Impasse(c)
    BY <1>8, PassoDaFalha DEF Impasse, ComNovas, ComLinha
  <1>9. CASE Desfazer(c)
    BY <1>9, PassoDoRollback DEF Desfazer, Abertas
  <1>10. CASE Confirmar(c)
    <2>1. CASE pc[c] = "fn" /\ Publicar(c) /\ Ir(c, "confirmada")
      BY <1>10, <2>1, PassoDoCommit DEF Confirmar
    <2>2. CASE pc[c] = "abortada" /\ Ir(c, "erro") /\ UNCHANGED <<linhas, novas>>
      <3>1. novas' = [novas EXCEPT ![c] = {}]
        BY <2>2, Desdobrar DEF TypeOK, NovasInv, ComNovas, ComLinha
      <3> QED
        BY <1>10, <2>2, <3>1, PassoDoRollback DEF Confirmar, Abertas
    <2> QED
      BY <1>10, <2>1, <2>2 DEF Confirmar
  <1>11. CASE Falhar(c)
    <2>1. CASE UNCHANGED linhas /\ novas' = [novas EXCEPT ![c] = {}]
      BY <1>11, <2>1, PassoDoRollback DEF Falhar
    <2>2. CASE pc[c] = "fn" /\ Publicar(c)
      BY <1>11, <2>2, PassoDoCommit DEF Falhar
    <2> QED
      BY <1>11, <2>1, <2>2 DEF Falhar
  <1> QED
    BY <1>1, <1>2, <1>3, <1>4, <1>5, <1>6, <1>7, <1>8, <1>9, <1>10, <1>11 DEF Andar

THEOREM Inductive == IndInv /\ [Next]_vars => IndInv'
  <1> SUFFICES ASSUME IndInv, [Next]_vars PROVE IndInv'
    OBVIOUS
  <1>1. CASE UNCHANGED vars
    <2>1. \A d \in Chamadas : Vistas(d)' = Vistas(d) /\ Indexadas(d)' = Indexadas(d)
      BY <1>1 DEF vars, Vistas, Indexadas
    <2>2. TypeOK' /\ LinhasInv' /\ RespostasInv' /\ DuplicadoTemDono'
      BY <1>1, Desdobrar DEF vars, TypeOK, LinhasInv, Precedida, RespostasInv, Registrada, OpDe,
                             DuplicadoTemDono, Disputam
    <2>3. NovasInv' /\ LinhaInv'
      BY <1>1, <2>1, Desdobrar DEF vars, NovasInv, LinhaInv, DaOperacao, Precedida
    <2>4. ChavesInv' /\ SucessoresInv'
      BY <1>1, <2>1, Desdobrar DEF vars, ChavesInv, SucessoresInv, UmaPorTaskRun, UmSucessor,
                                   MesmaChave, MesmoAnterior
    <2> QED
      BY <2>2, <2>3, <2>4 DEF IndInv
  <1>2. ASSUME NEW c \in Chamadas, Abrir(c) \/ Andar(c) \/ Falhar(c) PROVE IndInv'
    BY <1>2, PassoDaChamada
  <1> QED
    BY <1>1, <1>2 DEF Next

THEOREM Invariante == Spec => []IndInv
  BY InitIndInv, Inductive, PTL DEF Spec

(* The variables keep their types. *)
THEOREM TiposCorretos == Spec => []TypeOK
  BY Invariante, PTL DEF IndInv

(* AnexarRecibo, GravarGateDeRisco and Gravar: whatever transactions overlap,
   the receipts of a tenant are chains without forks and a task_run has at most
   one row of each table. *)
THEOREM CadeiaNaoBifurca == Spec => []CadeiaLinear
  <1>1. IndInv => CadeiaLinear
    BY DEF IndInv, ChavesInv, SucessoresInv, LinhasInv, Precedida, CadeiaLinear, AnteriorExiste
  <1> QED
    BY <1>1, Invariante, PTL

(* EmTransacao: a nil error means that every row answered for is there, and that
   no failed statement was swallowed; rows appear only by a commit. *)
THEOREM CommitGuardaTudo == Spec => []TransacaoRegistrada
  <1>1. IndInv => TransacaoRegistrada
    BY DEF IndInv, RespostasInv, LinhasInv, TransacaoRegistrada
  <1> QED
    BY <1>1, Invariante, PTL

(* traduzir: ErrDuplicado always has a row that came first and stays. *)
THEOREM DuplicadoNaoSome == Spec => []DuplicadoTemDono
  BY Invariante, PTL DEF IndInv

------------------------------------------------------------------------------
(* Somebody can always go on, and each step brings its call nearer to its end *)

Espera(c) == \E d \in Chamadas \ {c} : EsperaPor(c, d)

(* The call has a step to take: no other holds the key it wants, or the database
   breaks its deadlock. *)
Pronta(c) == pc[c] \in Abertas /\ (~Espera(c) \/ EmImpasse(c))

(* Whatever keys the open transactions hold in the two indexes, they do not all
   wait, unless for one another. *)
NemTodasPresas == (\E c \in Chamadas : pc[c] \in Abertas) => \E c \in Chamadas : Pronta(c)

Restam(c) == (Passos[c] + 1) - passo[c]

(* How many steps a call has left at most. *)
Falta(c) ==
  CASE pc[c] = "livre" -> 4 * Passos[c] + 2
    [] pc[c] \in {"fn", "abortada"} -> 4 * Restam(c) + 1
    [] pc[c] = "chave" -> 4 * Restam(c)
    [] pc[c] = "sucessor" -> 4 * Restam(c) - 1
    [] OTHER -> 0

FaltaContada == \A c \in Chamadas : Falta(c) \in Nat

(* Every step of a call brings it nearer to its end, also in a transaction that
   PostgreSQL aborted, and leaves the others where they are. *)
Aproxima ==
  \A c \in Chamadas :
    /\ Abrir(c) \/ Andar(c) \/ Falhar(c) => Falta(c)' < Falta(c)
    /\ Falta(c)' <= Falta(c)

(* The operation a call is making is one of its own. *)
PassoContido ==
  \A c \in Chamadas : passo[c] <= Passos[c] + 1 /\ (pc[c] \in ComLinha => passo[c] <= Passos[c])

(* When every open call waits, they wait for one another. *)
LEMMA SempreHaSaida == IndInv => NemTodasPresas
  <1> SUFFICES ASSUME IndInv, NEW c \in Chamadas, pc[c] \in Abertas, \A d \in Chamadas : ~Pronta(d)
               PROVE  FALSE
    BY DEF NemTodasPresas
  <1> DEFINE ciclo == {d \in Chamadas : pc[d] \in Abertas}
  <1>1. ASSUME NEW d \in ciclo PROVE \E e \in ciclo \ {d} : EsperaPor(d, e)
    <2>1. PICK e \in Chamadas \ {d} : EsperaPor(d, e)
      BY DEF Pronta, Espera
    <2>2. novas[e] # {} \/ pc[e] = "sucessor"
      BY <2>1 DEF EsperaPor, Indexadas
    <2>3. pc[e] \in Abertas
      BY <2>2 DEF IndInv, NovasInv, ComNovas, ComLinha, Abertas
    <2> QED
      BY <2>1, <2>3
  <1>2. EmImpasse(c)
    BY <1>1 DEF EmImpasse
  <1> QED
    BY <1>2 DEF Pronta

LEMMA PassoReduz ==
  ASSUME TypeOK, PassoContido, NEW c \in Chamadas, Abrir(c) \/ Andar(c) \/ Falhar(c)
  PROVE  Falta(c)' < Falta(c) /\ passo'[c] <= Passos[c] + 1 /\ (pc'[c] \in ComLinha => passo'[c] <= Passos[c])
  <1> DEFINE n == Passos[c]
             p == passo[c]
  <1> SUFFICES Falta(c)' < Falta(c) /\ passo'[c] <= n + 1 /\ (pc'[c] \in ComLinha => passo'[c] <= n)
    OBVIOUS
  <1>0. n \in Nat /\ p \in Nat /\ 1 <= p /\ p <= n + 1 /\ (pc[c] \in ComLinha => p <= n)
    BY RecibosAssumption DEF TypeOK, PassoContido
  <1>a. ASSUME NEW para, Ir(c, para) PROVE pc'[c] = para
    BY <1>a DEF Ir, TypeOK
  <1>b. /\ pc[c] = "livre" => Falta(c) = 4 * n + 2
        /\ pc[c] \in {"fn", "abortada"} => Falta(c) = 4 * ((n + 1) - p) + 1
        /\ pc[c] = "chave" => Falta(c) = 4 * ((n + 1) - p) /\ p <= n
        /\ pc[c] = "sucessor" => Falta(c) = 4 * ((n + 1) - p) - 1 /\ p <= n
    BY <1>0 DEF Falta, Restam, ComLinha
  <1>c. /\ pc'[c] \in {"fn", "abortada"} => Falta(c)' = 4 * ((n + 1) - passo'[c]) + 1
        /\ pc'[c] = "chave" => Falta(c)' = 4 * ((n + 1) - passo'[c])
        /\ pc'[c] = "sucessor" => Falta(c)' = 4 * ((n + 1) - passo'[c]) - 1
        /\ pc'[c] \in {"confirmada", "erro"} => Falta(c)' = 0
    BY DEF Falta, Restam
  <1>d. pc'[c] \in ComLinha => pc'[c] \in {"chave", "sucessor"}
    BY DEF ComLinha
  <1>e. ASSUME pc[c] \in {"fn", "abortada", "chave", "sucessor"}, p <= n,
               pc'[c] \in {"fn", "abortada"}, passo'[c] = p + 1
        PROVE  Falta(c)' < Falta(c) /\ passo'[c] <= n + 1 /\ (pc'[c] \in ComLinha => passo'[c] <= n)
    <2> HIDE DEF n, p
    <2> QED
      BY <1>0, <1>b, <1>c, <1>d, <1>e
  <1>f. ASSUME pc[c] \in Etapas \ {"confirmada", "erro"}, pc'[c] \in {"confirmada", "erro"}, passo' = passo
        PROVE  Falta(c)' < Falta(c) /\ passo'[c] <= n + 1 /\ (pc'[c] \in ComLinha => passo'[c] <= n)
    <2>1. passo'[c] = p
      BY <1>f
    <2> HIDE DEF n, p
    <2> QED
      BY <1>0, <1>b, <1>c, <1>d, <1>f, <2>1 DEF Etapas
  <1>g. ASSUME NEW r, NEW id, Responder(c, r, id) PROVE passo'[c] = p + 1
    BY <1>g DEF Responder, TypeOK
  <1>h. ASSUME NEW r, FalharComando(c, r) PROVE passo'[c] = p + 1 /\ pc'[c] \in {"fn", "abortada"}
    BY <1>a, <1>g, <1>h DEF FalharComando
  <1>i. ASSUME Inserida(c) PROVE passo'[c] = p + 1 /\ pc'[c] = "fn"
    BY <1>a, <1>g, <1>i DEF Inserida
  <1>1. CASE Abrir(c)
    <2>1. pc[c] = "livre" /\ pc'[c] = "fn" /\ passo'[c] = p
      BY <1>1, <1>a DEF Abrir
    <2> HIDE DEF n, p
    <2> QED
      BY <1>0, <1>b, <1>c, <1>d, <2>1
  <1>2. CASE Validar(c) \/ Ignorar(c)
    BY <1>2, <1>e, <1>g DEF Validar, Ignorar, ChegaAoBanco, TemPasso
  <1>3. CASE Consultar(c)
    <2>1. pc[c] = "fn" /\ p <= n
      BY <1>3 DEF Consultar, ChegaAoBanco, TemPasso
    <2>2. \/ pc'[c] = "chave" /\ passo'[c] = p
          \/ pc'[c] = "fn" /\ passo'[c] = p + 1
      BY <1>3, <1>a, <1>g, <2>1 DEF Consultar
    <2>3. CASE pc'[c] = "chave" /\ passo'[c] = p
      <3> HIDE DEF n, p
      <3> QED
        BY <1>0, <1>b, <1>c, <1>d, <2>1, <2>3
    <2> QED
      BY <1>e, <2>1, <2>2, <2>3
  <1>4. CASE RecusarPeloCheck(c)
    BY <1>4, <1>e, <1>h DEF RecusarPeloCheck, ChegaAoBanco, TemPasso
  <1>5. CASE Indexar(c)
    <2>1. pc[c] = "chave" /\ p <= n
      BY <1>0, <1>5 DEF Indexar, ComLinha
    <2>2. \/ pc'[c] = "sucessor" /\ passo'[c] = p
          \/ pc'[c] \in {"fn", "abortada"} /\ passo'[c] = p + 1
      BY <1>5, <1>a, <1>h, <1>i DEF Indexar
    <2>3. CASE pc'[c] = "sucessor" /\ passo'[c] = p
      <3> HIDE DEF n, p
      <3> QED
        BY <1>0, <1>b, <1>c, <1>d, <2>1, <2>3
    <2> QED
      BY <1>e, <2>1, <2>2, <2>3
  <1>6. CASE Suceder(c)
    <2>1. pc[c] = "sucessor" /\ p <= n
      BY <1>0, <1>6 DEF Suceder, ComLinha
    <2>2. pc'[c] \in {"fn", "abortada"} /\ passo'[c] = p + 1
      BY <1>6, <1>h, <1>i DEF Suceder
    <2> QED
      BY <1>e, <2>1, <2>2
  <1>7. CASE Impasse(c)
    <2>1. pc[c] \in {"chave", "sucessor"} /\ p <= n
      BY <1>0, <1>7 DEF Impasse, ComLinha
    <2> QED
      BY <1>7, <1>e, <1>h, <2>1 DEF Impasse
  <1>8. CASE Desfazer(c)
    BY <1>8, <1>a, <1>f DEF Desfazer, Etapas
  <1>9. CASE Confirmar(c)
    BY <1>9, <1>a, <1>f DEF Confirmar, Etapas
  <1>10. CASE Falhar(c)
    BY <1>10, <1>a, <1>f DEF Falhar, Abertas, Etapas
  <1> QED
    BY <1>1, <1>2, <1>3, <1>4, <1>5, <1>6, <1>7, <1>8, <1>9, <1>10 DEF Andar

LEMMA OutraParada ==
  ASSUME TypeOK, NEW c \in Chamadas, Abrir(c) \/ Andar(c) \/ Falhar(c), NEW d \in Chamadas, d # c
  PROVE  pc'[d] = pc[d] /\ passo'[d] = passo[d]
  BY DEF TypeOK, Andar, Abrir, Validar, Consultar, RecusarPeloCheck, Indexar, Suceder, Ignorar,
         Impasse, Desfazer, Confirmar, Falhar, FalharComando, Inserida, Responder, Ir

LEMMA FaltaNatural ==
  ASSUME TypeOK, PassoContido, NEW c \in Chamadas
  PROVE  Falta(c) \in Nat
  <1>1. /\ passo[c] \in Nat \ {0} /\ Passos[c] \in Nat \ {0} /\ passo[c] <= Passos[c] + 1
        /\ pc[c] \in ComLinha => passo[c] <= Passos[c]
    BY RecibosAssumption DEF TypeOK, PassoContido
  <1>2. Restam(c) \in Nat /\ (pc[c] \in ComLinha => Restam(c) >= 1)
    BY <1>1 DEF Restam
  <1> QED
    BY <1>1, <1>2 DEF Falta, ComLinha

(* EmTransacao: for any calls, the open ones do not all wait unless the database
   breaks their deadlock, and each takes a bounded number of steps: what the
   calls need to end is only that a call that is ready goes on. *)
THEOREM TodaChamadaAvanca == Spec => []NemTodasPresas /\ []FaltaContada /\ [][Aproxima]_vars
  <1>1. Init => PassoContido
    <2> SUFFICES ASSUME Init, NEW c \in Chamadas
                 PROVE  passo[c] <= Passos[c] + 1 /\ (pc[c] \in ComLinha => passo[c] <= Passos[c])
      BY DEF PassoContido
    <2>1. passo[c] = 1 /\ Passos[c] \in Nat /\ pc[c] = "livre"
      BY RecibosAssumption DEF Init
    <2> QED
      BY <2>1 DEF ComLinha
  <1>2. TypeOK /\ PassoContido => FaltaContada
    BY FaltaNatural DEF FaltaContada
  <1>3. TypeOK /\ PassoContido /\ [Next]_vars => PassoContido'
    <2>1. ASSUME PassoContido, UNCHANGED vars PROVE PassoContido'
      BY <2>1 DEF PassoContido, vars
    <2>2. ASSUME TypeOK, PassoContido, NEW c \in Chamadas, Abrir(c) \/ Andar(c) \/ Falhar(c)
          PROVE  PassoContido'
      <3> SUFFICES ASSUME NEW d \in Chamadas
                   PROVE  passo'[d] <= Passos[d] + 1 /\ (pc'[d] \in ComLinha => passo'[d] <= Passos[d])
        BY DEF PassoContido
      <3>1. CASE d = c
        BY <2>2, <3>1, PassoReduz
      <3>2. CASE d # c
        <4>1. passo'[d] = passo[d] /\ pc'[d] = pc[d]
          BY <2>2, <3>2, OutraParada
        <4> QED
          BY <2>2, <4>1 DEF PassoContido
      <3> QED
        BY <3>1, <3>2
    <2> QED
      BY <2>1, <2>2 DEF Next
  <1>4. TypeOK /\ PassoContido /\ FaltaContada /\ FaltaContada' /\ [Next]_vars => [Aproxima]_vars
    <2> SUFFICES ASSUME TypeOK, PassoContido, FaltaContada, FaltaContada', Next, NEW c \in Chamadas
                 PROVE  /\ Abrir(c) \/ Andar(c) \/ Falhar(c) => Falta(c)' < Falta(c)
                        /\ Falta(c)' <= Falta(c)
      BY DEF Aproxima
    <2>0. Falta(c) \in Nat /\ Falta(c)' \in Nat
      BY DEF FaltaContada
    <2>1. Abrir(c) \/ Andar(c) \/ Falhar(c) => Falta(c)' < Falta(c)
      BY PassoReduz
    <2>2. ASSUME NEW d \in Chamadas, Abrir(d) \/ Andar(d) \/ Falhar(d), d # c PROVE Falta(c)' = Falta(c)
      BY <2>2, OutraParada DEF Falta, Restam
    <2> QED
      BY <2>0, <2>1, <2>2 DEF Next
  <1> QED
    BY <1>1, <1>2, <1>3, <1>4, SempreHaSaida, Invariante, TiposCorretos, PTL DEF Spec
==============================================================================
