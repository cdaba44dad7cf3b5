-------------------------------- MODULE TaskRuns --------------------------------
(***************************************************************************)
(* RepositorioPostgres.TransicionarTaskRun and EmTransacao over the tables *)
(* task_runs and task_steps, under PostgreSQL's READ COMMITTED.  A call is *)
(* one transaction: a transition made on the pool, or the function a       *)
(* caller hands to EmTransacao, whose transitions are nested as            *)
(* savepoints.  A transition is a compare-and-set of task_runs.state that  *)
(* keeps the row locked, then one row of task_steps.                       *)
(***************************************************************************)
EXTENDS Naturals, FiniteSets

CONSTANTS
  Chamadas,      \* calls; each runs at most once
  Explicitas,    \* those that are a function handed to EmTransacao
  TaskRunIds,    \* the ids the calls name
  Existentes,    \* the ones that are rows of task_runs
  Estados,       \* the states a transition may name
  Pendente,      \* the state task_runs rows are created in
  Nenhum,        \* a row the transaction did not write
  Pedido,        \* the transitions of each call
  Passos,        \* Passos[c]: how many
  BancoFalha,    \* TRUE: a statement, the connection or the commit may fail
  MaxFalhas      \* bound: the statements that fail alone

Transicoes == [run : TaskRunIds, de : Estados, para : Estados, valida : BOOLEAN]

ASSUME TaskRunsAssumption ==
  /\ Explicitas \subseteq Chamadas
  /\ Existentes \subseteq TaskRunIds
  /\ Pendente \in Estados
  /\ Nenhum \notin Estados
  /\ Passos \in [Chamadas -> Nat \ {0}]
  /\ \A c \in Chamadas : Pedido[c] \in [1 .. Passos[c] -> Transicoes]
  /\ \A c \in Chamadas \ Explicitas : Passos[c] = 1
  /\ BancoFalha \in BOOLEAN /\ MaxFalhas \in Nat

VARIABLES
  estado,     \* task_runs.state of the rows, as committed
  etapas,     \* the committed rows of task_steps
  proximoId,  \* the sequence of task_steps.id, which no rollback takes back
  pc,         \* where each call is
  passo,      \* the transition each call is making or will make
  versao,     \* the state a transaction wrote in a row, which it then keeps locked
  novas,      \* the rows of task_steps each transaction inserted
  respostas,  \* what each transition answered
  vitima      \* history: the calls that failed in the database

vars == <<estado, etapas, proximoId, pc, passo, versao, novas, respostas, vitima>>

Etapas == {"livre", "fn", "inserir", "conferir", "confirmada", "erro"}
TaskSteps == [id : Nat, run : Existentes, de : Estados, para : Estados,
              chamada : Chamadas, passo : Nat]
Recusas == {"invalida", "concorrente", "nao_encontrado", "impasse", "falha"}

------------------------------------------------------------------------------
Atual(c) == Pedido[c][passo[c]]

(* Variant: the write is not made in the transaction, and locks nothing. *)
NuncaTrancada(c, run) == FALSE

Trancada(c, run) == \E d \in Chamadas \ {c} : versao[d][run] # Nenhum

(* The state a transaction sees: what it wrote, or else what is committed. *)
Vista(c, run) == IF versao[c][run] # Nenhum THEN versao[c][run] ELSE estado[run]

(* Variant: the UPDATE does not ask for the state. *)
CasaPeloId(c) == Atual(c).run \in Existentes

(* The rows the WHERE of the UPDATE selects, in the version the call sees. *)
Casa(c) == Atual(c).run \in Existentes /\ Vista(c, Atual(c).run) = Atual(c).de

(* A transition waits only for a row that matches and that another
   transaction wrote; it looks at the row again when that one ends. *)
Espera(c) ==
  /\ pc[c] = "fn" /\ passo[c] <= Passos[c] /\ Atual(c).valida
  /\ Casa(c) /\ Trancada(c, Atual(c).run)

NovaEtapa(c) ==
  [id |-> proximoId, run |-> Atual(c).run, de |-> Atual(c).de, para |-> Atual(c).para,
   chamada |-> c, passo |-> passo[c]]

Ir(c, para) == pc' = [pc EXCEPT ![c] = para]

(* A transition ends: the savepoint is released or rolled back. *)
Devolver(c, r) ==
  /\ respostas' = respostas \union {[chamada |-> c, passo |-> passo[c], resultado |-> r]}
  /\ passo' = [passo EXCEPT ![c] = @ + 1]
  /\ Ir(c, "fn")

(* The transaction ends without its writes. *)
Desfeita(c) ==
  /\ versao' = [versao EXCEPT ![c] = [run \in Existentes |-> Nenhum]]
  /\ novas' = [novas EXCEPT ![c] = {}]

Recusada(c) == \E r \in respostas : r.chamada = c /\ r.resultado \in Recusas

------------------------------------------------------------------------------
(* Begin *)
Abrir(c) ==
  /\ pc[c] = "livre"
  /\ Ir(c, "fn")
  /\ UNCHANGED <<estado, etapas, proximoId, passo, versao, novas, respostas, vitima>>

(* validar: the transition does not reach the database. *)
Validar(c) ==
  /\ pc[c] = "fn" /\ passo[c] <= Passos[c]
  /\ ~Atual(c).valida
  /\ Devolver(c, "invalida")
  /\ UNCHANGED <<estado, etapas, proximoId, versao, novas, vitima>>

(* Variant: a locked row is skipped. *)
AtualizarSemEsperar(c) ==
  /\ pc[c] = "fn" /\ passo[c] <= Passos[c]
  /\ Atual(c).valida
  /\ \/ /\ Casa(c) /\ ~Trancada(c, Atual(c).run)
        /\ versao' = [versao EXCEPT ![c] = [@ EXCEPT ![Atual(c).run] = Atual(c).para]]
        /\ Ir(c, "inserir")
     \/ /\ Casa(c) => Trancada(c, Atual(c).run)
        /\ Ir(c, "conferir")
        /\ UNCHANGED versao
  /\ UNCHANGED <<estado, etapas, proximoId, passo, novas, respostas, vitima>>

(* TransitionTaskRun *)
Atualizar(c) ==
  /\ pc[c] = "fn" /\ passo[c] <= Passos[c]
  /\ Atual(c).valida
  /\ \/ /\ Casa(c) /\ ~Trancada(c, Atual(c).run)
        /\ versao' = [versao EXCEPT ![c] = [@ EXCEPT ![Atual(c).run] = Atual(c).para]]
        /\ Ir(c, "inserir")
     \/ /\ ~Casa(c)
        /\ Ir(c, "conferir")
        /\ UNCHANGED versao
  /\ UNCHANGED <<estado, etapas, proximoId, passo, novas, respostas, vitima>>

(* Variant: the step is inserted on the pool and not in the transaction. *)
InserirEtapaForaDaTransacao(c) ==
  /\ pc[c] = "inserir"
  /\ etapas' = etapas \union {NovaEtapa(c)}
  /\ proximoId' = proximoId + 1
  /\ Devolver(c, "ok")
  /\ UNCHANGED <<estado, novas, versao, vitima>>

(* CreateTaskStep *)
InserirEtapa(c) ==
  /\ pc[c] = "inserir"
  /\ novas' = [novas EXCEPT ![c] = @ \union {NovaEtapa(c)}]
  /\ proximoId' = proximoId + 1
  /\ Devolver(c, "ok")
  /\ UNCHANGED <<estado, etapas, versao, vitima>>

(* semLinhaNaTransicao *)
Conferir(c) ==
  /\ pc[c] = "conferir"
  /\ Devolver(c, IF Atual(c).run \in Existentes THEN "concorrente" ELSE "nao_encontrado")
  /\ UNCHANGED <<estado, etapas, proximoId, versao, novas, vitima>>

(* The call is one of several whose transactions wait for one another. *)
EmImpasse(c) ==
  \E ciclo \in SUBSET Chamadas :
    /\ c \in ciclo
    /\ \A d \in ciclo : Espera(d) /\ \E e \in ciclo \ {d} : versao[e][Atual(d).run] # Nenhum

(* PostgreSQL refuses the UPDATE of one of them; its savepoint is rolled back, and
   it had written nothing. *)
Impasse(c) ==
  /\ Espera(c) /\ EmImpasse(c)
  /\ Devolver(c, "impasse")
  /\ vitima' = vitima \union {c}
  /\ UNCHANGED <<estado, etapas, proximoId, versao, novas>>

(* Variant: no deferred Rollback. *)
DesfazerSemRollback(c) ==
  /\ pc[c] = "fn" /\ (c \in Explicitas \/ Recusada(c))
  /\ Ir(c, "erro")
  /\ UNCHANGED <<estado, etapas, proximoId, passo, versao, novas, respostas, vitima>>

(* The function returned an error, its own or that of a transition. *)
Desfazer(c) ==
  /\ pc[c] = "fn" /\ (c \in Explicitas \/ Recusada(c))
  /\ Desfeita(c)
  /\ Ir(c, "erro")
  /\ UNCHANGED <<estado, etapas, proximoId, passo, respostas, vitima>>

Publicar(c) ==
  /\ estado' = [run \in Existentes |-> Vista(c, run)]
  /\ etapas' = etapas \union novas[c]
  /\ Desfeita(c)

(* Commit *)
Confirmar(c) ==
  /\ pc[c] = "fn" /\ passo[c] > Passos[c]
  /\ c \in Explicitas \/ ~Recusada(c)
  /\ Publicar(c)
  /\ Ir(c, "confirmada")
  /\ UNCHANGED <<proximoId, passo, respostas, vitima>>

(* The connection fails or the context ends: PostgreSQL rolls back, unless the
   commit had been done and only its reply was lost. *)
Falhar(c) ==
  /\ BancoFalha
  /\ pc[c] \in {"livre", "fn", "inserir", "conferir"}
  /\ \/ UNCHANGED <<estado, etapas>> /\ Desfeita(c)
     \/ /\ pc[c] = "fn" /\ passo[c] > Passos[c]
        /\ c \in Explicitas \/ ~Recusada(c)
        /\ Publicar(c)
  /\ Ir(c, "erro")
  /\ vitima' = vitima \union {c}
  /\ UNCHANGED <<proximoId, passo, respostas>>

(* What the transaction had in the row before the transition it is making. *)
Anterior(c) ==
  IF \E e \in novas[c] : e.run = Atual(c).run THEN Atual(c).de ELSE Nenhum

(* One statement fails and the connection stays: the transition returns the
   error, and what it did, the UPDATE of a step that was not inserted, is rolled
   back: to its savepoint, when a function made it, which may then go on.  An id
   the INSERT took is a gap, as those of the transactions rolled back. *)
FalharComando(c) ==
  /\ BancoFalha /\ Cardinality({r \in respostas : r.resultado = "falha"}) < MaxFalhas
  /\ \/ /\ pc[c] = "conferir" \/ (pc[c] = "fn" /\ passo[c] <= Passos[c] /\ Atual(c).valida)
        /\ UNCHANGED versao
     \/ /\ pc[c] = "inserir"
        /\ versao' = [versao EXCEPT ![c] = [@ EXCEPT ![Atual(c).run] = Anterior(c)]]
  /\ Devolver(c, "falha")
  /\ vitima' = vitima \union {c}
  /\ UNCHANGED <<estado, etapas, proximoId, novas>>

------------------------------------------------------------------------------
Init ==
  /\ estado = [run \in Existentes |-> Pendente]
  /\ etapas = {} /\ proximoId = 1
  /\ pc = [c \in Chamadas |-> "livre"]
  /\ passo = [c \in Chamadas |-> 1]
  /\ versao = [c \in Chamadas |-> [run \in Existentes |-> Nenhum]]
  /\ novas = [c \in Chamadas |-> {}]
  /\ respostas = {} /\ vitima = {}

(* What a call does while the database answers. *)
Andar(c) ==
  \/ Abrir(c) \/ Validar(c) \/ Atualizar(c) \/ InserirEtapa(c) \/ Conferir(c)
  \/ Impasse(c) \/ Desfazer(c) \/ Confirmar(c)

Next == \E c \in Chamadas : Andar(c) \/ Falhar(c) \/ FalharComando(c)

Spec == Init /\ [][Next]_vars

SpecJusta == Spec /\ \A c \in Chamadas : WF_vars(Andar(c))

------------------------------------------------------------------------------
(* Properties *)

EtapasDe(linhas, run) == {e \in linhas : e.run = run}

(* The transitions of a call among some steps, and those it was told were made. *)
Gravadas(linhas, c) == {e.passo : e \in {f \in linhas : f.chamada = c}}
Feitas(c) == {r.passo : r \in {s \in respostas : s.chamada = c /\ s.resultado = "ok"}}

TypeOK ==
  /\ estado \in [Existentes -> Estados]
  /\ etapas \subseteq TaskSteps /\ novas \in [Chamadas -> SUBSET TaskSteps]
  /\ proximoId \in Nat \ {0}
  /\ pc \in [Chamadas -> Etapas]
  /\ passo \in [Chamadas -> Nat \ {0}]
  /\ versao \in [Chamadas -> [Existentes -> Estados \union {Nenhum}]]
  /\ respostas \subseteq [chamada : Chamadas, passo : Nat, resultado : Recusas \union {"ok"}]
  /\ vitima \subseteq Chamadas

(* A set of steps of one task_run, read by id, is an unbroken chain of
   transitions from the state "inicio" to the state "fim". *)
Cadeia(linhas, inicio, fim) ==
  /\ linhas = {} => fim = inicio
  /\ \A e, f \in linhas : e.id = f.id => e = f
  /\ \A e \in linhas : (\A f \in linhas : e.id <= f.id) => e.de = inicio
  /\ \A e, f \in linhas :
       e.id < f.id /\ (\A g \in linhas : g.id <= e.id \/ f.id <= g.id) => e.para = f.de
  /\ \A e \in linhas : (\A f \in linhas : f.id <= e.id) => e.para = fim

(* TransicionarTaskRun: the committed steps of a task_run, in the order of
   their ids, tell how it came from pendente to the state it is in, whatever
   transactions raced, were rolled back or lost their reply. *)
HistoricoEncadeado ==
  \A run \in Existentes : Cadeia(EtapasDe(etapas, run), Pendente, estado[run])

(* EmTransacao and ErrTransicaoConcorrente: a confirmed call recorded exactly
   the transitions it was told had been made, and none that was refused; one
   that ended in an error recorded all of them or none; the others nothing. *)
TransacaoInteira ==
  \A c \in Chamadas :
    CASE pc[c] = "confirmada" -> Gravadas(etapas, c) = Feitas(c)
      [] pc[c] = "erro" -> Gravadas(etapas, c) \in {{}, Feitas(c)}
      [] OTHER -> Gravadas(etapas, c) = {}

(* A reader of the steps of a task_run up to an id never finds later one that
   it missed: they become visible in the order of their ids. *)
VisiveisEmOrdem ==
  /\ etapas \subseteq etapas'
  /\ \A e \in etapas, f \in etapas' \ etapas : e.run = f.run => e.id < f.id
LeituraEstavel == [][VisiveisEmOrdem]_vars

(* Calls that race do not all lose: when they ended and none failed in the
   database, a task_run that a call wanted to take out of pendente left it. *)
AlguemVence ==
  vitima = {} /\ (\A c \in Chamadas : pc[c] \in {"confirmada", "erro"}) =>
    \A c \in Chamadas \ Explicitas :
      Pedido[c][1].valida /\ Pedido[c][1].run \in Existentes /\ Pedido[c][1].de = Pendente =>
        EtapasDe(etapas, Pedido[c][1].run) # {}

(* Every call ends: the transactions it waits for end too, and give up the
   locks of their rows however they end. *)
TodaChamadaTermina == \A c \in Chamadas : <>(pc[c] \in {"confirmada", "erro"})
==============================================================================
