-------------------------------- MODULE Recibos --------------------------------
(***************************************************************************)
(* The append-only rows of a task_run: AnexarRecibo (receipts, a chain per *)
(* tenant), GravarGateDeRisco (risk_gates) and Gravar (sandbox_results) of *)
(* RepositorioPostgres, each on the pool or inside a function handed to    *)
(* EmTransacao, under PostgreSQL's READ COMMITTED.  An INSERT ... SELECT   *)
(* looks at what is committed when it starts; then it enters its row in    *)
(* one unique index after another, and waits at each for an open           *)
(* transaction that holds the same key.  An error aborts the whole         *)
(* transaction unless it is confined to a nested EmTransacao.              *)
(***************************************************************************)
EXTENDS Naturals, FiniteSets

CONSTANTS
  Chamadas,      \* calls; each runs at most once
  Explicitas,    \* those that are a function handed to EmTransacao
  TaskRunIds,    \* the ids the calls name
  Existentes,    \* the ones that are rows of task_runs
  Tenants,       \* installations
  TenantDe,      \* task_runs.tenant_id
  Pedido,        \* the operations of each call
  Passos,        \* Passos[c]: how many
  SemLinha,      \* no row being inserted
  Frageis        \* the calls that may lose the connection, or the commit's reply

Tabelas == {"recibo", "gate", "resultado"}

(* encadeia: ReciboAnteriorID is given; aninhada: made in a nested EmTransacao,
   whose error the function ignores; valida: the arguments satisfy the rules. *)
Operacoes == [tabela : Tabelas, run : TaskRunIds, encadeia : BOOLEAN,
              aninhada : BOOLEAN, valida : BOOLEAN]

Linhas == [tabela : Tabelas, id : Nat \ {0}, run : Existentes, tenant : Tenants,
           anterior : Nat, chamada : Chamadas, passo : Nat]

ASSUME RecibosAssumption ==
  /\ Explicitas \subseteq Chamadas
  /\ Existentes \subseteq TaskRunIds
  /\ TenantDe \in [Existentes -> Tenants]
  /\ Passos \in [Chamadas -> Nat \ {0}]
  /\ \A c \in Chamadas : Pedido[c] \in [1 .. Passos[c] -> Operacoes]
  /\ \A c \in Chamadas : \A i \in 1 .. Passos[c] :
       /\ Pedido[c][i].encadeia => Pedido[c][i].tabela = "recibo"
       /\ Pedido[c][i].aninhada => c \in Explicitas
  /\ \A c \in Chamadas \ Explicitas : Passos[c] = 1
  /\ SemLinha \notin Linhas
  /\ Frageis \subseteq Chamadas

VARIABLES
  linhas,     \* the committed rows of the three tables
  proximoId,  \* the next id; ids are never used twice (gen_random_uuid, identity)
  pc,         \* where each call is
  passo,      \* the operation each call is making or will make
  linha,      \* the row each call is entering in the indexes
  novas,      \* the rows each open transaction inserted
  respostas,  \* what each operation answered
  vitima      \* history: the calls whose connection was lost

vars == <<linhas, proximoId, pc, passo, linha, novas, respostas, vitima>>

Etapas == {"livre", "fn", "chave", "sucessor", "abortada", "confirmada", "erro"}
Abertas == {"fn", "chave", "sucessor", "abortada"}
Resultados == {"ok", "invalida", "nao_encontrado", "duplicado", "check",
               "impasse", "ignorada"}
(* Those that abort the transaction they are answered in, or find it aborted. *)
Fatais == {"duplicado", "check", "impasse", "ignorada"}
Respostas == [chamada : Chamadas, passo : Nat, resultado : Resultados, id : Nat,
              anterior : Nat]

------------------------------------------------------------------------------
Atual(c) == Pedido[c][passo[c]]
TemPasso(c) == passo[c] <= Passos[c]
Ir(c, para) == pc' = [pc EXCEPT ![c] = para]

MesmaChave(r, s) == r.tabela = s.tabela /\ r.run = s.run
MesmoAnterior(r, s) == r.anterior # 0 /\ r.anterior = s.anterior

(* What a statement of the call sees. *)
Vistas(c) == linhas \union novas[c]

(* The ids a caller may give: of committed receipts, of those a function got
   back inside a transaction that may still be open or was undone, and one that
   no receipt has. *)
Citaveis ==
  {proximoId} \union {r.id : r \in {s \in linhas : s.tabela = "recibo"}}
  \union {x.id : x \in {y \in respostas : y.resultado = "ok" /\ y.chamada \in Explicitas}}

(* previous_receipt_id IS NULL OR EXISTS (a receipt of the same tenant) *)
Visivel(c, anterior) ==
  anterior # 0 => \E r \in Vistas(c) :
    r.tabela = "recibo" /\ r.id = anterior /\ r.tenant = TenantDe[Atual(c).run]

NovaLinha(c, anterior) ==
  [tabela |-> Atual(c).tabela, id |-> proximoId, run |-> Atual(c).run,
   tenant |-> TenantDe[Atual(c).run], anterior |-> anterior, chamada |-> c, passo |-> passo[c]]

(* The rows of another transaction that are in the index of task_run_id. *)
Indexadas(d) == novas[d] \union (IF pc[d] = "sucessor" THEN {linha[d]} ELSE {})

Repetida(c) == \E r \in Vistas(c) : MesmaChave(r, linha[c])
Presa(c) == \E d \in Chamadas \ {c} : \E r \in Indexadas(d) : MesmaChave(r, linha[c])
Sucedida(c) == \E r \in Vistas(c) : MesmoAnterior(r, linha[c])
Disputada(c) == \E d \in Chamadas \ {c} : \E r \in novas[d] : MesmoAnterior(r, linha[c])

(* c waits for the end of d. *)
EsperaPor(c, d) ==
  \/ pc[c] = "chave" /\ ~Repetida(c) /\ \E r \in Indexadas(d) : MesmaChave(r, linha[c])
  \/ pc[c] = "sucessor" /\ ~Sucedida(c) /\ \E r \in novas[d] : MesmoAnterior(r, linha[c])

(* The predecessor of the row being inserted, 0 if there is none. *)
Citado(c) == IF pc[c] \in {"chave", "sucessor"} THEN linha[c].anterior ELSE 0

Responder(c, r, id) ==
  /\ respostas' = respostas \union {[chamada |-> c, passo |-> passo[c], resultado |-> r,
                                     id |-> id, anterior |-> Citado(c)]}
  /\ passo' = [passo EXCEPT ![c] = passo[c] + 1]

(* The statement fails.  In a nested EmTransacao its savepoint is rolled back;
   else PostgreSQL aborts the transaction, which lets go of its rows at once. *)
FalharComando(c, r) ==
  /\ Responder(c, r, 0)
  /\ linha' = [linha EXCEPT ![c] = SemLinha]
  /\ \/ Atual(c).aninhada /\ Ir(c, "fn") /\ UNCHANGED novas
     \/ ~Atual(c).aninhada /\ Ir(c, "abortada") /\ novas' = [novas EXCEPT ![c] = {}]

(* The row is in all its indexes. *)
Inserida(c) ==
  /\ novas' = [novas EXCEPT ![c] = novas[c] \union {linha[c]}]
  /\ linha' = [linha EXCEPT ![c] = SemLinha]
  /\ Responder(c, "ok", linha[c].id)
  /\ Ir(c, "fn")

Recusada(c) == \E x \in respostas : x.chamada = c /\ x.resultado # "ok"

------------------------------------------------------------------------------
(* Begin; PostgreSQL's own for a call on the pool. *)
Abrir(c) ==
  /\ pc[c] = "livre"
  /\ Ir(c, "fn")
  /\ UNCHANGED <<linhas, proximoId, passo, linha, novas, respostas, vitima>>

(* validar: the operation does not reach the database.  Gravar has no such test. *)
Validar(c) ==
  /\ pc[c] \in {"fn", "abortada"} /\ TemPasso(c)
  /\ ~Atual(c).valida /\ Atual(c).tabela # "resultado"
  /\ Responder(c, "invalida", 0)
  /\ UNCHANGED <<linhas, proximoId, pc, linha, novas, vitima>>

ChegaAoBanco(c) == TemPasso(c) /\ (Atual(c).valida \/ Atual(c).tabela = "resultado")

(* The SELECT of the INSERT: no row of task_runs, or no predecessor in sight,
   gives no row and no error, be the result valid or not; the driver's ErrNoRows
   becomes ErrNaoEncontrado. *)
Consultar(c) ==
  /\ pc[c] = "fn" /\ ChegaAoBanco(c)
  /\ \E anterior \in IF Atual(c).encadeia THEN Citaveis ELSE {0} :
       \/ /\ Atual(c).valida /\ Atual(c).run \in Existentes /\ Visivel(c, anterior)
          /\ linha' = [linha EXCEPT ![c] = NovaLinha(c, anterior)]
          /\ proximoId' = proximoId + 1
          /\ Ir(c, "chave")
          /\ UNCHANGED <<passo, respostas>>
       \/ /\ Atual(c).run \in Existentes => ~Visivel(c, anterior)
          /\ Responder(c, "nao_encontrado", 0)
          /\ UNCHANGED <<proximoId, pc, linha>>
  /\ UNCHANGED <<linhas, novas, vitima>>

(* A result of a task_run that exists breaks a CHECK of sandbox_results. *)
RecusarPeloCheck(c) ==
  /\ pc[c] = "fn" /\ ChegaAoBanco(c) /\ ~Atual(c).valida /\ Atual(c).run \in Existentes
  /\ FalharComando(c, "check")
  /\ UNCHANGED <<linhas, proximoId, vitima>>

(* Variant: the key of an open transaction already counts as taken. *)
IndexarSemEsperar(c) ==
  /\ pc[c] = "chave"
  /\ \/ (Repetida(c) \/ Presa(c)) /\ FalharComando(c, "duplicado")
     \/ /\ ~Repetida(c) /\ ~Presa(c) /\ linha[c].anterior = 0
        /\ Inserida(c)
     \/ /\ ~Repetida(c) /\ ~Presa(c) /\ linha[c].anterior # 0
        /\ Ir(c, "sucessor")
        /\ UNCHANGED <<passo, linha, novas, respostas>>
  /\ UNCHANGED <<linhas, proximoId, vitima>>

(* UNIQUE (task_run_id); attempt is 1 in every row of sandbox_results.  traduzir
   makes ErrDuplicado of the violation, which Gravar calls ErrResultadoJaGravado. *)
Indexar(c) ==
  /\ pc[c] = "chave"
  /\ \/ Repetida(c) /\ FalharComando(c, "duplicado")
     \/ /\ ~Repetida(c) /\ ~Presa(c) /\ linha[c].anterior = 0
        /\ Inserida(c)
     \/ /\ ~Repetida(c) /\ ~Presa(c) /\ linha[c].anterior # 0
        /\ Ir(c, "sucessor")
        /\ UNCHANGED <<passo, linha, novas, respostas>>
  /\ UNCHANGED <<linhas, proximoId, vitima>>

(* Variant: without the index receipts_um_sucessor, two transactions that
   looked before the other's commit both go on. *)
SucederSemIndice(c) ==
  /\ pc[c] = "sucessor"
  /\ Inserida(c)
  /\ UNCHANGED <<linhas, proximoId, vitima>>

(* The unique index receipts_um_sucessor. *)
Suceder(c) ==
  /\ pc[c] = "sucessor"
  /\ \/ Sucedida(c) /\ FalharComando(c, "duplicado")
     \/ ~Sucedida(c) /\ ~Disputada(c) /\ Inserida(c)
  /\ UNCHANGED <<linhas, proximoId, vitima>>

(* An operation in a transaction PostgreSQL already aborted (25P02). *)
Ignorar(c) ==
  /\ pc[c] = "abortada" /\ ChegaAoBanco(c)
  /\ Responder(c, "ignorada", 0)
  /\ UNCHANGED <<linhas, proximoId, pc, linha, novas, vitima>>

(* The call is one of several whose transactions wait for one another. *)
EmImpasse(c) ==
  \E ciclo \in SUBSET Chamadas :
    c \in ciclo /\ \A d \in ciclo : \E e \in ciclo \ {d} : EsperaPor(d, e)

(* The statement of one of them fails. *)
Impasse(c) ==
  /\ pc[c] \in {"chave", "sucessor"}
  /\ EmImpasse(c)
  /\ FalharComando(c, "impasse")
  /\ UNCHANGED <<linhas, proximoId, vitima>>

(* Variant: no deferred Rollback. *)
DesfazerSemRollback(c) ==
  /\ pc[c] \in {"fn", "abortada"}
  /\ c \in Explicitas \/ Recusada(c)
  /\ Ir(c, "erro")
  /\ UNCHANGED <<linhas, proximoId, passo, linha, novas, respostas, vitima>>

(* The function returns an error, and the deferred Rollback runs; a call on the
   pool returns the error of its statement. *)
Desfazer(c) ==
  /\ pc[c] \in {"fn", "abortada"}
  /\ c \in Explicitas \/ Recusada(c)
  /\ novas' = [novas EXCEPT ![c] = {}]
  /\ Ir(c, "erro")
  /\ UNCHANGED <<linhas, proximoId, passo, linha, respostas, vitima>>

PodeConfirmar(c) == ~TemPasso(c) /\ (c \in Explicitas \/ ~Recusada(c))

Publicar(c) ==
  /\ linhas' = linhas \union novas[c]
  /\ novas' = [novas EXCEPT ![c] = {}]

(* Variant: the COMMIT of an aborted transaction counts as a commit. *)
ConfirmarAbortada(c) ==
  /\ pc[c] \in {"fn", "abortada"} /\ PodeConfirmar(c)
  /\ Publicar(c)
  /\ Ir(c, "confirmada")
  /\ UNCHANGED <<proximoId, passo, linha, respostas, vitima>>

(* The function returned nil.  A COMMIT of an aborted transaction is a ROLLBACK
   to PostgreSQL and an error to the caller. *)
Confirmar(c) ==
  /\ PodeConfirmar(c)
  /\ \/ pc[c] = "fn" /\ Publicar(c) /\ Ir(c, "confirmada")
     \/ pc[c] = "abortada" /\ Ir(c, "erro") /\ UNCHANGED <<linhas, novas>>
  /\ UNCHANGED <<proximoId, passo, linha, respostas, vitima>>

(* The connection fails or the context ends: PostgreSQL rolls back, unless the
   commit had been done and only its reply was lost. *)
Falhar(c) ==
  /\ c \in Frageis
  /\ pc[c] \in Abertas \union {"livre"}
  /\ \/ UNCHANGED linhas /\ novas' = [novas EXCEPT ![c] = {}]
     \/ pc[c] = "fn" /\ PodeConfirmar(c) /\ Publicar(c)
  /\ linha' = [linha EXCEPT ![c] = SemLinha]
  /\ Ir(c, "erro")
  /\ vitima' = vitima \union {c}
  /\ UNCHANGED <<proximoId, passo, respostas>>

------------------------------------------------------------------------------
Init ==
  /\ linhas = {} /\ proximoId = 1
  /\ pc = [c \in Chamadas |-> "livre"]
  /\ passo = [c \in Chamadas |-> 1]
  /\ linha = [c \in Chamadas |-> SemLinha]
  /\ novas = [c \in Chamadas |-> {}]
  /\ respostas = {} /\ vitima = {}

Andar(c) ==
  \/ Validar(c) \/ Consultar(c) \/ RecusarPeloCheck(c) \/ Indexar(c) \/ Suceder(c)
  \/ Ignorar(c) \/ Impasse(c) \/ Desfazer(c) \/ Confirmar(c)

Next == \E c \in Chamadas : Abrir(c) \/ Andar(c) \/ Falhar(c)

Spec == Init /\ [][Next]_vars

(* A call that was made runs on: the goroutine is scheduled, the database ends
   every statement that is not waiting, and breaks a deadlock of statements. *)
SpecJusta == Spec /\ \A c \in Chamadas : WF_vars(Andar(c))

------------------------------------------------------------------------------
(* Properties *)

TypeOK ==
  /\ linhas \subseteq Linhas
  /\ proximoId \in Nat \ {0}
  /\ pc \in [Chamadas -> Etapas]
  /\ passo \in [Chamadas -> Nat \ {0}]
  /\ linha \in [Chamadas -> Linhas \union {SemLinha}]
  /\ novas \in [Chamadas -> SUBSET Linhas]
  /\ respostas \subseteq Respostas
  /\ vitima \subseteq Chamadas

(* The receipts of a tenant form chains without forks, and a task_run has one
   receipt, one gate and one result, although a transaction cannot see the rows
   of another that is open: a receipt's predecessor is an older, committed
   receipt of the same tenant, and no other receipt has it. *)
UmaPorTaskRun == \A r, s \in linhas : MesmaChave(r, s) => r = s
UmSucessor == \A r, s \in linhas : MesmoAnterior(r, s) => r = s
AnteriorExiste ==
  \A r \in linhas : r.anterior # 0 => \E a \in linhas :
    a.tabela = "recibo" /\ a.id = r.anterior /\ a.tenant = r.tenant /\ a.id < r.id
CadeiaLinear == UmaPorTaskRun /\ UmSucessor /\ AnteriorExiste

(* A call that returned success left every row it answered for, and no error
   that aborted its transaction can have been swallowed on the way; one that
   returned an error left none, unless the reply of its commit was lost; and no
   row of a call is seen before it ends. *)
OpDe(x) == Pedido[x.chamada][x.passo]
Registrada(x) == \E r \in linhas : r.id = x.id /\ r.chamada = x.chamada /\ r.passo = x.passo
TransacaoRegistrada ==
  /\ \A x \in respostas : pc[x.chamada] = "confirmada" =>
       /\ x.resultado = "ok" => Registrada(x)
       /\ x.resultado \in Fatais => OpDe(x).aninhada
  /\ \A r \in linhas : pc[r.chamada] = "confirmada" \/ r.chamada \in vitima

(* ErrDuplicado, or ErrResultadoJaGravado, is answered only when the row that
   came first, of the same task_run or with the same predecessor, stays: it is
   committed, or the call itself had inserted it.  An insertion never fails
   because of a row of another call that is then undone. *)
Disputam(r, x) ==
  /\ r.tabela = OpDe(x).tabela
  /\ r.run = OpDe(x).run \/ (x.anterior # 0 /\ r.anterior = x.anterior)
DuplicadoTemDono ==
  \A x \in respostas : x.resultado = "duplicado" =>
    \/ \E r \in linhas : Disputam(r, x)
    \/ \E y \in respostas : /\ y.chamada = x.chamada /\ y.passo < x.passo /\ y.resultado = "ok"
                            /\ Disputam([tabela |-> OpDe(y).tabela, run |-> OpDe(y).run,
                                         anterior |-> y.anterior], x)

(* Every call that was made ends, although transactions wait for the keys of one
   another. *)
TodaChamadaTermina ==
  \A c \in Chamadas : pc[c] \in Abertas ~> pc[c] \in {"confirmada", "erro"}
==============================================================================
