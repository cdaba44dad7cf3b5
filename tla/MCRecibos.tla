------------------------------ MODULE MCRecibos ------------------------------
(* Small instances of Recibos: receipts that chain and fork, transactions that
   take the keys of two task_runs in opposite orders, and a task_run of another
   tenant; X is no row of task_runs. *)
EXTENDS Recibos

Op(tabela, run) ==
  [tabela |-> tabela, run |-> run, encadeia |-> FALSE, aninhada |-> FALSE, valida |-> TRUE]
Encadeado(run) == [Op("recibo", run) EXCEPT !.encadeia = TRUE]
Aninhada(op) == [op EXCEPT !.aninhada = TRUE]
Invalida(op) == [op EXCEPT !.valida = FALSE]

Todos ==
  [lote |-> <<Op("gate", "A"), Op("recibo", "A"), Encadeado("B")>>,
   inverso |-> <<Aninhada(Op("recibo", "B")), Aninhada(Op("recibo", "A")), Invalida(Op("resultado", "B"))>>,
   bifurca |-> <<Encadeado("D")>>,
   perdido |-> <<Encadeado("C"), Op("gate", "A"), Invalida(Op("gate", "B")),
                 Invalida(Op("resultado", "X"))>>]

PedidoMC == [c \in Chamadas |-> Todos[c]]
PassosMC == [c \in Chamadas |-> Cardinality(DOMAIN Todos[c])]
TenantDeMC == [run \in Existentes |-> IF run = "C" THEN "t2" ELSE "t1"]
==============================================================================
