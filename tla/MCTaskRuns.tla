----------------------------- MODULE MCTaskRuns ------------------------------
(* Small instances of TaskRuns: two task_runs, calls that race for them from
   pendente, and transactions that take them in opposite orders. *)
EXTENDS TaskRuns

Tr(run, de, para) == [run |-> run, de |-> de, para |-> para, valida |-> TRUE]
Invalida == [run |-> "A", de |-> "pendente", para |-> "gerando", valida |-> FALSE]

Todos ==
  [assume |-> <<Tr("A", "pendente", "mapeando_contexto")>>,
   rejeita |-> <<Tr("A", "pendente", "falhou")>>,
   lote |-> <<Tr("A", "pendente", "mapeando_contexto"), Tr("B", "pendente", "mapeando_contexto"),
              Tr("A", "mapeando_contexto", "gerando")>>,
   avesso |-> <<Tr("B", "pendente", "falhou"), Invalida, Tr("X", "pendente", "falhou"),
                Tr("A", "pendente", "falhou")>>]

PedidoMC == [c \in Chamadas |-> Todos[c]]
PassosMC == [c \in Chamadas |-> CASE c = "lote" -> 3 [] c = "avesso" -> 4 [] OTHER -> 1]
==============================================================================
