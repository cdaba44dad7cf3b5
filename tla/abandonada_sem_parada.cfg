SPECIFICATION Spec
CONSTANTS
  Execucoes = {"e1", "e2"}
  TaskRunIds = {"t1"}
  TaskRunDe <- TaskRunDeMC
  ComPrazo = {"e1"}
  Veredictos = {"teste"}
  ColetorNoJob = TRUE
  Falhas = FALSE
  Nenhum = Nenhum
INVARIANT AbandonadaEhParada
CHECK_DEADLOCK FALSE
