SPECIFICATION SpecJusta
CONSTANTS
  Execucoes = {"e1", "e2"}
  TaskRunIds = {"t1"}
  TaskRunDe <- TaskRunDeMC
  ComPrazo = {"e1"}
  Veredictos = {"teste"}
  ColetorNoJob = TRUE
  Falhas = TRUE
  Nenhum = Nenhum
INVARIANT NadaSobrevive
PROPERTIES ImplementaResultadoUnico PrazoDeInicioSoAntesDeRodar TodaExecucaoTermina ConcluidaEntrega
CHECK_DEADLOCK FALSE
