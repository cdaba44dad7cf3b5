SPECIFICATION SpecJusta
CONSTANTS
  Requisicoes = {"webhook", "prontidao"}
  Webhooks = {"webhook"}
  Prontidoes = {"prontidao"}
  MaxConexoes = 1
INVARIANTS SaidaHonesta NadaAbertoNemCortado ProntidaoFiel
PROPERTY SinalEncerra
CHECK_DEADLOCK FALSE
