SPECIFICATION SpecJusta
CONSTANTS
  Chamadas = {"assume", "rejeita", "lote", "avesso"}
  Explicitas = {"lote", "avesso"}
  TaskRunIds = {"A", "B", "X"}
  Existentes = {"A", "B"}
  Estados = {"pendente", "mapeando_contexto", "gerando", "falhou"}
  Pendente = "pendente"
  Nenhum = "nenhum"
  Pedido <- PedidoMC
  Passos <- PassosMC
  BancoFalha = TRUE
  MaxFalhas = 2
INVARIANTS HistoricoEncadeado TransacaoInteira AlguemVence
PROPERTIES LeituraEstavel TodaChamadaTermina
CHECK_DEADLOCK FALSE
