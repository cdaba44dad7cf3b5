SPECIFICATION SpecJusta
CONSTANTS
  Chamadas = {"lote", "inverso", "bifurca", "perdido"}
  Explicitas = {"lote", "inverso", "perdido"}
  TaskRunIds = {"A", "B", "C", "D", "X"}
  Existentes = {"A", "B", "C", "D"}
  Tenants = {"t1", "t2"}
  TenantDe <- TenantDeMC
  Pedido <- PedidoMC
  Passos <- PassosMC
  SemLinha = SemLinha
  Frageis = {"lote"}
INVARIANTS CadeiaLinear TransacaoRegistrada DuplicadoTemDono
PROPERTY TodaChamadaTermina
CHECK_DEADLOCK FALSE
