SPECIFICATION SpecJusta
CONSTANTS
  Pacotes = {"p1", "p2"}
  Testes = {"TestA", "TestB"}
  PacoteDe <- PacoteDeMC
  Paralelos = 2
  ComPrazo = TRUE
  PrazoDoPedido = 7
  Subida = 2
  PrazoPadrao = 5
  PrazoMaximo = 9
  Margem = 2
  Minimo = 1
  Limpeza = 1
  Extras = 1
  MaxRelogio = 8
  Nenhum = Nenhum
INVARIANTS NaoEscondeFalha CulpaComprovada ContagemFiel AceitoPeloBanco TravaEhCulpaDoPR EntregaATempo
PROPERTY TodaExecucaoTermina
CHECK_DEADLOCK FALSE
