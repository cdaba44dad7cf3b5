SPECIFICATION Spec
CONSTANTS
  Pacotes = {"p1", "p2"}
  Testes = {"TestA", "TestB"}
  PacoteDe <- PacoteDeMC
  Paralelos = 1
  ComPrazo = TRUE
  PrazoDoPedido = 7
  Subida = 2
  PrazoPadrao = 5
  PrazoMaximo = 9
  Margem = 2
  Minimo = 1
  Limpeza = 1
  Extras = 0
  MaxRelogio = 8
  Nenhum = Nenhum
INVARIANT TravaEhCulpaDoPR
CHECK_DEADLOCK FALSE
