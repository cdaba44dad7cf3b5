SPECIFICATION SpecJusta
CONSTANTS
  Chamadas = {"c1", "c2", "c3"}
  Instalacoes = {1, 2}
  InstalacaoDe <- InstalacaoDeMC
  Margem = 2
  Validade = 3
  Duracao = 1
  MaxRelogio = 5
  Nenhum = Nenhum
INVARIANTS TokenVivo RenovacaoNecessaria RetentativaContida
PROPERTY TodaChamadaRetorna
CHECK_DEADLOCK FALSE
