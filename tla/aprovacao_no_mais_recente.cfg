SPECIFICATION Spec
CONSTANTS
  p1 = p1
  p2 = p2
  p3 = p3
  t1 = t1
  t2 = t2
  pr1 = pr1
  Requisicoes = {p1, p2, p3}
  Entregas = {"abertura", "novo_push", "revisao"}
  SemEntrega = SemEntrega
  Tenants = {t1}
  SemInstalacao = SemInstalacao
  Prs = {pr1}
  Carga <- CargaDeRevisoes
  IdsTaskRun = {1, 2}
  SemAlvo = SemAlvo
  MaxRelogio = 1
  BancoFalha = FALSE
PROPERTY AprovacaoNoMaisRecente
SYMMETRY Simetria
CHECK_DEADLOCK FALSE
