SPECIFICATION Spec
CONSTANTS
  p1 = p1
  p2 = p2
  p3 = p3
  t1 = t1
  t2 = t2
  pr1 = pr1
  Requisicoes = {p1, p2, p3}
  Entregas = {"abertura", "novo_push", "push_invalido", "sem_instalacao", "segundo_push", "revisao", "revisao_numero", "revisao_campo", "comentario", "instalacao"}
  SemEntrega = SemEntrega
  Tenants = {t1, t2}
  SemInstalacao = SemInstalacao
  Prs = {pr1}
  Carga <- CargaVariada
  IdsTaskRun = {1, 2}
  SemAlvo = SemAlvo
  MaxRelogio = 1
  BancoFalha = TRUE
INVARIANTS RespostaCumprida RevisaoNaoPerdida AprovacaoRecente
PROPERTY ReentregaNaoMuda
SYMMETRY Simetria
CHECK_DEADLOCK FALSE
