SPECIFICATION FairSpec
CONSTANTS
  p1 = p1
  p2 = p2
  p3 = p3
  i1 = i1
  pr1 = pr1
  repo1 = repo1
  Requisicoes = {p1, p2, p3}
  IdsDeAcao = {i1}
  Usuarios = {"U_ana", "U_bia", "U_caio"}
  Contas = {"ana", "bia"}
  Logins = {"ana", "Ana", "bia"}
  Conta <- ContaDe
  SemLogin = ""
  Vinculo <- VinculoDe
  Prs = {pr1}
  AutorDe <- Autores
  Repos = {repo1}
  RepoDe <- Repositorios
  PapeisPossiveis = {"write"}
  SemPedido = SemPedido
  Pedidos <- MesmoClique
  Falhas = {"identidade", "envio"}
  RegistroDuravel = FALSE
  MaxReinicios = 1
PROPERTIES ImplementaAcaoUnica PedidoRespondido
CHECK_DEADLOCK FALSE
