---------------------------- MODULE AcoesRemotas -----------------------------
(***************************************************************************)
(* The remote-action channel: POST /acoes-remotas (internal/api), the      *)
(* authorization service (internal/acaoremota), and the calls it makes to  *)
(* GitHub through internal/platform.  Every HTTP request runs in its own   *)
(* goroutine; between two of its calls any other request, a permission     *)
(* change on GitHub, a cancelled context or a restart may happen.          *)
(***************************************************************************)
EXTENDS Naturals, FiniteSets

CONSTANTS
  Requisicoes,     \* HTTP requests; each arrives at most once
  IdsDeAcao,       \* values of id_acao
  Usuarios,        \* Slack users
  Contas,          \* GitHub accounts
  Logins,          \* spellings of a login; GitHub ignores their case
  Conta,           \* the account each spelling names
  Vinculo,         \* SLACK_GITHUB_VINCULOS: Slack user -> login
  SemLogin,        \* the empty login, and the answer for a user with no link
  Prs,             \* pull requests
  AutorDe,         \* the login GitHub gives as author of each pull request
  Repos,           \* repositories
  RepoDe,          \* the repository of each pull request
  PapeisPossiveis, \* the roles GitHub may attribute in this instance
  Pedidos,         \* the well-formed bodies the channel may send
  SemPedido,       \* stands for the body of a request that was not interpreted
  Falhas,          \* which dependencies may fail on their own
  RegistroDuravel, \* TRUE: attempts go to PostgreSQL; FALSE: to memory
  MaxReinicios     \* bound on the number of restarts of the API process

Tipos == {"aprovar", "solicitar_alteracao", "reexecutar_analise"}
TiposComReview == {"aprovar", "solicitar_alteracao"}
PermissoesDeEscrita == {"write", "maintain", "admin"}
Permissoes == PermissoesDeEscrita \union {"triage", "read", "none"}
PontosDeFalha == {"identidade", "consulta", "reserva", "envio", "registro",
                  "cancelamento"}

CorposValidos == [id : IdsDeAcao, tipo : Tipos, usuario : Usuarios, pr : Prs]

ASSUME AcoesAssumption ==
  /\ Conta \in [Logins -> Contas]
  /\ SemLogin \notin Logins
  /\ Vinculo \in [Usuarios -> Logins \union {SemLogin}]
  /\ AutorDe \in [Prs -> Logins]
  /\ RepoDe \in [Prs -> Repos]
  /\ PapeisPossiveis \subseteq Permissoes
  /\ Pedidos \subseteq CorposValidos
  /\ SemPedido \notin Pedidos
  /\ Falhas \subseteq PontosDeFalha
  /\ RegistroDuravel \in BOOLEAN
  /\ MaxReinicios \in Nat

VARIABLES
  pc,          \* where each request is in Processar
  pedido,      \* the interpreted body of each request
  situacao,    \* login and role gathered so far (Situacao)
  desfecho,    \* decision and reason so far (desfecho)
  cancelado,   \* the request's context is done (client gone, 30 s Timeout)
  status,      \* the HTTP status written, 0 before
  reservados,  \* ReservaEmMemoria.reservados
  tentativas,  \* the attempts register
  permissao,   \* GitHub: role of each account in each repository
  rede,        \* POSTs of a review on their way to GitHub
  reviews,     \* GitHub: the published reviews
  retorno,     \* GitHub's reply to the POST of each request
  vida,        \* how many times the process has restarted
  reservou,    \* history: the life in which each request got its reservation
  escritaVista,\* history: accounts with write access since the request arrived
  semRegistro  \* history: the requests whose write in the register failed

servico == <<pc, pedido, situacao, desfecho, cancelado, status>>
github == <<permissao, rede, reviews, retorno>>
historia == <<reservou, escritaVista, semRegistro>>
vars == <<servico, reservados, tentativas, github, vida, historia>>

Vidas == 0 .. MaxReinicios
Nunca == MaxReinicios + 1
Decisoes == {"aceita", "recusada", "invalida", "repetida", "falha"}
Motivos == {"autorizada", "corpo_invalido", "sem_vinculo", "falha_na_identidade",
            "falha_na_verificacao", "permissao_insuficiente", "autor_do_proprio_pr",
            "acao_repetida", "falha_na_reserva", "falha_na_execucao"}
Desfechos == [decisao : Decisoes \union {"nenhuma"}, motivo : Motivos \union {"nenhum"}]
Indeciso == [decisao |-> "nenhuma", motivo |-> "nenhum"]

EmConsulta == {"identidade", "permissao", "autoria", "reserva", "execucao"}
EmCurso == EmConsulta \union {"aguardando", "registro", "resposta"}
Etapas == EmCurso \union {"livre", "fim", "perdida"}

Situacoes == [login : Logins \union {SemLogin}, papel : Permissoes \union {"desconhecido"}]
SemSituacao == [login |-> SemLogin, papel |-> "desconhecido"]

Eventos == {"APPROVE", "REQUEST_CHANGES"}
EventoDe(tipo) == IF tipo = "aprovar" THEN "APPROVE" ELSE "REQUEST_CHANGES"
Reviews == [origem : Requisicoes, vida : Vidas, id : IdsDeAcao, pr : Prs,
            evento : Eventos, login : Logins]
Tentativas == [origem : Requisicoes, pedido : Pedidos \union {SemPedido},
               login : Logins \union {SemLogin}, desfecho : Desfechos]

------------------------------------------------------------------------------
(* Helpers *)

Ir(p, de, para) == pc[p] = de /\ pc' = [pc EXCEPT ![p] = para]

PodeFalhar(p, onde) == cancelado[p] \/ onde \in Falhas

Decidir(p, d, m) == desfecho' = [desfecho EXCEPT ![p] = [decisao |-> d, motivo |-> m]]

Escritores(pr) == {c \in Contas : permissao[<<RepoDe[pr], c>>] \in PermissoesDeEscrita}

(* What each dependency of Servico answers when it answers. *)
LoginGitHub(usuario) == Vinculo[usuario]
PermissaoNoRepositorio(pr, login) == permissao[<<RepoDe[pr], Conta[login]>>]
AutorDoPullRequest(pr) == AutorDe[pr]
ReservaLivre(id) == id \notin reservados
Guardar(t) == tentativas' = tentativas \union {t}

MesmaGrafia(a, b) == a = b \* variant

(* strings.EqualFold on two logins *)
MesmoLogin(a, b) == Conta[a] = Conta[b]

Veredito(tipo, login, papel, autor) ==
  IF papel \notin PermissoesDeEscrita THEN "permissao_insuficiente"
  ELSE IF tipo = "aprovar" /\ MesmoLogin(login, autor) THEN "autor_do_proprio_pr"
  ELSE "autorizada"

(* autorizar's last step: the verdict either goes on to the reservation or ends
   the request as refused. *)
SeguirVeredito(p, de, papel, autor) ==
  LET v == Veredito(pedido[p].tipo, situacao[p].login, papel, autor)
  IN IF v = "autorizada"
     THEN Ir(p, de, "reserva") /\ Decidir(p, "aceita", v)
     ELSE Ir(p, de, "registro") /\ Decidir(p, "recusada", v)

StatusDe(d) ==
  CASE d = "aceita" -> 202 [] d = "recusada" -> 403 [] d = "invalida" -> 400
    [] d = "repetida" -> 409 [] OTHER -> 500

ReviewDe(p) ==
  [origem |-> p, vida |-> vida, id |-> pedido[p].id, pr |-> pedido[p].pr,
   evento |-> EventoDe(pedido[p].tipo), login |-> situacao[p].login]

TentativaDe(p) ==
  [origem |-> p, pedido |-> pedido[p], login |-> situacao[p].login, desfecho |-> desfecho[p]]

------------------------------------------------------------------------------
(* Variants: each is the definition it is named after with a plausible bug.
   No specification uses them; they show which property notices the bug. *)

FalharVerificacaoReservando(p) ==
  /\ PodeFalhar(p, "consulta")
  /\ Ir(p, "permissao", "registro") \/ Ir(p, "autoria", "registro")
  /\ Decidir(p, "recusada", "falha_na_verificacao")
  /\ reservados' = reservados \union {pedido[p].id}
  /\ UNCHANGED <<pedido, situacao, cancelado, status, tentativas, github, vida, historia>>

ReservarSemConferir(p) ==
  /\ Ir(p, "reserva", "execucao")
  /\ reservados' = reservados \union {pedido[p].id}
  /\ reservou' = [reservou EXCEPT ![p] = vida]
  /\ UNCHANGED <<pedido, situacao, desfecho, cancelado, status, tentativas,
                 github, vida, escritaVista, semRegistro>>

ReceberRetornoSemErro(p) ==
  /\ retorno[p] # "nenhum" /\ ~cancelado[p]
  /\ Ir(p, "aguardando", "registro")
  /\ UNCHANGED <<pedido, situacao, desfecho, cancelado, status, reservados,
                 tentativas, github, vida, historia>>

DesistirSoSeCancelado(p) ==
  /\ cancelado[p]
  /\ Ir(p, "aguardando", "registro")
  /\ Decidir(p, "falha", "falha_na_execucao")
  /\ UNCHANGED <<pedido, situacao, cancelado, status, reservados, tentativas,
                 github, vida, historia>>

AceitaRepetidas(t) ==
  RegistroDuravel =>
    /\ t.desfecho.decisao # "invalida"
    /\ \A u \in tentativas : u.pedido.id # t.pedido.id
AceitaSemConflito(t) ==
  RegistroDuravel => t.desfecho.decisao \notin {"invalida", "repetida"}

------------------------------------------------------------------------------
(* The HTTP handler and the service, one action per call that can interleave *)

RejeitarNaPorta(p) ==
  /\ Ir(p, "livre", "fim")
  /\ \E s \in {400, 401} : status' = [status EXCEPT ![p] = s]
  /\ UNCHANGED <<pedido, situacao, desfecho, cancelado, reservados, tentativas,
                 github, vida, historia>>

RejeitarCorpo(p) ==
  /\ Ir(p, "livre", "registro")
  /\ Decidir(p, "invalida", "corpo_invalido")
  /\ UNCHANGED <<pedido, situacao, cancelado, status, reservados, tentativas,
                 github, vida, historia>>

Receber(p, corpo) ==
  /\ Ir(p, "livre", "identidade")
  /\ pedido' = [pedido EXCEPT ![p] = corpo]
  /\ escritaVista' = [escritaVista EXCEPT ![p] = Escritores(corpo.pr)]
  /\ UNCHANGED <<situacao, desfecho, cancelado, status, reservados, tentativas,
                 github, vida, reservou, semRegistro>>

Cancelar(p) ==
  /\ "cancelamento" \in Falhas
  /\ pc[p] \in EmCurso /\ ~cancelado[p]
  /\ cancelado' = [cancelado EXCEPT ![p] = TRUE]
  /\ UNCHANGED <<pc, pedido, situacao, desfecho, status, reservados, tentativas,
                 github, vida, historia>>

Identificar(p) ==
  LET login == LoginGitHub(pedido[p].usuario)
  IN /\ \/ /\ "identidade" \in Falhas
           /\ Ir(p, "identidade", "registro")
           /\ Decidir(p, "recusada", "falha_na_identidade")
           /\ UNCHANGED situacao
        \/ /\ Ir(p, "identidade", "registro")
           /\ login = SemLogin
           /\ Decidir(p, "recusada", "sem_vinculo")
           /\ UNCHANGED situacao
        \/ /\ Ir(p, "identidade", "permissao")
           /\ login # SemLogin
           /\ situacao' = [situacao EXCEPT ![p] = [login |-> login, papel |-> "desconhecido"]]
           /\ UNCHANGED desfecho
     /\ UNCHANGED <<pedido, cancelado, status, reservados, tentativas, github,
                    vida, historia>>

ConsultarPermissao(p) ==
  LET papel == PermissaoNoRepositorio(pedido[p].pr, situacao[p].login)
  IN /\ pc[p] = "permissao" /\ ~cancelado[p]
     /\ situacao' = [situacao EXCEPT ![p] = [login |-> situacao[p].login, papel |-> papel]]
     /\ \/ /\ pedido[p].tipo = "aprovar"
           /\ Ir(p, "permissao", "autoria")
           /\ UNCHANGED desfecho
        \/ /\ pedido[p].tipo # "aprovar"
           /\ SeguirVeredito(p, "permissao", papel, SemLogin)
     /\ UNCHANGED <<pedido, cancelado, status, reservados, tentativas, github,
                    vida, historia>>

ConsultarAutor(p) ==
  /\ pc[p] = "autoria" /\ ~cancelado[p]
  /\ SeguirVeredito(p, "autoria", situacao[p].papel, AutorDoPullRequest(pedido[p].pr))
  /\ UNCHANGED <<pedido, situacao, cancelado, status, reservados, tentativas,
                 github, vida, historia>>

FalharVerificacao(p) ==
  /\ PodeFalhar(p, "consulta")
  /\ Ir(p, "permissao", "registro") \/ Ir(p, "autoria", "registro")
  /\ Decidir(p, "recusada", "falha_na_verificacao")
  /\ UNCHANGED <<pedido, situacao, cancelado, status, reservados, tentativas,
                 github, vida, historia>>

(* Reservar runs whole under its mutex and ignores the context. *)
Reservar(p) ==
  LET id == pedido[p].id
  IN /\ pc[p] = "reserva"
     /\ \/ /\ ReservaLivre(id)
           /\ Ir(p, "reserva", "execucao")
           /\ reservados' = reservados \union {id}
           /\ reservou' = [reservou EXCEPT ![p] = vida]
           /\ UNCHANGED desfecho
        \/ /\ ~ReservaLivre(id)
           /\ Ir(p, "reserva", "registro")
           /\ Decidir(p, "repetida", "acao_repetida")
           /\ UNCHANGED <<reservados, reservou>>
        \/ /\ "reserva" \in Falhas
           /\ Ir(p, "reserva", "registro")
           /\ Decidir(p, "falha", "falha_na_reserva")
           /\ UNCHANGED <<reservados, reservou>>
     /\ UNCHANGED <<pedido, situacao, cancelado, status, tentativas, github,
                    vida, escritaVista, semRegistro>>

EnviarReview(p) ==
  /\ Ir(p, "execucao", "aguardando")
  /\ pedido[p].tipo \in TiposComReview /\ ~cancelado[p]
  /\ rede' = rede \union {ReviewDe(p)}
  /\ UNCHANGED <<pedido, situacao, desfecho, cancelado, status, reservados,
                 tentativas, permissao, reviews, retorno, vida, historia>>

(* Nothing leaves the process: ReenfileiradorIndisponivel, a token that could
   not be obtained, a refused connection or a context already done. *)
FalharAntesDoEnvio(p) ==
  /\ Ir(p, "execucao", "registro")
  /\ pedido[p].tipo \notin TiposComReview \/ PodeFalhar(p, "envio")
  /\ Decidir(p, "falha", "falha_na_execucao")
  /\ UNCHANGED <<pedido, situacao, cancelado, status, reservados, tentativas,
                 github, vida, historia>>

ReceberRetorno(p) ==
  /\ retorno[p] # "nenhum" /\ ~cancelado[p]
  /\ Ir(p, "aguardando", "registro")
  /\ IF retorno[p] = "ok" THEN UNCHANGED desfecho
     ELSE Decidir(p, "falha", "falha_na_execucao")
  /\ UNCHANGED <<pedido, situacao, cancelado, status, reservados, tentativas,
                 github, vida, historia>>

(* The 10 s of the HTTP client, a broken connection or the request's context:
   the POST may or may not reach GitHub, and may still be on its way. *)
DesistirDoEnvio(p) ==
  /\ PodeFalhar(p, "envio")
  /\ Ir(p, "aguardando", "registro")
  /\ Decidir(p, "falha", "falha_na_execucao")
  /\ UNCHANGED <<pedido, situacao, cancelado, status, reservados, tentativas,
                 github, vida, historia>>

(* Memory keeps every attempt.  RepositorioPostgres.Registrar leaves out invalid
   and repeated requests, and ON CONFLICT (action_id) DO NOTHING keeps the first
   row of an id. *)
RegistroAceita(t) ==
  RegistroDuravel =>
    /\ t.desfecho.decisao \notin {"invalida", "repetida"}
    /\ \A u \in tentativas : u.pedido.id # t.pedido.id

(* concluir's write; an error is only logged. *)
Registrar(p) ==
  LET t == TentativaDe(p)
  IN /\ Ir(p, "registro", "resposta")
     /\ \/ /\ RegistroAceita(t) /\ (RegistroDuravel => ~cancelado[p])
           /\ Guardar(t)
           /\ UNCHANGED semRegistro
        \/ /\ ~RegistroAceita(t)
           /\ UNCHANGED <<tentativas, semRegistro>>
        \/ /\ RegistroDuravel /\ PodeFalhar(p, "registro")
           /\ semRegistro' = semRegistro \union {p}
           /\ UNCHANGED tentativas
     /\ UNCHANGED <<pedido, situacao, desfecho, cancelado, status, reservados,
                    github, vida, reservou, escritaVista>>

Responder(p) ==
  /\ Ir(p, "resposta", "fim")
  /\ status' = [status EXCEPT ![p] = StatusDe(desfecho[p].decisao)]
  /\ UNCHANGED <<pedido, situacao, desfecho, cancelado, reservados, tentativas,
                 github, vida, historia>>

(* The process dies and comes back: its goroutines and its memory are gone. *)
Reiniciar ==
  /\ vida < MaxReinicios
  /\ vida' = vida + 1
  /\ pc' = [p \in Requisicoes |-> IF pc[p] \in EmCurso THEN "perdida" ELSE pc[p]]
  /\ reservados' = {}
  /\ tentativas' = IF RegistroDuravel THEN tentativas ELSE {}
  /\ UNCHANGED <<pedido, situacao, desfecho, cancelado, status, github, historia>>

------------------------------------------------------------------------------
(* GitHub *)

Publicar(r) ==
  /\ r \in rede
  /\ rede' = rede \ {r}
  /\ reviews' = reviews \union {r}
  /\ retorno' = [retorno EXCEPT ![r.origem] = "ok"]
  /\ UNCHANGED <<servico, reservados, tentativas, permissao, vida, historia>>

RecusarReview(r) ==
  /\ "envio" \in Falhas
  /\ r \in rede
  /\ rede' = rede \ {r}
  /\ retorno' = [retorno EXCEPT ![r.origem] = "erro"]
  /\ UNCHANGED <<servico, reservados, tentativas, permissao, reviews, vida, historia>>

PerderEnvio(r) ==
  /\ "envio" \in Falhas
  /\ r \in rede
  /\ rede' = rede \ {r}
  /\ UNCHANGED <<servico, reservados, tentativas, permissao, reviews, retorno,
                 vida, historia>>

MudarPermissao(repo, conta, papel) ==
  /\ permissao[<<repo, conta>>] # papel
  /\ permissao' = [permissao EXCEPT ![<<repo, conta>>] = papel]
  /\ escritaVista' = [p \in Requisicoes |->
       IF /\ pc[p] \in EmConsulta /\ RepoDe[pedido[p].pr] = repo
          /\ papel \in PermissoesDeEscrita
       THEN escritaVista[p] \union {conta} ELSE escritaVista[p]]
  /\ UNCHANGED <<servico, reservados, tentativas, rede, reviews, retorno, vida,
                 reservou, semRegistro>>

------------------------------------------------------------------------------
Init ==
  /\ pc = [p \in Requisicoes |-> "livre"]
  /\ pedido = [p \in Requisicoes |-> SemPedido]
  /\ situacao = [p \in Requisicoes |-> SemSituacao]
  /\ desfecho = [p \in Requisicoes |-> Indeciso]
  /\ cancelado = [p \in Requisicoes |-> FALSE]
  /\ status = [p \in Requisicoes |-> 0]
  /\ reservados = {} /\ tentativas = {}
  /\ permissao \in [Repos \X Contas -> PapeisPossiveis]
  /\ rede = {} /\ reviews = {}
  /\ retorno = [p \in Requisicoes |-> "nenhum"]
  /\ vida = 0
  /\ reservou = [p \in Requisicoes |-> Nunca]
  /\ escritaVista = [p \in Requisicoes |-> {}]
  /\ semRegistro = {}

Entrada(p) == RejeitarNaPorta(p) \/ RejeitarCorpo(p) \/ \E corpo \in Pedidos : Receber(p, corpo)

Servir(p) ==
  \/ Identificar(p) \/ ConsultarPermissao(p) \/ ConsultarAutor(p)
  \/ FalharVerificacao(p) \/ Reservar(p) \/ EnviarReview(p)
  \/ FalharAntesDoEnvio(p) \/ ReceberRetorno(p) \/ DesistirDoEnvio(p)
  \/ Registrar(p) \/ Responder(p)

GitHub ==
  \/ \E r \in rede : Publicar(r) \/ RecusarReview(r) \/ PerderEnvio(r)
  \/ \E repo \in Repos, conta \in Contas, papel \in PapeisPossiveis :
       MudarPermissao(repo, conta, papel)

Next ==
  \/ \E p \in Requisicoes : Entrada(p) \/ Cancelar(p) \/ Servir(p)
  \/ GitHub
  \/ Reiniciar

Spec == Init /\ [][Next]_vars

(* The Go scheduler runs every goroutine that can run, and every call of the
   service returns: the GitHub client gives up after 10 seconds. *)
Fairness == \A p \in Requisicoes : WF_vars(Servir(p))
FairSpec == Spec /\ Fairness

------------------------------------------------------------------------------
(* Properties *)

TypeOK ==
  /\ pc \in [Requisicoes -> Etapas]
  /\ pedido \in [Requisicoes -> Pedidos \union {SemPedido}]
  /\ situacao \in [Requisicoes -> Situacoes]
  /\ desfecho \in [Requisicoes -> Desfechos]
  /\ cancelado \in [Requisicoes -> BOOLEAN]
  /\ status \in [Requisicoes -> {0, 202, 400, 401, 403, 409, 500}]
  /\ reservados \subseteq IdsDeAcao
  /\ tentativas \subseteq Tentativas
  /\ permissao \in [Repos \X Contas -> PapeisPossiveis]
  /\ rede \subseteq Reviews
  /\ reviews \subseteq Reviews
  /\ retorno \in [Requisicoes -> {"nenhum", "ok", "erro"}]
  /\ vida \in Vidas
  /\ reservou \in [Requisicoes -> Vidas \union {Nunca}]
  /\ escritaVista \in [Requisicoes -> SUBSET Contas]
  /\ semRegistro \subseteq Requisicoes

(* One life of the process publishes at most one review per id_acao, whatever
   the interleaving of requests that carry the same id, and although a request
   that gave up may have its POST delivered later, even after a restart. *)
EfeitoUnicoPorVida ==
  \A r, s \in reviews : r.id = s.id /\ r.vida = s.vida => r = s

(* A review that is public or on its way acts for the login linked to the Slack
   user of the request; that account had write access to the repository of the
   pull request at some instant between the arrival of the request and the POST;
   and nobody approves a pull request of their own account, however the login
   is spelled in the configuration. *)
EfeitoAutorizado ==
  \A r \in rede \union reviews :
    /\ r.login = Vinculo[pedido[r.origem].usuario]
    /\ r.pr = pedido[r.origem].pr
    /\ Conta[r.login] \in escritaVista[r.origem]
    /\ r.evento = "APPROVE" => Conta[r.login] # Conta[AutorDe[r.pr]]

(* 202 is answered only after the request's own review is public; after 400,
   401, 403 or 409 nothing of the request is public nor ever will be. *)
RespostaFielAoEfeito ==
  \A p \in Requisicoes :
    /\ status[p] = 202 => \E r \in reviews : r.origem = p
    /\ status[p] \in {400, 401, 403, 409} => \A r \in rede \union reviews : r.origem # p

(* 409 is answered only when another request with the same id_acao was
   authorized and got the reservation: a refusal or a failed reservation never
   consumes an id. *)
RepetidaTemVencedor ==
  \A p \in Requisicoes : status[p] = 409 =>
    \E q \in Requisicoes \ {p} : reservou[q] # Nunca /\ pedido[q].id = pedido[p].id

(* With PostgreSQL an attempt on record is never changed nor removed, and no
   other attempt of the same id_acao is added to it, across restarts too. *)
LinhaUnica == \A t, u \in tentativas : t.pedido.id = u.pedido.id => t = u
RegistroCresce == tentativas \subseteq tentativas' /\ LinhaUnica'
RegistroImutavel == [][RegistroCresce]_vars

(* A row of the register says what happened: an accepted attempt has its review
   public for the login it names, a refused one left nothing on GitHub.  With
   PostgreSQL an answered request with a review public or on its way, cancelled
   or not, has a row of its id_acao unless its own write failed; the row states
   the outcome it answered, or is of another request of the id that was refused,
   failed to reserve or acted in another life: a repetition never takes it. *)
LinhaFiel(t) ==
  /\ t.desfecho.decisao = "aceita" =>
       \E r \in reviews : r.origem = t.origem /\ r.id = t.pedido.id /\ r.login = t.login
  /\ t.desfecho.decisao = "recusada" => \A r \in rede \union reviews : r.origem # t.origem
LinhaDe(r, t) ==
  /\ t.pedido.id = r.id
  /\ IF t.origem = r.origem
     THEN t.login = r.login /\ StatusDe(t.desfecho.decisao) = status[r.origem]
     ELSE reservou[t.origem] # reservou[r.origem] /\ t.desfecho.decisao # "repetida"
RegistroFielAoEfeito ==
  /\ \A t \in tentativas : LinhaFiel(t)
  /\ RegistroDuravel => \A r \in rede \union reviews :
       status[r.origem] # 0 /\ r.origem \notin semRegistro => \E t \in tentativas : LinhaDe(r, t)

(* Every request whose body was accepted is answered, unless the process dies. *)
PedidoRespondido ==
  \A p \in Requisicoes : pc[p] = "identidade" ~> pc[p] \in {"fim", "perdida"}

(* The channel implements the abstract promise about one id_acao. *)
UsoDe(p) == <<pedido[p].id, reservou[p], p>>
Usadas(S) == {<<r.id, r.vida, r.origem>> : r \in S}
Tomadas == {UsoDe(p) : p \in {q \in Requisicoes : reservou[q] # Nunca}}
Confirmadas == {UsoDe(p) : p \in {q \in Requisicoes : status[q] = 202}}
Promessa == INSTANCE AcaoUnica WITH tomadas <- Tomadas, publicadas <- Usadas(reviews),
                                    confirmadas <- Confirmadas
ImplementaAcaoUnica == Promessa!AbsSpec
==============================================================================
