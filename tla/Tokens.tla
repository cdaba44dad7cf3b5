--------------------------------- MODULE Tokens --------------------------------
(***************************************************************************)
(* Autenticador.TokenParaInstalacao of internal/platform: the cache of     *)
(* installation tokens, the singleflight group that renews them, and the   *)
(* retries of the request to GitHub.  A call that misses the cache either  *)
(* leads the renewal of its installation or waits for the one under way    *)
(* and takes its result, a token or an error.                              *)
(***************************************************************************)
EXTENDS Integers, Sequences

CONSTANTS
  Chamadas,        \* calls of TokenParaInstalacao, each made once
  Instalacoes,     \* installations of the app
  InstalacaoDe,    \* InstalacaoDe[c]: the one a call asks for
  Margem,          \* margemDeRenovacao
  Validade,        \* how long GitHub makes a token valid
  Duracao,         \* a bound on how long a call takes
  MaxRelogio,      \* bound on the clock
  Nenhum           \* no token, no leader

(* ErrGitHubIndisponivel, ErrCredencialRejeitada, and any other: the app not
   installed, a refused connection, the end of the context. *)
Erros == [erro : {"indisponivel", "credencial", "outro"}]
Tokens == [instalacao : Instalacoes, expiraEm : Nat]

(* A call makes at most three requests of ten seconds, or waits for one that
   does: the margin of five minutes is more than twice as long. *)
ASSUME TokensAssumption ==
  /\ InstalacaoDe \in [Chamadas -> Instalacoes]
  /\ Margem \in Nat /\ Validade \in Nat /\ Duracao \in Nat /\ MaxRelogio \in Nat
  /\ 2 * Duracao <= Margem /\ Margem <= Validade
  /\ Nenhum \notin Tokens \union Erros /\ Nenhum \notin Chamadas

VARIABLES
  relogio,  \* agora()
  tokens,   \* the cache, by installation
  lider,    \* renovacoes: the call that runs the renewal of an installation
  pc,       \* where each call is
  inicio,   \* when it began
  mao,      \* the token or the error it has
  erros     \* tentativa, and as history what its requests answered, all errors

vars == <<relogio, tokens, lider, pc, inicio, mao, erros>>

Etapas == {"livre", "voo", "espera", "reconferir", "pedir", "guardar", "concluir",
           "retornar", "fim"}
NaRenovacao == {"reconferir", "pedir", "guardar", "concluir"}

------------------------------------------------------------------------------
Inst(c) == InstalacaoDe[c]

(* Variant: the margin is counted from the wrong side. *)
AproveitavelAteExpirar(i) == tokens[i] # Nenhum /\ relogio <= tokens[i].expiraEm + Margem

(* tokenEmCache: now plus the margin is not after the expiry. *)
Aproveitavel(i) == tokens[i] # Nenhum /\ relogio + Margem <= tokens[i].expiraEm

(* Variant: an error that is not transient is repeated too. *)
SempreTres(erro) == 3

LimiteDeTentativas(erro) ==
  CASE erro.erro = "indisponivel" -> 3
    [] erro.erro = "credencial" -> 2
    [] OTHER -> 1

Ir(c, para) == pc' = [pc EXCEPT ![c] = para]

(* fn returned to singleflight: those that waited get the same result. *)
Concluida(c, valor) ==
  LET juntas == {d \in Chamadas : d = c \/ (pc[d] = "espera" /\ Inst(d) = Inst(c))} IN
  /\ lider' = [lider EXCEPT ![Inst(c)] = Nenhum]
  /\ pc' = [d \in Chamadas |-> IF d \in juntas THEN "retornar" ELSE pc[d]]
  /\ mao' = [d \in Chamadas |-> IF d \in juntas THEN valor ELSE mao[d]]

------------------------------------------------------------------------------
(* TokenParaInstalacao, its first look at the cache. *)
Chamar(c) ==
  /\ pc[c] = "livre"
  /\ inicio' = [inicio EXCEPT ![c] = relogio]
  /\ \/ /\ Aproveitavel(Inst(c))
        /\ mao' = [mao EXCEPT ![c] = tokens[Inst(c)]]
        /\ Ir(c, "retornar")
     \/ /\ ~Aproveitavel(Inst(c))
        /\ Ir(c, "voo") /\ UNCHANGED mao
  /\ UNCHANGED <<relogio, tokens, lider, erros>>

(* renovacoes.Do: the first to come runs fn, the others wait for it. *)
Entrar(c) ==
  /\ pc[c] = "voo"
  /\ \/ /\ lider[Inst(c)] = Nenhum
        /\ lider' = [lider EXCEPT ![Inst(c)] = c]
        /\ Ir(c, "reconferir")
     \/ /\ lider[Inst(c)] # Nenhum
        /\ Ir(c, "espera") /\ UNCHANGED lider
  /\ UNCHANGED <<relogio, tokens, inicio, mao, erros>>

(* Variant: fn asks GitHub without a second look at the cache. *)
NaoReconferir(c) ==
  /\ pc[c] = "reconferir"
  /\ Ir(c, "pedir")
  /\ UNCHANGED <<relogio, tokens, lider, inicio, mao, erros>>

(* fn: the cache may have been renewed since the first look. *)
Reconferir(c) ==
  /\ pc[c] = "reconferir"
  /\ \/ Aproveitavel(Inst(c)) /\ Concluida(c, tokens[Inst(c)])
     \/ ~Aproveitavel(Inst(c)) /\ Ir(c, "pedir") /\ UNCHANGED <<lider, mao>>
  /\ UNCHANGED <<relogio, tokens, inicio, erros>>

(* solicitarToken: GitHub issues a token. *)
Obter(c) ==
  /\ pc[c] = "pedir"
  /\ mao' = [mao EXCEPT ![c] = [instalacao |-> Inst(c), expiraEm |-> relogio + Validade]]
  /\ erros' = [erros EXCEPT ![c] = <<>>]
  /\ Ir(c, "guardar")
  /\ UNCHANGED <<relogio, tokens, lider, inicio>>

(* solicitarTokenComRetentativa: the request failed, in GitHub, on the way or
   because the context of the leader ended; one more is made, after a wait that
   does not look at the context. *)
Retentar(c, erro) ==
  /\ pc[c] = "pedir"
  /\ Len(erros[c]) + 1 < LimiteDeTentativas(erro)
  /\ erros' = [erros EXCEPT ![c] = Append(@, erro)]
  /\ UNCHANGED <<relogio, tokens, lider, pc, inicio, mao>>

(* The last request failed: fn returns the error, to those that wait too, and
   the cache stays as it was. *)
Desistir(c, erro) ==
  /\ pc[c] = "pedir"
  /\ Len(erros[c]) + 1 >= LimiteDeTentativas(erro)
  /\ Concluida(c, erro)
  /\ erros' = [erros EXCEPT ![c] = <<>>]
  /\ UNCHANGED <<relogio, tokens, inicio>>

(* The answer is a token: it goes to the cache. *)
Guardar(c) ==
  /\ pc[c] = "guardar"
  /\ tokens' = [tokens EXCEPT ![Inst(c)] = mao[c]]
  /\ Ir(c, "concluir")
  /\ UNCHANGED <<relogio, lider, inicio, mao, erros>>

(* Variant: those that wait are not woken. *)
ConcluirSoALider(c) ==
  /\ pc[c] = "concluir"
  /\ lider' = [lider EXCEPT ![Inst(c)] = Nenhum]
  /\ Ir(c, "retornar")
  /\ UNCHANGED <<relogio, tokens, inicio, mao, erros>>

Concluir(c) ==
  /\ pc[c] = "concluir"
  /\ Concluida(c, mao[c])
  /\ UNCHANGED <<relogio, tokens, inicio, erros>>

(* The call returns to its caller, and its variables go with it. *)
Retornar(c) ==
  /\ pc[c] = "retornar"
  /\ Ir(c, "fim")
  /\ inicio' = [inicio EXCEPT ![c] = 0]
  /\ mao' = [mao EXCEPT ![c] = Nenhum]
  /\ UNCHANGED <<relogio, tokens, lider, erros>>

EmCurso(c) == pc[c] \notin {"livre", "fim"}

(* Time passes, but no call lasts longer than Duracao. *)
PassarTempo ==
  /\ relogio < MaxRelogio
  /\ \A c \in Chamadas : EmCurso(c) => relogio < inicio[c] + Duracao
  /\ relogio' = relogio + 1
  /\ UNCHANGED <<tokens, lider, pc, inicio, mao, erros>>

------------------------------------------------------------------------------
Init ==
  /\ relogio = 0
  /\ tokens = [i \in Instalacoes |-> Nenhum]
  /\ lider = [i \in Instalacoes |-> Nenhum]
  /\ pc = [c \in Chamadas |-> "livre"]
  /\ inicio = [c \in Chamadas |-> 0]
  /\ mao = [c \in Chamadas |-> Nenhum]
  /\ erros = [c \in Chamadas |-> <<>>]

(* A call once begun runs on; beginning one is up to its caller. *)
Andar(c) ==
  \/ Entrar(c) \/ Reconferir(c) \/ Obter(c) \/ Guardar(c) \/ Concluir(c) \/ Retornar(c)
  \/ \E erro \in Erros : Retentar(c, erro) \/ Desistir(c, erro)

Next == PassarTempo \/ \E c \in Chamadas : Chamar(c) \/ Andar(c)

Spec == Init /\ [][Next]_vars

SpecJusta == Spec /\ \A c \in Chamadas : WF_vars(Andar(c))

------------------------------------------------------------------------------
(* Properties *)

TypeOK ==
  /\ relogio \in Nat
  /\ tokens \in [Instalacoes -> Tokens \union {Nenhum}]
  /\ lider \in [Instalacoes -> Chamadas \union {Nenhum}]
  /\ pc \in [Chamadas -> Etapas]
  /\ inicio \in [Chamadas -> Nat]
  /\ mao \in [Chamadas -> Tokens \union Erros \union {Nenhum}]
  /\ erros \in [Chamadas -> Seq(Erros)]

(* TokenParaInstalacao: a token is handed over for the installation asked for
   and still valid, also to a call that waited for a renewal begun before it. *)
TokenVivo ==
  \A c \in Chamadas : pc[c] = "retornar" /\ mao[c] \notin Erros =>
    /\ mao[c] \in Tokens
    /\ mao[c].instalacao = Inst(c) /\ relogio <= mao[c].expiraEm

(* renovacoes: GitHub is asked for a token of an installation by one call at a
   time, and only while the cache has none that would do, however many calls
   missed the cache before the last renewal ended. *)
RenovacaoNecessaria ==
  /\ \A c \in Chamadas : pc[c] = "pedir" => ~Aproveitavel(Inst(c))
  /\ \A c, d \in Chamadas :
       pc[c] = "pedir" /\ pc[d] = "pedir" /\ Inst(c) = Inst(d) => c = d

(* limiteDeTentativas: whatever the order of the errors, a renewal makes three
   requests at most, and none after an error that repeating does not solve or
   a second refused credential. *)
RetentativaContida ==
  \A c \in Chamadas :
    /\ Len(erros[c]) <= 2
    /\ \A k \in 1 .. Len(erros[c]) :
         \/ erros[c][k].erro = "indisponivel"
         \/ erros[c][k].erro = "credencial" /\ k = 1

(* A call once begun returns: a renewal ends after a few requests and wakes
   every call that waits for it. *)
TodaChamadaRetorna == \A c \in Chamadas : pc[c] = "voo" ~> pc[c] = "fim"
==============================================================================
