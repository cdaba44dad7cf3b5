--------------------------- MODULE ResultadoUnico ----------------------------
(***************************************************************************)
(* What Executor.Executar promises about the result of a task_run, with    *)
(* Azure, docker, the program and the clocks left out: the first result    *)
(* delivered for a task_run is the one recorded, for good; each call       *)
(* answers once, with an infrastructure failure or with a result of its    *)
(* own, and what it says about the PR is, where results are recorded, what *)
(* was recorded before it answered.  A call that answered may still have   *)
(* its result recorded later.                                              *)
(***************************************************************************)
CONSTANTS
  Execucoes,     \* the calls
  TaskRunDe,     \* the task_run of each call
  Veredictos,    \* the kinds of result that are about the PR
  Infra,         \* the one that is not
  Nenhum         \* no result

VARIABLES
  registra,      \* results are recorded: constant in a behaviour
  registro,      \* the result recorded for each task_run
  resposta       \* what each call answered

absVars == <<registra, registro, resposta>>

Possiveis(e) == [de : {e}, tipo : Veredictos \union {Infra}]
Slots == {TaskRunDe[e] : e \in Execucoes}

AbsInit ==
  /\ registra \in BOOLEAN
  /\ \A t \in Slots : registro[t] = Nenhum
  /\ resposta = [e \in Execucoes |-> Nenhum]

RegistrarResultado(e) ==
  /\ registra /\ registro[TaskRunDe[e]] = Nenhum
  /\ \E r \in Possiveis(e) : registro' = [registro EXCEPT ![TaskRunDe[e]] = r]
  /\ UNCHANGED <<registra, resposta>>

ResponderChamada(e) ==
  /\ resposta[e] = Nenhum
  /\ \E r \in Possiveis(e) :
       /\ registra /\ r.tipo # Infra => registro[TaskRunDe[e]] = r
       /\ resposta' = [resposta EXCEPT ![e] = r]
  /\ UNCHANGED <<registra, registro>>

AbsNext == \E e \in Execucoes : RegistrarResultado(e) \/ ResponderChamada(e)

AbsSpec == AbsInit /\ [][AbsNext]_absVars
==============================================================================
