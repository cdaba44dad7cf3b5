------------------------------ MODULE MCSandbox ------------------------------
(* Small instances of Sandbox: two executions of one task_run, one of them
   with a deadline. *)
EXTENDS Sandbox

TaskRunDeMC == [e \in Execucoes |-> "t1"]
==============================================================================
