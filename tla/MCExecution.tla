---- MODULE MCExecution ----
(* Two tool calls of the code and two attempts of the guest to connect. *)
EXTENDS Execution
====
