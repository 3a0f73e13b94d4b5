---------------------------- MODULE MCToolCalls -----------------------------
(* A small instance of ToolCalls. *)
EXTENDS ToolCalls

CONSTANTS t1, t2, t3, u  \* three declared calls and an undeclared one
=============================================================================
