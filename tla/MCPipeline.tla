----------------------------- MODULE MCPipeline -----------------------------
(***************************************************************************)
(* Values for model-checking Pipeline: all payments are of one account and *)
(* currency.                                                               *)
(***************************************************************************)
EXTENDS Pipeline

CONSTANT g1

OneGroup == [p \in Payments |-> g1]
=============================================================================
