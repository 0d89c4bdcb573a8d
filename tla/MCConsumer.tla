----------------------------- MODULE MCConsumer -----------------------------
(***************************************************************************)
(* A partition for model-checking Consumer: a record of each kind, with an *)
(* unparseable one in front of the last.                                   *)
(***************************************************************************)
EXTENDS Consumer

Partition == <<"good", "malformed", "good", "garbage", "good">>
=============================================================================
