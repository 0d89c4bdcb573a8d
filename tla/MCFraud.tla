------------------------------ MODULE MCFraud -------------------------------
(***************************************************************************)
(* A bound for model-checking Fraud.                                       *)
(***************************************************************************)
EXTENDS Fraud

CONSTANT MaxTogether    \* bound: faults and resends in one behaviour

Bounded == faults' + resent' <= MaxTogether

BoundedSpec == Init /\ [][Next /\ Bounded]_vars /\ Fairness
=============================================================================
