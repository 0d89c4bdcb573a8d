------------------------------- MODULE Domain -------------------------------
(***************************************************************************)
(* The payment lifecycle of internal/domain: the states a transaction row  *)
(* can be in and the table of legal transitions.  Every component that     *)
(* writes the state column goes through Transition or names the pair it    *)
(* writes.                                                                 *)
(***************************************************************************)

State == {"RECEIVED", "VALIDATED", "AUTHORIZED", "CAPTURED", "SETTLED",
          "RECONCILED", "FAILED"}

\* The legal moves, as pairs.  A state without an entry in the code's map
\* (FAILED, RECONCILED) has no successor.
allowed ==
    ({"RECEIVED"}   \X {"VALIDATED", "FAILED"}) \cup
    ({"VALIDATED"}  \X {"AUTHORIZED", "CAPTURED", "FAILED"}) \cup
    ({"AUTHORIZED"} \X {"CAPTURED", "FAILED"}) \cup
    ({"CAPTURED"}   \X {"SETTLED", "FAILED"}) \cup
    ({"SETTLED"}    \X {"RECONCILED"})

\* Transition(from, to) returns no error exactly for these pairs.
Transition(from, to) == <<from, to>> \in allowed
=============================================================================
