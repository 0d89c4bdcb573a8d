------------------------------ MODULE MCRelay ------------------------------
(***************************************************************************)
(* Values for model-checking Relay.                                        *)
(***************************************************************************)
EXTENDS Relay

CONSTANTS s1, s2

\* Streams are only compared with each other, so the first row may be taken
\* to be in s1; the other rows are in the same stream or in another one.
UpToRenaming == {f \in [Rows -> Streams] : f[1] = s1}
=============================================================================
