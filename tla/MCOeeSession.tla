----------------------------- MODULE MCOeeSession -----------------------------
(***************************************************************************)
(* Model checking of OeeSession: connections are alike, and so are names.  *)
(***************************************************************************)
EXTENDS OeeSession, TLC

Symmetry == Permutations(Connections) \cup Permutations(Names)

=============================================================================
