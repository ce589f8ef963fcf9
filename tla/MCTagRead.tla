------------------------------ MODULE MCTagRead ------------------------------
(***************************************************************************)
(* Model checking of TagRead: the device areas are alike.                  *)
(***************************************************************************)
EXTENDS TagRead, TLC

Symmetry == Permutations(Areas)

=============================================================================
