------------------------------ MODULE MCRegru ------------------------------
(* Values for the constants of Regru. *)
EXTENDS Regru, TLC

AddrSymmetry == Permutations(Addr)
=============================================================================
