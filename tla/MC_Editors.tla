----------------------------- MODULE MC_Editors -----------------------------
(***************************************************************************)
(* Instances of Editors for TLC.                                           *)
(***************************************************************************)
EXTENDS Editors, TLC

Symmetry == Permutations(Tabs)
=============================================================================
