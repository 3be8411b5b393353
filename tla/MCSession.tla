----------------------------- MODULE MCSession -----------------------------
(***************************************************************************)
(* Session for TLC.  Devices and tokens are model values; every run is of  *)
(* safety properties only, so their permutations may be used as symmetry.  *)
(***************************************************************************)
EXTENDS Session, TLC

Symmetry == Permutations(Devices) \cup Permutations(Tokens)
=============================================================================
