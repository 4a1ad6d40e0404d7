------------------------------- MODULE MCVerifier -------------------------------
(***************************************************************************)
(* A small instance of the verifier for TLC.                               *)
(***************************************************************************)
EXTENDS VerifierProps, TLC

ClickSymmetry == Permutations(Click)
===============================================================================
