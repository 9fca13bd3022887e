----------------------------- MODULE MCBitsSystem -----------------------------
(* Instances of BitsSystem for model checking.                              *)
EXTENDS BitsSystem

=============================================================================
