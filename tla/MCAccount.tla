----------------------------- MODULE MCAccount -----------------------------
(* Account on small instances.                                               *)
EXTENDS Account, TLC
=============================================================================
