--------------------------- MODULE MCLoginScreen ---------------------------
(* LoginScreen on a small instance.                                          *)
EXTENDS LoginScreen, TLC
=============================================================================
