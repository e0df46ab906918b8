----------------------------- MODULE MCHomePager -----------------------------
(***************************************************************************)
(* Three onStarts, so that two answers overlap after one has come to rest, *)
(* with up to three categories each.                                       *)
(***************************************************************************)
EXTENDS HomePager, TLC

MCStarts == Permutations(Starts)
=============================================================================
