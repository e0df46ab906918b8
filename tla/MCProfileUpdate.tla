-------------------------- MODULE MCProfileUpdate --------------------------
(***************************************************************************)
(* Two edits of an avatar and a name, each with two values and the name    *)
(* with an empty text too, and one run of SelfUserInfoFetcher: enough for  *)
(* an edit that another call overlaps, one that follows a restart, and one *)
(* that follows an answer that was lost.                                   *)
(***************************************************************************)
EXTENDS ProfileUpdate, TLC

CONSTANTS NAME, v1, v2

MCItems == {AVATAR, NAME}
MCTyped == {NAME}
Symmetric == Permutations(Edits)
=============================================================================
