---------------------------- MODULE MCSeedStore ----------------------------
(* SeedStore on small instances.                                            *)
EXTENDS SeedStore, TLC
=============================================================================
