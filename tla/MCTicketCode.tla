---------------------------- MODULE MCTicketCode ----------------------------
(* TicketCode on small instances.                                            *)
EXTENDS TicketCode, TLC

\* Slots, serials and accounts are interchangeable (for safety only).
Symmetry == Permutations(FetchIds) \cup Permutations(Serials) \cup Permutations(Users)
=============================================================================
