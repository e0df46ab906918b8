---------------------------- MODULE MCOrderRemedy ----------------------------
(***************************************************************************)
(* Two fetchers, of which the second may add to the line on display; a     *)
(* line of two stations, which is made at the first and found at the       *)
(* second, and one without any; one onResume, whose two callbacks meet     *)
(* each other and the fetchers; and one payment.                           *)
(***************************************************************************)
EXTENDS OrderRemedy, TLC

CONSTANTS a1, a2, A, B, f1, f2

MCStations == <<a1, a2>>
MCLineOf == [s \in {a1, a2} |-> A]
MCFetchers == Permutations({f1, f2})
=============================================================================
