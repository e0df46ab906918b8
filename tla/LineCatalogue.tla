--------------------------- MODULE LineCatalogue ---------------------------
(***************************************************************************)
(* What AppStore.setStationList would be if each turn of its loop were one *)
(* step: the stations of the answer come to the ends of their lines, one   *)
(* after the other and each once in a pass through the answer.  The map    *)
(* outlives what filled it, and another pass begins where the last ended.  *)
(* Two passes at a time spoil it until the process ends.                   *)
(***************************************************************************)
EXTENDS Naturals, Sequences

CONSTANTS Stations, Lines, LineOf

VARIABLES
  lines,    \* the stations of each line
  next,     \* the turn of the loop that comes next
  spoilt    \* nothing is promised any more

Init ==
  /\ lines = [l \in Lines |-> <<>>]
  /\ next = 1
  /\ spoilt = FALSE

Store ==
  LET s == Stations[next]
  IN  /\ ~spoilt
      /\ lines' = [lines EXCEPT ![LineOf[s]] = Append(@, s)]
      /\ next' = (next % Len(Stations)) + 1
      /\ UNCHANGED spoilt

\* A second pass begins before the first is through.
Spoil ==
  /\ ~spoilt /\ spoilt' = TRUE
  /\ lines' = [l \in Lines |-> <<>>] /\ next' = 1

\* Another process has an empty map.
Restart ==
  /\ lines' = [l \in Lines |-> <<>>] /\ next' = 1
  /\ spoilt' = FALSE

Next == Store \/ Spoil \/ Restart

Spec == Init /\ [][Next]_<<lines, next, spoilt>>
=============================================================================
