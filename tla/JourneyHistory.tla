--------------------------- MODULE JourneyHistory ---------------------------
(***************************************************************************)
(* The journey history tab (fragment/FragmentJourneyHistory.java): at each *)
(* onResume it asks for the journeys and for the orders, and the callback  *)
(* of either clears the list the ListView draws from and refills it, on    *)
(* okhttp's threads and without a lock, before it has the UI thread notify *)
(* the view.  Its onCreateView starts a fetcher of StationStore's when     *)
(* there is no list of stations.                                           *)
(*                                                                         *)
(* An answer has one row, told by the request it answers.  The list is an  *)
(* ArrayList: an array and a size, of which addAll changes one after the   *)
(* other.                                                                  *)
(***************************************************************************)
EXTENDS StationStore, FiniteSets

CONSTANT Resumes   \* calls of the tab's onResume, each once in a process

Loads == Resumes \X {"journeys", "orders"}

\* What an answer is converted to; blank rows are null.
Rows == [of : Loads, blank : BOOLEAN]

ASSUME HistoryAssumption == IsFiniteSet(Resumes) /\ None \notin Rows \cup Loads

Cap == 1..Cardinality(Loads)

VARIABLES
  history,      \* the tab's view exists
  array, size,  \* data: its array, null as None, and its size
  count,        \* the rows the ListView believes in
  load,         \* the requests
  last,         \* history: the request whose callback cleared the list last
  clash         \* history: two callbacks were at work on the list at a time

historyVars == <<history, array, size, count, load, last, clash>>
journeyVars == <<stationVars, historyVars>>

LoadState == {"none", "sent",
              "convert",   \* at convertResult, the list cleared
              "copy",      \* in addAll, at the copy of the row
              "copyBlank", \* the same, with a row that is null
              "grow",      \* in addAll, at the new size
              "message", "done"}

Working == {r \in Loads : load[r] \in {"convert", "copy", "copyBlank", "grow"}}

HistoryInit ==
  /\ history = FALSE
  /\ array = [n \in Cap |-> None] /\ size = 0 /\ count = 0
  /\ load = [r \in Loads |-> "none"]
  /\ last = None /\ clash = FALSE

\* There is no view of the tab any more.
DropHistory ==
  /\ history' = FALSE
  /\ array' = [n \in Cap |-> None] /\ size' = 0 /\ count' = 0
  /\ last' = None /\ clash' = FALSE
-----------------------------------------------------------------------------
(* The tab *)

\* onCreateView starts a fetcher when there is no list of stations.
OpenHistory(f) ==
  /\ main = "created" /\ ~history
  /\ history' = TRUE
  /\ IF fetched
       THEN UNCHANGED fetcher
       ELSE /\ fetcher[f].pc = "none"
            /\ fetcher' = [fetcher EXCEPT ![f].pc = "started"]
  /\ UNCHANGED <<context, main, fetched, lineInfo, lists, mixed>>
  /\ UNCHANGED <<array, size, count, load, last, clash>>

\* onResume sends both requests.
Resume(n) ==
  LET both == {n} \X {"journeys", "orders"}
  IN  /\ history /\ \A r \in both : load[r] = "none"
      /\ load' = [r \in Loads |-> IF r \in both THEN "sent" ELSE load[r]]
      /\ UNCHANGED <<stationVars, history, array, size, count, last, clash>>

\* Main is left: callbacks under way go on with a list that nothing draws.
LeaveHistory ==
  /\ LeaveMain
  /\ DropHistory
  /\ load' = [r \in Loads |-> IF load[r] = "none" THEN "none" ELSE "done"]

\* So ends a draw of a list whose size is not the one notified, or of a blank
\* row, and convertResult of a journey without a time.
HistoryDies ==
  /\ DropHistory
  /\ load' = [r \in Loads |-> "none"]
-----------------------------------------------------------------------------
(* Callbacks *)

\* onFailure, an answer that is not successful, or one with a code, which gets
\* a Toast.
LoadFails(r) ==
  /\ load[r] = "sent"
  /\ load' = [load EXCEPT ![r] = "done"]
  /\ UNCHANGED <<stationVars, history, array, size, count, last, clash>>

\* Faulty variant of ClearData: the answer goes behind what is there.
ClearNothing(r) ==
  /\ load[r] = "sent"
  /\ load' = [load EXCEPT ![r] = "convert"]
  /\ last' = r /\ clash' = (clash \/ Working # {})
  /\ UNCHANGED <<stationVars, history, array, size, count>>

\* data.clear
ClearData(r) ==
  /\ load[r] = "sent"
  /\ load' = [load EXCEPT ![r] = "convert"]
  /\ array' = [n \in Cap |-> IF n <= size THEN None ELSE array[n]] /\ size' = 0
  /\ last' = r /\ clash' = (clash \/ Working # {})
  /\ UNCHANGED <<stationVars, history, count>>

\* The two convertResults.  A row is added as null when its conversion throws
\* and is caught: for a date of a journey's that cannot be parsed, and for
\* whatever an order throws, which getStationByNo does when there is no list of
\* stations, and an order without a time when there is one.
Convert(r) ==
  /\ load[r] = "convert"
  /\ \E next \in {"copy", "copyBlank"} : load' = [load EXCEPT ![r] = next]
  /\ UNCHANGED <<stationVars, history, array, size, count, last, clash>>

\* data.addAll: the copy, and then the size.
CopyRow(r) ==
  /\ load[r] \in {"copy", "copyBlank"}
  /\ array' = [array EXCEPT ![size + 1] = [of |-> r, blank |-> load[r] = "copyBlank"]]
  /\ load' = [load EXCEPT ![r] = "grow"]
  /\ UNCHANGED <<stationVars, history, size, count, last, clash>>

\* Faulty variant of Grow: the message for the view is sent by orders only.
GrowSilently(r) ==
  /\ load[r] = "grow"
  /\ size' = size + 1
  /\ load' = [load EXCEPT ![r] = IF r[2] = "orders" THEN "message" ELSE "done"]
  /\ UNCHANGED <<stationVars, history, array, count, last, clash>>

Grow(r) ==
  /\ load[r] = "grow"
  /\ size' = size + 1
  /\ load' = [load EXCEPT ![r] = "message"]
  /\ UNCHANGED <<stationVars, history, array, count, last, clash>>

\* updateHandler: notifyDataSetChanged.
Notify(r) ==
  /\ load[r] = "message"
  /\ count' = size
  /\ load' = [load EXCEPT ![r] = "done"]
  /\ UNCHANGED <<stationVars, history, array, size, last, clash>>

LoadStep(r) ==
  \/ LoadFails(r) \/ ClearData(r) \/ Convert(r) \/ CopyRow(r) \/ Grow(r)
  \/ Notify(r)

StoreStep ==
  /\ \/ InitMain
     \/ \E f \in Fetchers : CreateMain(f) \/ FetcherStep(f) \/ (context /\ Run(f))
  /\ UNCHANGED historyVars

\* Run(f) without a context is one way the process ends.
Dies ==
  /\ ProcessDies \/ \E f \in Fetchers : ~context /\ Run(f)
  /\ HistoryDies

JourneyInit == StationInit /\ HistoryInit

JourneyNext ==
  \/ StoreStep \/ LeaveHistory \/ Dies
  \/ \E f \in Fetchers : OpenHistory(f)
  \/ \E n \in Resumes : Resume(n)
  \/ \E r \in Loads : LoadStep(r)

JourneySpec == JourneyInit /\ [][JourneyNext]_journeyVars
-----------------------------------------------------------------------------
\* The list has come to rest: every callback is through, and so is its message.
AtRest == \A r \in Loads : load[r] \in {"none", "sent", "done"}

JourneyTypeOK ==
  /\ StationTypeOK
  /\ history \in BOOLEAN /\ clash \in BOOLEAN
  /\ array \in [Cap -> Rows \cup {None}]
  /\ size \in 0..Cardinality(Loads) /\ count \in 0..Cardinality(Loads)
  /\ load \in [Loads -> LoadState] /\ last \in Loads \cup {None}

\* Once the list is at rest the ListView has been notified of its size, in
\* whatever order the callbacks and their messages came, also when two of them
\* were at work on the list at a time (FragmentJourneyHistory.onResume).
RowsAreNotified == AtRest => count = size

\* Then it is the answer to one request, all of it and nothing of another's, and
\* of the requests answered that is the one answered last: rows are mixed, doubled
\* or missing only if two callbacks were at work on the list at a time.  A row may
\* be blank, whichever request it answers.
RowsAreOneAnswer ==
  AtRest /\ ~clash =>
    IF last = None THEN size = 0 ELSE size = 1 /\ array[1] \in Rows /\ array[1].of = last
=============================================================================
