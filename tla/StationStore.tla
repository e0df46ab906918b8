---------------------------- MODULE StationStore ----------------------------
(***************************************************************************)
(* The stations AppStore keeps in static fields: the list a fetcher's      *)
(* answer assigns, and the map from a line to the list of its stations     *)
(* that setStationList fills from it, on okhttp's threads and without a    *)
(* lock.  MainActivity starts a fetcher each time it is created, and the   *)
(* journey history one while the list is missing.                          *)
(*                                                                         *)
(* The lists of the map are objects: lists[<<o, l>>] is the one fetcher o  *)
(* made for line l, and lineInfo[l] says whose list the map holds.  An add *)
(* to an ArrayList reads the list's size and then writes behind it what is *)
(* added, and the size it has read, plus one; threads may come between.    *)
(* That the array may have to be made larger is left out.  A HashMap's get *)
(* and put are one step each.                                              *)
(***************************************************************************)
EXTENDS Naturals, Sequences

CONSTANTS
  Fetchers,   \* runs of StationListFetcher, each once in a process
  Stations,   \* the operator's answer: a sequence of stations
  Lines, LineOf,  \* the lines, and which a station is on
  None        \* null

Names == {Stations[n] : n \in 1..Len(Stations)}

ASSUME StationAssumption ==
  /\ Stations \in Seq(Names) /\ Stations # <<>>
  /\ LineOf \in [Names -> Lines]
  /\ None \notin Fetchers

VARIABLES
  context,      \* AppEngine.appContext is set
  main,         \* MainActivity: "none", "creating" (in onCreate), "created"
  fetched,      \* AppStore.stationList is not null: it is Stations
  lineInfo,     \* AppStore.stationLineInfo
  lists,        \* the lists of stations made for it: an array and a size
  fetcher,      \* the fetchers
  mixed         \* history: two fetchers were in setStationList at a time

stationVars == <<context, main, fetched, lineInfo, lists, fetcher, mixed>>

FetcherState == [
  pc : {"none", "started", "sent",
        "get", "put",     \* at stationLineInfo.get, at put
        "add", "write",   \* at the start of line.add, at its write
        "done"},
  at   : 1..Len(Stations)+1,    \* the loop's station
  line : Fetchers \cup {None},  \* whose list is in the variable line
  size : Nat]                   \* the size the add has read

NoStations == [array |-> <<>>, size |-> 0]

NoFetcher == [pc |-> "none", at |-> 1, line |-> None, size |-> 0]

Storing == {f \in Fetchers : fetcher[f].pc \in {"get", "put", "add", "write"}}

\* The station f is at, and its line.
StationAt(f) == Stations[fetcher[f].at]
LineAt(f) == LineOf[StationAt(f)]

\* What stationLineInfo.get(l) holds.
StationsOf(l) ==
  IF lineInfo[l] = None THEN <<>>
  ELSE SubSeq(lists[<<lineInfo[l], l>>].array, 1, lists[<<lineInfo[l], l>>].size)

NewProcess ==
  /\ main' = "none" /\ fetched' = FALSE
  /\ lineInfo' = [l \in Lines |-> None]
  /\ lists' = [p \in Fetchers \X Lines |-> NoStations]
  /\ fetcher' = [f \in Fetchers |-> NoFetcher]
  /\ mixed' = FALSE

StationInit ==
  /\ context \in BOOLEAN
  /\ main = "none" /\ fetched = FALSE
  /\ lineInfo = [l \in Lines |-> None]
  /\ lists = [p \in Fetchers \X Lines |-> NoStations]
  /\ fetcher = [f \in Fetchers |-> NoFetcher]
  /\ mixed = FALSE
-----------------------------------------------------------------------------
(* Starts *)

\* MainActivity.onCreate starts a fetcher first of all.
CreateMain(f) ==
  /\ main = "none" /\ fetcher[f].pc = "none"
  /\ main' = "creating"
  /\ fetcher' = [fetcher EXCEPT ![f].pc = "started"]
  /\ UNCHANGED <<context, fetched, lineInfo, lists, mixed>>

\* Faulty variant of InitMain: the context is left to SplashActivity.
InitMainBare ==
  /\ main = "creating"
  /\ main' = "created"
  /\ UNCHANGED <<context, fetched, lineInfo, lists, fetcher, mixed>>

\* Then it sets the context: SplashActivity has set one, unless the system
\* restores MainActivity in a new process.
InitMain ==
  /\ main = "creating"
  /\ main' = "created" /\ context' = TRUE
  /\ UNCHANGED <<fetched, lineInfo, lists, fetcher, mixed>>

\* The activity is left; the process, with its static fields, stays.
LeaveMain ==
  /\ main = "created"
  /\ main' = "none"
  /\ UNCHANGED <<context, fetched, lineInfo, lists, fetcher, mixed>>

\* Another process, which SplashActivity starts or which the system restores.
ProcessDies ==
  /\ NewProcess
  /\ context' \in BOOLEAN
-----------------------------------------------------------------------------
(* A fetcher *)

\* The thread asks for the list.  Without a context isNetworkAvailable throws
\* and the process ends.
Run(f) ==
  /\ fetcher[f].pc = "started"
  /\ IF context
       THEN /\ fetcher' = [fetcher EXCEPT ![f].pc = "sent"]
            /\ UNCHANGED <<context, main, fetched, lineInfo, lists, mixed>>
       ELSE ProcessDies

\* onFailure, an answer that is not successful or one that does not parse.
FetchFails(f) ==
  /\ fetcher[f].pc = "sent"
  /\ fetcher' = [fetcher EXCEPT ![f].pc = "done"]
  /\ UNCHANGED <<context, main, fetched, lineInfo, lists, mixed>>

\* setStationList assigns the list and begins its loop.
AssignList(f) ==
  /\ fetcher[f].pc = "sent"
  /\ fetched' = TRUE
  /\ fetcher' = [fetcher EXCEPT ![f].pc = "get"]
  /\ mixed' = (mixed \/ Storing # {})
  /\ UNCHANGED <<context, main, lineInfo, lists>>

\* The list of the station's line, if it has one.
GetLine(f) ==
  /\ fetcher[f].pc = "get"
  /\ LET o == lineInfo[LineAt(f)]
     IN  fetcher' = [fetcher EXCEPT ![f].line = o,
                                    ![f].pc = IF o = None THEN "put" ELSE "add"]
  /\ UNCHANGED <<context, main, fetched, lineInfo, lists, mixed>>

\* Faulty variant of PutLine: the new list has the station, which is added again.
PutLineFilled(f) ==
  /\ fetcher[f].pc = "put"
  /\ lists' = [lists EXCEPT ![<<f, LineAt(f)>>] = [array |-> <<StationAt(f)>>, size |-> 1]]
  /\ lineInfo' = [lineInfo EXCEPT ![LineAt(f)] = f]
  /\ fetcher' = [fetcher EXCEPT ![f].line = f, ![f].pc = "add"]
  /\ UNCHANGED <<context, main, fetched, mixed>>

\* A new list for a line that had none.
PutLine(f) ==
  /\ fetcher[f].pc = "put"
  /\ lineInfo' = [lineInfo EXCEPT ![LineAt(f)] = f]
  /\ fetcher' = [fetcher EXCEPT ![f].line = f, ![f].pc = "add"]
  /\ UNCHANGED <<context, main, fetched, lists, mixed>>

ReadSize(f) ==
  /\ fetcher[f].pc = "add"
  /\ fetcher' = [fetcher EXCEPT ![f].pc = "write",
                                ![f].size = lists[<<fetcher[f].line, LineAt(f)>>].size]
  /\ UNCHANGED <<context, main, fetched, lineInfo, lists, mixed>>

\* The list after s was written behind its first n stations.  What is behind s
\* in the array stays there, and is seen again when the size has grown.
Written(list, n, s) ==
  [array |-> IF n < Len(list.array) THEN [list.array EXCEPT ![n + 1] = s]
             ELSE Append(list.array, s),
   size |-> n + 1]

\* Faulty variant of WriteStation: the loop ends before the last station.
WriteStationButLast(f) ==
  /\ fetcher[f].pc = "write"
  /\ LET o == fetcher[f].line
     IN  lists' = [lists EXCEPT ![<<o, LineAt(f)>>] =
                     Written(@, fetcher[f].size, StationAt(f))]
  /\ fetcher' = [fetcher EXCEPT
       ![f].at = @ + 1, ![f].line = None, ![f].size = 0,
       ![f].pc = IF fetcher[f].at + 1 >= Len(Stations) THEN "done" ELSE "get"]
  /\ UNCHANGED <<context, main, fetched, lineInfo, mixed>>

\* Faulty variant of WriteStation: the station goes to the list's beginning.
WriteStationFirst(f) ==
  /\ fetcher[f].pc = "write"
  /\ LET o == fetcher[f].line
     IN  lists' = [lists EXCEPT ![<<o, LineAt(f)>>] =
                     [array |-> <<StationAt(f)>> \o @.array, size |-> fetcher[f].size + 1]]
  /\ fetcher' = [fetcher EXCEPT
       ![f].at = @ + 1, ![f].line = None, ![f].size = 0,
       ![f].pc = IF fetcher[f].at = Len(Stations) THEN "done" ELSE "get"]
  /\ UNCHANGED <<context, main, fetched, lineInfo, mixed>>

\* The add ends, and with the last station the loop.
WriteStation(f) ==
  /\ fetcher[f].pc = "write"
  /\ LET o == fetcher[f].line
     IN  lists' = [lists EXCEPT ![<<o, LineAt(f)>>] =
                     Written(@, fetcher[f].size, StationAt(f))]
  /\ fetcher' = [fetcher EXCEPT
       ![f].at = @ + 1, ![f].line = None, ![f].size = 0,
       ![f].pc = IF fetcher[f].at = Len(Stations) THEN "done" ELSE "get"]
  /\ UNCHANGED <<context, main, fetched, lineInfo, mixed>>

FetcherStep(f) ==
  \/ FetchFails(f) \/ AssignList(f) \/ GetLine(f) \/ PutLine(f)
  \/ ReadSize(f) \/ WriteStation(f)

StationNext ==
  \/ InitMain \/ LeaveMain \/ ProcessDies
  \/ \E f \in Fetchers : CreateMain(f) \/ Run(f) \/ FetcherStep(f)

StationSpec == StationInit /\ [][StationNext]_stationVars
-----------------------------------------------------------------------------
StationTypeOK ==
  /\ context \in BOOLEAN /\ fetched \in BOOLEAN /\ mixed \in BOOLEAN
  /\ main \in {"none", "creating", "created"}
  /\ lineInfo \in [Lines -> Fetchers \cup {None}]
  /\ lists \in [Fetchers \X Lines -> [array : Seq(Names), size : Nat]]
  /\ \A o \in Fetchers, l \in Lines : lists[<<o, l>>].size <= Len(lists[<<o, l>>].array)
  /\ fetcher \in [Fetchers -> FetcherState]
  /\ \A f \in Fetchers : fetcher[f].pc \in {"get", "put", "add", "write"} =>
       fetcher[f].at <= Len(Stations)
  /\ \A f \in Fetchers : fetcher[f].pc \in {"add", "write"} => fetcher[f].line # None
  /\ \A f \in Fetchers : fetcher[f].pc = "write" =>
       fetcher[f].size <= Len(lists[<<fetcher[f].line, LineAt(f)>>].array)

\* Only a fetcher that MainActivity.onCreate has just started may find no context
\* and end the process, and only before the context is set: no fetcher is past
\* its start without one, and none is started later, from whichever activity.
ContextIsThere ==
  ~context =>
    /\ main # "created"
    /\ \A f \in Fetchers : fetcher[f].pc # "none" => fetcher[f].pc = "started" /\ main = "creating"

\* Once the stations are there and no fetcher is at work on them, each line has
\* all its stations and no others, however often they were fetched, unless two
\* fetchers were at work at a time (AppStore.setStationList).
LinesAreComplete ==
  fetched /\ Storing = {} /\ ~mixed =>
    \A l \in Lines :
      {StationsOf(l)[n] : n \in 1..Len(StationsOf(l))} = {s \in Names : LineOf[s] = l}

\* A station keeps its position in its line's list while the process lives: a
\* fetcher adds behind what is there, so that a position someone has read of a
\* line names the same station later on.  Two fetchers at a time break this.
PositionsStay ==
  [][fetched' /\ ~mixed' =>
       \A l \in Lines :
         /\ Len(StationsOf(l)') >= Len(StationsOf(l))
         /\ \A n \in 1..Len(StationsOf(l)) : StationsOf(l)'[n] = StationsOf(l)[n]]_stationVars

\* The catalogue the map is seen as: what its lists hold, and how far the fetcher
\* at work has come; empty once two were at work at a time.
Catalogue == INSTANCE LineCatalogue WITH
  lines <- [l \in Lines |-> IF mixed THEN <<>> ELSE StationsOf(l)],
  next <- IF mixed \/ Storing = {} THEN 1 ELSE fetcher[CHOOSE f \in Storing : TRUE].at,
  spoilt <- mixed

\* A turn of the loop takes up to four steps of a thread (setStationList: get, put
\* and the two halves of add), between which the map may be read; yet it is filled
\* as if each turn were one: every station once in a pass, in the order of the
\* answer, a later pass behind an earlier one - unless two of them overlap.
ImplementsCatalogue == Catalogue!Spec
=============================================================================
