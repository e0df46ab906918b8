-------------------------- MODULE OrderRemedyProofs --------------------------
(***************************************************************************)
(* What holds of the station store, of the journey history and of the      *)
(* order remedy on top of them for every sequence of stations, and however *)
(* many fetchers, loads and payments there are.                            *)
(*                                                                         *)
(* A fetcher that works on the store alone finds a line as it left it      *)
(* between any two of its steps (Undisturbed), and what it has been        *)
(* through is in the lines (Stored): hence complete lines, and positions   *)
(* that stay.  A callback that works on the list of rows alone finds it    *)
(* empty until its own row is there (OneRow).                              *)
(***************************************************************************)
EXTENDS OrderRemedy, FiniteSetTheorems, TLAPS
-----------------------------------------------------------------------------
(* The station store: types *)

LEMMA StationFacts ==
  /\ Len(Stations) \in Nat \ {0}
  /\ \A n \in 1..Len(Stations) : Stations[n] \in Names
  /\ \A s \in Names : LineOf[s] \in Lines
BY StationAssumption DEF Names

LEMMA NothingType ==
  /\ NoFetcher \in FetcherState /\ NoFetcher.pc = "none"
  /\ NoStations \in [array : Seq(Names), size : Nat]
  /\ NoStations.size <= Len(NoStations.array)
BY StationFacts DEF NoFetcher, FetcherState, NoStations

LEMMA StationInitType == StationInit => StationTypeOK
<1> SUFFICES ASSUME StationInit
             PROVE  StationTypeOK
  OBVIOUS
<1>1. /\ context \in BOOLEAN /\ main = "none" /\ fetched = FALSE /\ mixed = FALSE
      /\ lineInfo = [l \in Lines |-> None]
      /\ lists = [p \in Fetchers \X Lines |-> NoStations]
      /\ fetcher = [f \in Fetchers |-> NoFetcher]
  BY DEF StationInit
<1>2. lists \in [Fetchers \X Lines -> [array : Seq(Names), size : Nat]]
  BY <1>1, NothingType
<1>3. \A o \in Fetchers, l \in Lines : lists[<<o, l>>] = NoStations
  BY <1>1
<1> QED
  BY <1>1, <1>2, <1>3, NothingType DEF StationTypeOK

\* The process that begins has what the first one had.
LEMMA ProcessType == ProcessDies => StationTypeOK'
<1> SUFFICES ASSUME ProcessDies
             PROVE  StationTypeOK'
  OBVIOUS
<1>1. /\ context' \in BOOLEAN /\ main' = "none" /\ fetched' = FALSE /\ mixed' = FALSE
      /\ lineInfo' = [l \in Lines |-> None]
      /\ lists' = [p \in Fetchers \X Lines |-> NoStations]
      /\ fetcher' = [f \in Fetchers |-> NoFetcher]
  BY DEF ProcessDies, NewProcess
<1>2. lists' \in [Fetchers \X Lines -> [array : Seq(Names), size : Nat]]
  BY <1>1, NothingType
<1>3. \A o \in Fetchers, l \in Lines : lists'[<<o, l>>] = NoStations
  BY <1>1
<1> QED
  BY <1>1, <1>2, <1>3, NothingType DEF StationTypeOK

\* A fetcher at work is at a station, which is on a line.
LEMMA StationAtType ==
  ASSUME StationTypeOK, NEW f \in Storing
  PROVE  /\ f \in Fetchers /\ fetcher[f].at \in 1..Len(Stations)
         /\ StationAt(f) \in Names /\ LineAt(f) \in Lines
<1>1. f \in Fetchers /\ fetcher[f] \in FetcherState
  BY DEF Storing, StationTypeOK
<1>2. fetcher[f].at \in 1..Len(Stations)+1 /\ fetcher[f].at <= Len(Stations)
  BY <1>1 DEF Storing, StationTypeOK, FetcherState
<1>3. fetcher[f].at \in 1..Len(Stations)
  BY <1>2, StationFacts
<1> QED
  BY <1>1, <1>3, StationFacts DEF StationAt, LineAt

\* OpenHistory starts a fetcher too.
Start(f) ==
  /\ fetcher[f].pc = "none"
  /\ fetcher' = [fetcher EXCEPT ![f].pc = "started"]
  /\ UNCHANGED <<context, fetched, lineInfo, lists, mixed>>
  /\ main' \in {"none", "creating", "created"}

\* Steps of fetcher f that do not touch the lines.
LEMMA PcType ==
  ASSUME StationTypeOK, NEW f \in Fetchers,
         NEW q \in {"started", "sent", "done"},
         fetcher' = [fetcher EXCEPT ![f].pc = q],
         UNCHANGED <<context, fetched, lineInfo, lists, mixed>>,
         main' \in {"none", "creating", "created"}
  PROVE  StationTypeOK'
<1>1. fetcher' \in [Fetchers -> FetcherState]
  BY ZenonT(60) DEF StationTypeOK, FetcherState
<1>2. \A g \in Fetchers : g # f => fetcher'[g] = fetcher[g]
  BY DEF StationTypeOK
<1>3. fetcher'[f].pc = q
  BY DEF StationTypeOK, FetcherState
<1>4. \A g \in Fetchers : fetcher'[g].pc \in {"get", "put", "add", "write"} =>
        fetcher'[g] = fetcher[g]
  BY <1>2, <1>3
<1>5. \A g \in Fetchers : fetcher'[g].pc = "write" =>
        fetcher'[g].size <= Len(lists'[<<fetcher'[g].line, LineAt(g)'>>].array)
  BY <1>4 DEF StationTypeOK, LineAt, StationAt
<1> QED
  BY <1>1, <1>4, <1>5 DEF StationTypeOK

\* w is the list of which s is the station behind the first n.
IsWritten(w, list, n, s) ==
  /\ w.size = n + 1 /\ w.size <= Len(w.array) /\ Len(w.array) >= Len(list.array)
  /\ w.array[w.size] = s
  /\ \A m \in 1..Len(w.array) : m # w.size =>
       m \in 1..Len(list.array) /\ w.array[m] = list.array[m]

LEMMA WrittenFacts ==
  ASSUME NEW list, list.array \in Seq(Names), NEW n \in Nat, NEW s \in Names,
         n <= Len(list.array)
  PROVE  /\ Written(list, n, s) \in [array : Seq(Names), size : Nat]
         /\ IsWritten(Written(list, n, s), list, n, s)
<1> DEFINE A == IF n < Len(list.array) THEN [list.array EXCEPT ![n + 1] = s]
                ELSE Append(list.array, s)
<1>1. CASE n < Len(list.array)
  <2>1. A = [list.array EXCEPT ![n + 1] = s] /\ n + 1 \in 1..Len(list.array)
    BY <1>1
  <2>2. A \in Seq(Names) /\ Len(A) = Len(list.array)
    BY <2>1
  <2>3. \A m \in 1..Len(A) : A[m] = IF m = n + 1 THEN s ELSE list.array[m]
    BY <2>1, <2>2
  <2> QED
    BY <1>1, <2>1, <2>2, <2>3 DEF Written, IsWritten
<1>2. CASE n = Len(list.array)
  <2>1. A = Append(list.array, s)
    BY <1>2
  <2>2. A \in Seq(Names) /\ Len(A) = n + 1
    BY <1>2, <2>1
  <2>3. \A m \in 1..Len(A) : A[m] = IF m = n + 1 THEN s ELSE list.array[m]
    BY <1>2, <2>1, <2>2
  <2> QED
    BY <1>2, <2>1, <2>2, <2>3 DEF Written, IsWritten
<1> QED
  BY <1>1, <1>2

\* What a step of fetcher f does to the others' records: nothing.
LEMMA OneFetcher ==
  ASSUME StationTypeOK, NEW f \in Fetchers, NEW r, fetcher' = [fetcher EXCEPT ![f] = r]
  PROVE  fetcher'[f] = r /\ \A g \in Fetchers : g # f => fetcher'[g] = fetcher[g]
BY DEF StationTypeOK

\* Fetcher f writes station s to its list o of line k, which becomes w.
Writes(f, o, k, s, w) ==
  /\ fetcher[f].line = o /\ LineAt(f) = k /\ StationAt(f) = s
  /\ lists' = [lists EXCEPT ![<<o, k>>] = w]
  /\ IsWritten(w, lists[<<o, k>>], fetcher[f].size, s)

LEMMA WriteStationEffect ==
  ASSUME StationTypeOK, NEW f \in Fetchers, WriteStation(f)
  PROVE  \E o \in Fetchers, k \in Lines, s \in Names, w \in [array : Seq(Names), size : Nat] :
           Writes(f, o, k, s, w)
<1> DEFINE o == fetcher[f].line
           k == LineAt(f)
           s == StationAt(f)
           z == fetcher[f].size
           w == Written(lists[<<o, k>>], z, s)
<1>1. f \in Storing /\ fetcher[f].pc = "write"
  BY DEF WriteStation, Storing
<1>2. k \in Lines /\ s \in Names
  BY <1>1, StationAtType
<1>3. o \in Fetchers /\ z \in Nat
  BY <1>1 DEF StationTypeOK, FetcherState
<1>4. z <= Len(lists[<<o, k>>].array)
  BY <1>1 DEF StationTypeOK
<1>5. lists[<<o, k>>].array \in Seq(Names)
  BY <1>2, <1>3 DEF StationTypeOK
<1>6. w \in [array : Seq(Names), size : Nat] /\ IsWritten(w, lists[<<o, k>>], z, s)
  BY <1>2, <1>3, <1>4, <1>5, WrittenFacts
<1>7. lists' = [lists EXCEPT ![<<o, k>>] = w]
  BY DEF WriteStation
<1>8. Writes(f, o, k, s, w)
  BY <1>6, <1>7 DEF Writes
<1> HIDE DEF o, k, s, w
<1> QED
  BY <1>2, <1>3, <1>6, <1>8

-----------------------------------------------------------------------------
(* The station store: the invariant *)

\* A fetcher that has not been answered is at the first station.
Fresh ==
  \A f \in Fetchers : fetcher[f].pc \in {"none", "started", "sent"} => fetcher[f].at = 1

\* A line's lists have stations of that line only.
OnLine ==
  \A o \in Fetchers, l \in Lines :
    \A n \in 1..Len(lists[<<o, l>>].array) : LineOf[lists[<<o, l>>].array[n]] = l

Alone == ~mixed => \A f, g \in Storing : f = g

\* What a fetcher has read of the line it is at is still so.
Undisturbed ==
  ~mixed => \A f \in Fetchers :
    /\ fetcher[f].pc = "put" => lineInfo[LineAt(f)] = None
    /\ fetcher[f].pc \in {"add", "write"} => lineInfo[LineAt(f)] = fetcher[f].line
    /\ fetcher[f].pc = "write" =>
         fetcher[f].size = lists[<<fetcher[f].line, LineAt(f)>>].size

\* The line of station s has it.
Held(s) == \E n \in 1..Len(StationsOf(LineOf[s])) : StationsOf(LineOf[s])[n] = s

Stored ==
  ~mixed => \A f \in Fetchers : \A m \in 1..fetcher[f].at-1 : Held(Stations[m])

\* Once the stations are there, a fetcher works on them or has been through.
Answered ==
  fetched => \E f \in Fetchers : f \in Storing \/ fetcher[f].at = Len(Stations) + 1

StationInv ==
  StationTypeOK /\ Fresh /\ OnLine /\ Alone /\ Undisturbed /\ Stored /\ Answered

\* The stations of a line are those of its list's array up to its size.
LineFacts ==
  \A l \in Lines :
    /\ StationsOf(l) \in Seq(Names)
    /\ lineInfo[l] = None => Len(StationsOf(l)) = 0
    /\ lineInfo[l] # None =>
         /\ lineInfo[l] \in Fetchers
         /\ Len(StationsOf(l)) = lists[<<lineInfo[l], l>>].size
         /\ \A n \in 1..lists[<<lineInfo[l], l>>].size :
              /\ n \in 1..Len(lists[<<lineInfo[l], l>>].array)
              /\ StationsOf(l)[n] = lists[<<lineInfo[l], l>>].array[n]

LEMMA StationsOfFacts == StationTypeOK => LineFacts
<1> SUFFICES ASSUME StationTypeOK, NEW l \in Lines
             PROVE  /\ StationsOf(l) \in Seq(Names)
                    /\ lineInfo[l] = None => Len(StationsOf(l)) = 0
                    /\ lineInfo[l] # None =>
                         /\ lineInfo[l] \in Fetchers
                         /\ Len(StationsOf(l)) = lists[<<lineInfo[l], l>>].size
                         /\ \A n \in 1..lists[<<lineInfo[l], l>>].size :
                              /\ n \in 1..Len(lists[<<lineInfo[l], l>>].array)
                              /\ StationsOf(l)[n] = lists[<<lineInfo[l], l>>].array[n]
  BY DEF LineFacts
<1>1. CASE lineInfo[l] = None
  BY <1>1 DEF StationsOf
<1>2. CASE lineInfo[l] # None
  <2> DEFINE a == lists[<<lineInfo[l], l>>].array
             z == lists[<<lineInfo[l], l>>].size
  <2>1. lineInfo[l] \in Fetchers
    BY <1>2 DEF StationTypeOK
  <2>2. lists[<<lineInfo[l], l>>] \in [array : Seq(Names), size : Nat] /\ z <= Len(a)
    BY <2>1 DEF StationTypeOK
  <2>3. a \in Seq(Names) /\ z \in Nat /\ z <= Len(a)
    BY <2>2
  <2>4. StationsOf(l) = SubSeq(a, 1, z)
    BY <1>2 DEF StationsOf
  <2> HIDE DEF a, z
  <2>5. /\ SubSeq(a, 1, z) \in Seq(Names) /\ Len(SubSeq(a, 1, z)) = z
        /\ \A n \in 1..z : SubSeq(a, 1, z)[n] = a[n] /\ n \in 1..Len(a)
    BY <2>3
  <2> QED
    BY <1>2, <2>1, <2>4, <2>5 DEF a, z
<1> QED
  BY <1>1, <1>2

LEMMA StationsOfNext == StationTypeOK' => LineFacts'
BY StationsOfFacts, PTL

\* Steps that leave the lines, their lists and the fetchers at work alone.
LEMMA QuietStep ==
  ASSUME StationInv, StationTypeOK',
         UNCHANGED <<fetched, lineInfo, lists, mixed>>,
         \A f \in Fetchers :
           \/ fetcher'[f] = fetcher[f]
           \/ /\ f \notin Storing /\ fetcher'[f].at = fetcher[f].at
              /\ fetcher'[f].pc \in {"started", "sent", "done"}
              /\ fetcher[f].pc \in {"none", "started", "sent"}
  PROVE  StationInv'
<1> USE DEF StationInv
<1>1. Storing' = Storing
  BY DEF Storing
<1>2. Fresh'
  BY DEF Fresh
<1>3. OnLine'
  BY DEF OnLine
<1>4. Alone'
  BY <1>1 DEF Alone
<1>5. \A f \in Fetchers : fetcher'[f].at = fetcher[f].at /\ StationAt(f)' = StationAt(f)
        /\ LineAt(f)' = LineAt(f)
  BY DEF StationAt, LineAt
<1>6. \A f \in Fetchers : fetcher'[f].pc \in {"put", "add", "write"} => fetcher'[f] = fetcher[f]
  OBVIOUS
<1>7. Undisturbed'
  BY <1>5, <1>6 DEF Undisturbed
<1>8. \A s : Held(s)' = Held(s)
  BY DEF Held, StationsOf
<1>9. Stored'
  BY <1>5, <1>8 DEF Stored
<1>10. Answered'
  BY <1>1, <1>5 DEF Answered
<1> QED
  BY <1>2, <1>3, <1>4, <1>7, <1>9, <1>10

\* A process at its start: no fetcher has asked for anything.
LEMMA StationInitInv == StationInit => StationInv
<1> SUFFICES ASSUME StationInit
             PROVE  StationInv
  OBVIOUS
<1>1. StationTypeOK
  BY StationInitType
<1>2. /\ \A f \in Fetchers : fetcher[f].pc = "none" /\ fetcher[f].at = 1
      /\ \A o \in Fetchers, l \in Lines : Len(lists[<<o, l>>].array) = 0
      /\ fetched = FALSE
  BY DEF StationInit, NoFetcher, NoStations
<1>3. Fresh /\ Undisturbed /\ Answered
  BY <1>2 DEF Fresh, Undisturbed, Answered
<1>4. OnLine
  BY <1>2 DEF OnLine
<1>5. Alone
  BY <1>2 DEF Alone, Storing
<1>6. Stored
  BY <1>2 DEF Stored
<1> QED
  BY <1>1, <1>3, <1>4, <1>5, <1>6 DEF StationInv

LEMMA ProcessInv == ProcessDies => StationInv'
<1> SUFFICES ASSUME ProcessDies
             PROVE  StationInv'
  OBVIOUS
<1>1. StationTypeOK'
  BY ProcessType
<1>2. /\ \A f \in Fetchers : fetcher'[f].pc = "none" /\ fetcher'[f].at = 1
      /\ \A o \in Fetchers, l \in Lines : Len(lists'[<<o, l>>].array) = 0
      /\ fetched' = FALSE
  BY DEF ProcessDies, NewProcess, NoFetcher, NoStations
<1>3. Fresh' /\ Undisturbed' /\ Answered'
  BY <1>2 DEF Fresh, Undisturbed, Answered
<1>4. OnLine'
  BY <1>2 DEF OnLine
<1>5. Alone'
  BY <1>2 DEF Alone, Storing
<1>6. Stored'
  BY <1>2 DEF Stored
<1> QED
  BY <1>1, <1>3, <1>4, <1>5, <1>6 DEF StationInv

\* The record of fetcher f changes, and it works on the store before and after;
\* the lines and their lists stay.
LEMMA LooksUp ==
  ASSUME StationInv, NEW f \in Storing, NEW q \in {"put", "add", "write"},
         NEW o \in Fetchers \cup {None}, NEW z \in Nat,
         fetcher' = [fetcher EXCEPT ![f].pc = q, ![f].line = o, ![f].size = z],
         UNCHANGED <<context, main, fetched, lineInfo, lists, mixed>>,
         q = "put" => lineInfo[LineAt(f)] = None,
         q \in {"add", "write"} => o # None /\ (~mixed => o = lineInfo[LineAt(f)]),
         q = "write" => z = lists[<<o, LineAt(f)>>].size
  PROVE  StationInv'
<1> USE DEF StationInv
<1>1. f \in Fetchers /\ fetcher[f].at \in 1..Len(Stations) /\ LineAt(f) \in Lines
  BY StationAtType
<1>2. /\ fetcher'[f].pc = q /\ fetcher'[f].line = o /\ fetcher'[f].size = z
      /\ fetcher'[f].at = fetcher[f].at /\ fetcher'[f] \in FetcherState
  BY <1>1 DEF StationTypeOK, FetcherState
<1>3. \A g \in Fetchers : g # f => fetcher'[g] = fetcher[g]
  BY DEF StationTypeOK
<1>4. \A g \in Fetchers : fetcher'[g].at = fetcher[g].at /\ LineAt(g)' = LineAt(g)
  BY <1>2, <1>3 DEF LineAt, StationAt
<1>5. StationTypeOK'
  <2>1. fetcher' \in [Fetchers -> FetcherState]
    BY <1>2, <1>3 DEF StationTypeOK
  <2>2. \A g \in Fetchers : fetcher'[g].pc \in {"get", "put", "add", "write"} =>
          fetcher'[g].at <= Len(Stations)
    BY <1>1, <1>2, <1>3, StationFacts DEF StationTypeOK
  <2>3. \A g \in Fetchers : fetcher'[g].pc \in {"add", "write"} => fetcher'[g].line # None
    BY <1>2, <1>3 DEF StationTypeOK
  <2>4. \A g \in Fetchers : fetcher'[g].pc = "write" =>
          fetcher'[g].size <= Len(lists[<<fetcher'[g].line, LineAt(g)>>].array)
    BY ZenonT(60), <1>1, <1>2, <1>3 DEF StationTypeOK
  <2> QED
    BY <1>4, <2>1, <2>2, <2>3, <2>4 DEF StationTypeOK
<1>6. Storing' = Storing
  BY <1>2, <1>3 DEF Storing
<1>7. Fresh' /\ OnLine' /\ Alone'
  <2>1. Fresh'
    BY <1>2, <1>3 DEF Fresh
  <2>2. OnLine'
    BY <1>2, <1>3, <1>6 DEF OnLine
  <2>3. Alone'
    BY <1>6 DEF Alone
  <2> QED
    BY <2>1, <2>2, <2>3
<1>8. Undisturbed'
  BY ZenonT(60), <1>2, <1>3, <1>4 DEF Undisturbed
<1>9. \A s : Held(s)' = Held(s)
  BY DEF Held, StationsOf
<1>10. Stored' /\ Answered'
  BY <1>4, <1>6, <1>9 DEF Stored, Answered
<1> QED
  BY <1>5, <1>7, <1>8, <1>10

LEMMA AssignListStep ==
  ASSUME StationInv, NEW f \in Fetchers, AssignList(f)
  PROVE  StationInv'
<1> USE DEF StationInv
<1>1. /\ fetcher[f].pc = "sent" /\ fetcher[f].at = 1 /\ f \notin Storing
      /\ fetcher' = [fetcher EXCEPT ![f].pc = "get"] /\ fetched' = TRUE
      /\ mixed' = (mixed \/ Storing # {}) /\ UNCHANGED <<context, main, lineInfo, lists>>
  BY DEF AssignList, Fresh, Storing
<1>2. fetcher'[f].pc = "get" /\ fetcher'[f].at = 1 /\ fetcher'[f] \in FetcherState
  BY <1>1 DEF StationTypeOK, FetcherState
<1>3. \A g \in Fetchers : g # f => fetcher'[g] = fetcher[g]
  BY <1>1 DEF StationTypeOK
<1>4. \A g \in Fetchers : g # f => LineAt(g)' = LineAt(g)
  BY <1>3 DEF LineAt, StationAt
<1>5. Storing' = Storing \cup {f}
  BY <1>1, <1>2, <1>3 DEF Storing
<1>6. mixed \in BOOLEAN /\ (~mixed' => ~mixed /\ Storing = {})
  BY <1>1 DEF StationTypeOK
<1>7. StationTypeOK'
  <2>1. fetcher' \in [Fetchers -> FetcherState] /\ mixed' \in BOOLEAN
    BY <1>1, <1>2, <1>3 DEF StationTypeOK
  <2>2. \A g \in Fetchers : fetcher'[g].pc \in {"get", "put", "add", "write"} =>
          fetcher'[g].at <= Len(Stations)
    BY <1>2, <1>3, StationFacts DEF StationTypeOK
  <2>3. \A g \in Fetchers : fetcher'[g].pc \in {"add", "write"} => fetcher'[g].line # None
    BY <1>2, <1>3 DEF StationTypeOK
  <2>4. \A g \in Fetchers : fetcher'[g].pc = "write" =>
          fetcher'[g].size <= Len(lists'[<<fetcher'[g].line, LineAt(g)'>>].array)
    BY <1>1, <1>2, <1>3, <1>4 DEF StationTypeOK
  <2> QED
    BY <1>1, <2>1, <2>2, <2>3, <2>4 DEF StationTypeOK
<1>8. Fresh' /\ OnLine' /\ Alone'
  BY <1>1, <1>2, <1>3, <1>5, <1>6 DEF Fresh, OnLine, Alone
<1>9. Undisturbed'
  BY <1>1, <1>2, <1>3, <1>4, <1>6 DEF Undisturbed
<1>10. \A s : Held(s)' = Held(s)
  BY <1>1 DEF Held, StationsOf
<1>11. Stored'
  BY <1>2, <1>3, <1>6, <1>10 DEF Stored
<1>12. Answered'
  BY <1>5 DEF Answered
<1> QED
  BY <1>7, <1>8, <1>9, <1>11, <1>12

LEMMA GetLineStep ==
  ASSUME StationInv, NEW f \in Fetchers, GetLine(f)
  PROVE  StationInv'
<1> DEFINE o == lineInfo[LineAt(f)]
           q == IF o = None THEN "put" ELSE "add"
<1>1. f \in Storing
  BY DEF GetLine, Storing
<1>2. LineAt(f) \in Lines
  BY <1>1, StationAtType DEF StationInv
<1>3. o \in Fetchers \cup {None} /\ fetcher[f].size \in Nat
  BY <1>2 DEF StationInv, StationTypeOK, FetcherState
<1>4. fetcher' = [fetcher EXCEPT ![f].pc = q, ![f].line = o, ![f].size = fetcher[f].size]
  BY DEF GetLine, StationInv, StationTypeOK, FetcherState
<1>5. UNCHANGED <<context, main, fetched, lineInfo, lists, mixed>>
  BY DEF GetLine
<1>6. q \in {"put", "add"} /\ (q = "put" => o = None) /\ (q = "add" => o # None)
  OBVIOUS
<1> HIDE DEF q
<1> QED
  BY <1>1, <1>3, <1>4, <1>5, <1>6, LooksUp

LEMMA ReadSizeStep ==
  ASSUME StationInv, NEW f \in Fetchers, ReadSize(f)
  PROVE  StationInv'
<1> DEFINE o == fetcher[f].line
           z == lists[<<o, LineAt(f)>>].size
<1>1. f \in Storing /\ fetcher[f].pc = "add"
  BY DEF ReadSize, Storing
<1>2. LineAt(f) \in Lines
  BY <1>1, StationAtType DEF StationInv
<1>3. o \in Fetchers /\ (~mixed => o = lineInfo[LineAt(f)])
  BY <1>1 DEF StationInv, StationTypeOK, FetcherState, Undisturbed
<1>4. z \in Nat
  BY <1>2, <1>3 DEF StationInv, StationTypeOK
<1>5. fetcher' = [fetcher EXCEPT ![f].pc = "write", ![f].line = o, ![f].size = z]
  BY DEF ReadSize, StationInv, StationTypeOK, FetcherState
<1>6. UNCHANGED <<context, main, fetched, lineInfo, lists, mixed>>
  BY DEF ReadSize
<1>7. o # None
  BY <1>3, StationAssumption
<1> QED
  BY <1>1, <1>3, <1>4, <1>5, <1>6, <1>7, LooksUp

\* A line keeps its stations where they are.
Keeps(l) ==
  /\ Len(StationsOf(l)') >= Len(StationsOf(l))
  /\ \A n \in 1..Len(StationsOf(l)) : StationsOf(l)'[n] = StationsOf(l)[n]

LEMMA KeepsHeld ==
  ASSUME StationTypeOK, StationTypeOK', NEW s \in Names, Keeps(LineOf[s]), Held(s)
  PROVE  Held(s)'
<1> DEFINE l == LineOf[s]
<1>1. l \in Lines
  BY StationFacts
<1>2. StationsOf(l) \in Seq(Names) /\ StationsOf(l)' \in Seq(Names)
  BY <1>1, StationsOfFacts, StationsOfNext DEF LineFacts
<1>3. PICK n \in 1..Len(StationsOf(l)) : StationsOf(l)[n] = s
  BY DEF Held
<1>4. n \in 1..Len(StationsOf(l)') /\ StationsOf(l)'[n] = s
  BY <1>2, <1>3 DEF Keeps
<1> QED
  BY <1>4 DEF Held

LEMMA PutLineStep ==
  ASSUME StationInv, NEW f \in Fetchers, PutLine(f)
  PROVE  StationInv' /\ (~mixed' => \A l \in Lines : Keeps(l))
<1> USE DEF StationInv
<1>1. f \in Storing /\ fetcher[f].pc = "put"
  BY DEF PutLine, Storing
<1>2. fetcher[f].at \in 1..Len(Stations) /\ LineAt(f) \in Lines
  BY <1>1, StationAtType
<1>3. /\ lineInfo' = [lineInfo EXCEPT ![LineAt(f)] = f]
      /\ fetcher' = [fetcher EXCEPT ![f].line = f, ![f].pc = "add"]
      /\ UNCHANGED <<context, main, fetched, lists, mixed>>
  BY DEF PutLine
<1>4. /\ fetcher'[f].pc = "add" /\ fetcher'[f].line = f /\ fetcher'[f].at = fetcher[f].at
      /\ fetcher'[f] \in FetcherState
  BY <1>3 DEF StationTypeOK, FetcherState
<1>5. \A g \in Fetchers : g # f => fetcher'[g] = fetcher[g]
  BY <1>3 DEF StationTypeOK
<1>6. /\ lineInfo'[LineAt(f)] = f
      /\ \A l \in Lines : l # LineAt(f) => lineInfo'[l] = lineInfo[l]
  BY <1>2, <1>3 DEF StationTypeOK
<1>7. \A g \in Fetchers : fetcher'[g].at = fetcher[g].at /\ LineAt(g)' = LineAt(g)
  BY <1>4, <1>5 DEF LineAt, StationAt
<1>8. StationTypeOK'
  <2>1. fetcher' \in [Fetchers -> FetcherState] /\ lineInfo' \in [Lines -> Fetchers \cup {None}]
    BY <1>2, <1>3, <1>4, <1>5 DEF StationTypeOK
  <2>2. \A g \in Fetchers : fetcher'[g].pc \in {"get", "put", "add", "write"} =>
          fetcher'[g].at <= Len(Stations)
    BY <1>2, <1>4, <1>5, StationFacts DEF StationTypeOK
  <2>3. \A g \in Fetchers : fetcher'[g].pc \in {"add", "write"} => fetcher'[g].line # None
    BY <1>4, <1>5, StationAssumption DEF StationTypeOK
  <2>4. \A g \in Fetchers : fetcher'[g].pc = "write" =>
          fetcher'[g].size <= Len(lists'[<<fetcher'[g].line, LineAt(g)'>>].array)
    BY <1>3, <1>4, <1>5, <1>7 DEF StationTypeOK
  <2> QED
    BY <1>3, <2>1, <2>2, <2>3, <2>4 DEF StationTypeOK
<1>9. Storing' = Storing
  BY <1>1, <1>4, <1>5 DEF Storing
<1>10. Fresh' /\ OnLine' /\ Alone'
  BY <1>3, <1>4, <1>5, <1>9 DEF Fresh, OnLine, Alone
<1>11. Undisturbed'
  <2> SUFFICES ASSUME ~mixed, NEW g \in Fetchers
               PROVE  /\ fetcher'[g].pc = "put" => lineInfo'[LineAt(g)] = None
                      /\ fetcher'[g].pc \in {"add", "write"} =>
                           lineInfo'[LineAt(g)] = fetcher'[g].line
                      /\ fetcher'[g].pc = "write" =>
                           fetcher'[g].size = lists[<<fetcher'[g].line, LineAt(g)>>].size
    BY ZenonT(60), <1>3, <1>7 DEF Undisturbed
  <2>1. CASE g = f
    BY <1>4, <1>6, <2>1
  <2>2. CASE g # f
    <3>1. g \notin Storing
      BY <1>1, <2>2 DEF Alone
    <3> QED
      BY <1>5, <2>2, <3>1 DEF Storing
  <2> QED
    BY <2>1, <2>2
<1>12. ~mixed => \A l \in Lines : Keeps(l)
  <2> SUFFICES ASSUME ~mixed, NEW l \in Lines
               PROVE  Keeps(l)
    OBVIOUS
  <2>1. CASE l = LineAt(f)
    <3>1. lineInfo[l] = None
      BY <1>1, <2>1 DEF Undisturbed
    <3>2. Len(StationsOf(l)) = 0
      BY <3>1, StationsOfFacts DEF LineFacts
    <3>3. StationsOf(l)' \in Seq(Names)
      BY <1>8, StationsOfNext DEF LineFacts
    <3>4. Len(StationsOf(l)') \in Nat
      BY <3>3
    <3> QED
      BY <3>2, <3>4 DEF Keeps
  <2>2. CASE l # LineAt(f)
    <3>1. StationsOf(l)' = StationsOf(l)
      BY <1>3, <1>6, <2>2 DEF StationsOf
    <3>2. Len(StationsOf(l)) \in Nat
      BY StationsOfFacts DEF LineFacts
    <3> QED
      BY <3>1, <3>2 DEF Keeps
  <2> QED
    BY <2>1, <2>2
<1>13. Stored'
  <2> SUFFICES ASSUME ~mixed, NEW g \in Fetchers, NEW m \in 1..fetcher[g].at-1
               PROVE  Held(Stations[m])'
    BY <1>3, <1>7 DEF Stored
  <2>1. m \in 1..Len(Stations)
    BY StationFacts DEF StationTypeOK, FetcherState
  <2>2. Stations[m] \in Names /\ LineOf[Stations[m]] \in Lines
    BY <2>1, StationFacts
  <2>3. Held(Stations[m])
    BY DEF Stored
  <2> QED
    BY <1>8, <1>12, <2>2, <2>3, KeepsHeld
<1>14. Answered'
  BY <1>3, <1>7, <1>9 DEF Answered
<1> QED
  BY <1>3, <1>8, <1>10, <1>11, <1>12, <1>13, <1>14

\* A line's list grows by a station at its end.
LEMMA GrowsKeeps ==
  ASSUME StationTypeOK, StationTypeOK', NEW o \in Fetchers, NEW k \in Lines, NEW s, NEW w,
         lineInfo' = lineInfo, lineInfo[k] = o,
         lists'[<<o, k>>] = w,
         \A p \in (Fetchers \X Lines) \ {<<o, k>>} : lists'[p] = lists[p],
         IsWritten(w, lists[<<o, k>>], lists[<<o, k>>].size, s)
  PROVE  (\A l \in Lines : Keeps(l)) /\ (LineOf[s] = k => Held(s)')
<1> USE DEF IsWritten
<1>1. LineFacts /\ LineFacts'
  BY StationsOfFacts, StationsOfNext
<1>2. o # None
  BY StationAssumption
<1>3. /\ Len(StationsOf(k)) = lists[<<o, k>>].size
      /\ \A n \in 1..lists[<<o, k>>].size : StationsOf(k)[n] = lists[<<o, k>>].array[n]
  BY <1>1, <1>2 DEF LineFacts
<1>4. /\ Len(StationsOf(k)') = w.size
      /\ \A n \in 1..w.size : n \in 1..Len(w.array) /\ StationsOf(k)'[n] = w.array[n]
  BY <1>1, <1>2 DEF LineFacts
<1>5. lists[<<o, k>>].size \in Nat
  BY DEF StationTypeOK
<1>6. Keeps(k)
  <2>1. Len(StationsOf(k)') >= Len(StationsOf(k))
    BY <1>3, <1>4, <1>5
  <2>2. ASSUME NEW n \in 1..Len(StationsOf(k))
        PROVE  StationsOf(k)'[n] = StationsOf(k)[n]
    <3>1. n \in 1..lists[<<o, k>>].size /\ n \in 1..w.size /\ n # w.size
      BY <1>3, <1>5
    <3> QED
      <4>1. StationsOf(k)[n] = lists[<<o, k>>].array[n]
        BY <1>3, <3>1
      <4>2. n \in 1..Len(w.array) /\ StationsOf(k)'[n] = w.array[n]
        BY <1>4, <3>1
      <4>3. w.array[n] = lists[<<o, k>>].array[n]
        BY <3>1, <4>2
      <4> QED
        BY <4>1, <4>2, <4>3
  <2> QED
    BY <2>1, <2>2 DEF Keeps
<1>7. ASSUME NEW l \in Lines, l # k
      PROVE  Keeps(l)
  <2>1. lineInfo[l] # None => lists'[<<lineInfo[l], l>>] = lists[<<lineInfo[l], l>>]
    BY <1>7 DEF StationTypeOK
  <2>2. StationsOf(l)' = StationsOf(l)
    BY <2>1 DEF StationsOf
  <2>3. Len(StationsOf(l)) \in Nat
    BY <1>1 DEF LineFacts
  <2> QED
    BY <2>2, <2>3 DEF Keeps
<1>8. w.size \in 1..w.size /\ StationsOf(k)'[w.size] = s
  BY <1>4, <1>5
<1> QED
  BY <1>4, <1>6, <1>7, <1>8 DEF Held

LEMMA WriteStationType ==
  ASSUME StationTypeOK, NEW f \in Fetchers, WriteStation(f)
  PROVE  StationTypeOK'
<1>1. PICK o \in Fetchers, k \in Lines, s \in Names, w \in [array : Seq(Names), size : Nat] :
        Writes(f, o, k, s, w)
  BY WriteStationEffect
<1>2. /\ lists'[<<o, k>>] = w /\ lists' \in [Fetchers \X Lines -> [array : Seq(Names), size : Nat]]
      /\ \A p \in (Fetchers \X Lines) \ {<<o, k>>} : lists'[p] = lists[p]
      /\ w.size <= Len(w.array) /\ Len(w.array) >= Len(lists[<<o, k>>].array)
  BY <1>1 DEF StationTypeOK, Writes, IsWritten
<1>3. UNCHANGED <<context, main, fetched, lineInfo, mixed>>
  BY DEF WriteStation
<1>4. f \in Storing /\ fetcher[f].at \in 1..Len(Stations)
  BY StationAtType DEF WriteStation, Storing
<1>5. /\ fetcher'[f].pc = (IF fetcher[f].at = Len(Stations) THEN "done" ELSE "get")
      /\ fetcher'[f].at = fetcher[f].at + 1
      /\ \A g \in Fetchers : g # f => fetcher'[g] = fetcher[g]
  BY DEF WriteStation, StationTypeOK, FetcherState
<1>6. fetcher' \in [Fetchers -> FetcherState]
  <2>1. fetcher[f].at + 1 \in 1..Len(Stations)+1
    BY <1>4, StationFacts
  <2> QED
    BY <2>1 DEF WriteStation, StationTypeOK, FetcherState
<1>7. \A p \in Fetchers, l \in Lines : lists'[<<p, l>>].size <= Len(lists'[<<p, l>>].array)
  <2> SUFFICES ASSUME NEW p \in Fetchers, NEW l \in Lines
               PROVE  lists'[<<p, l>>].size <= Len(lists'[<<p, l>>].array)
    OBVIOUS
  <2>1. lists[<<p, l>>].size <= Len(lists[<<p, l>>].array)
    BY DEF StationTypeOK
  <2>2. lists'[<<p, l>>] = w \/ lists'[<<p, l>>] = lists[<<p, l>>]
    BY <1>2
  <2> QED
    BY <1>2, <2>1, <2>2
<1>8. \A g \in Fetchers : fetcher'[g].pc \in {"get", "put", "add", "write"} =>
        fetcher'[g].at <= Len(Stations)
  <2>1. fetcher'[f].pc = "get" => fetcher'[f].at <= Len(Stations)
    BY <1>4, <1>5, StationFacts
  <2> QED
    BY <1>5, <2>1 DEF StationTypeOK
<1>9. \A g \in Fetchers : fetcher'[g].pc \in {"add", "write"} => fetcher'[g].line # None
  BY <1>5 DEF StationTypeOK
<1>10. ASSUME NEW g \in Fetchers, fetcher'[g].pc = "write"
       PROVE  fetcher'[g].size <= Len(lists'[<<fetcher'[g].line, LineAt(g)'>>].array)
  <2>1. g # f /\ fetcher'[g] = fetcher[g] /\ LineAt(g)' = LineAt(g)
    BY <1>5, <1>10 DEF LineAt, StationAt
  <2>2. g \in Storing /\ fetcher[g].line \in Fetchers /\ fetcher[g].size \in Nat
    BY <1>10, <2>1 DEF Storing, StationTypeOK, FetcherState
  <2>3. PICK p \in Fetchers, l \in Lines : p = fetcher[g].line /\ l = LineAt(g)
    BY <2>2, StationAtType
  <2>4. fetcher[g].size <= Len(lists[<<p, l>>].array)
    BY <1>10, <2>1, <2>3 DEF StationTypeOK
  <2>5. lists[<<p, l>>].array \in Seq(Names) /\ lists'[<<p, l>>].array \in Seq(Names)
    BY <1>2 DEF StationTypeOK
  <2>6. Len(lists'[<<p, l>>].array) >= Len(lists[<<p, l>>].array)
    <3>1. CASE <<p, l>> = <<o, k>>
      BY <1>2, <3>1
    <3>2. CASE <<p, l>> # <<o, k>>
      <4>1. lists'[<<p, l>>] = lists[<<p, l>>]
        BY <1>2, <3>2
      <4> QED
        BY <2>5, <4>1
    <3> QED
      BY <3>1, <3>2
  <2> QED
    BY <2>1, <2>2, <2>3, <2>4, <2>5, <2>6
<1> QED
  BY <1>2, <1>3, <1>6, <1>7, <1>8, <1>9, <1>10 DEF StationTypeOK

LEMMA WriteStationStep ==
  ASSUME StationInv, NEW f \in Fetchers, WriteStation(f)
  PROVE  StationInv' /\ (~mixed' => \A l \in Lines : Keeps(l))
<1> USE DEF StationInv
<1>1. PICK o \in Fetchers, k \in Lines, s \in Names, w \in [array : Seq(Names), size : Nat] :
        Writes(f, o, k, s, w)
  BY WriteStationEffect
<1>2. /\ lists'[<<o, k>>] = w
      /\ \A p \in (Fetchers \X Lines) \ {<<o, k>>} : lists'[p] = lists[p]
      /\ fetcher[f].line = o /\ LineAt(f) = k /\ StationAt(f) = s
      /\ IsWritten(w, lists[<<o, k>>], fetcher[f].size, s)
  BY <1>1 DEF StationTypeOK, Writes
<1>3. UNCHANGED <<context, main, fetched, lineInfo, mixed>>
  BY DEF WriteStation
<1>4. f \in Storing /\ fetcher[f].pc = "write" /\ fetcher[f].at \in 1..Len(Stations)
  BY StationAtType DEF WriteStation, Storing
<1>5. /\ fetcher'[f].at = fetcher[f].at + 1
      /\ fetcher'[f].pc = (IF fetcher[f].at = Len(Stations) THEN "done" ELSE "get")
      /\ \A g \in Fetchers : g # f => fetcher'[g] = fetcher[g]
  BY DEF WriteStation, StationTypeOK, FetcherState
<1>6. LineOf[s] = k /\ Stations[fetcher[f].at] = s
  BY <1>2 DEF LineAt, StationAt
<1>7. StationTypeOK'
  BY WriteStationType
<1>8. OnLine'
  <2> SUFFICES ASSUME NEW p \in Fetchers, NEW l \in Lines,
                      NEW n \in 1..Len(lists'[<<p, l>>].array)
               PROVE  LineOf[lists'[<<p, l>>].array[n]] = l
    BY DEF OnLine
  <2>1. CASE p = o /\ l = k
    <3>1. lists'[<<p, l>>].array = w.array /\ n \in 1..Len(w.array)
      BY <1>2, <2>1
    <3>2. n # w.size => n \in 1..Len(lists[<<o, k>>].array) /\ w.array[n] = lists[<<o, k>>].array[n]
      BY <1>2, <3>1 DEF IsWritten
    <3>3. n = w.size => w.array[n] = s
      BY <1>2 DEF IsWritten
    <3> QED
      BY <1>6, <2>1, <3>1, <3>2, <3>3 DEF OnLine
  <2>2. CASE ~(p = o /\ l = k)
    <3>1. lists'[<<p, l>>] = lists[<<p, l>>]
      BY <1>2, <2>2
    <3> QED
      BY <3>1 DEF OnLine
  <2> QED
    BY <2>1, <2>2
<1>9. \A g \in Storing' : g \in Storing
  BY <1>4, <1>5 DEF Storing
<1>10. Fresh' /\ Alone'
  BY <1>3, <1>5, <1>9 DEF Fresh, Alone
<1>11. Undisturbed'
  <2> SUFFICES ASSUME ~mixed, NEW g \in Fetchers
               PROVE  fetcher'[g].pc \notin {"put", "add", "write"}
    BY <1>3 DEF Undisturbed
  <2>1. CASE g = f
    BY <1>5, <2>1
  <2>2. CASE g # f
    <3>1. g \notin Storing
      BY <1>4, <2>2 DEF Alone
    <3> QED
      BY <1>5, <2>2, <3>1 DEF Storing
  <2> QED
    BY <2>1, <2>2
\* Alone at work, f finds the end of its line where it was.
<1>12. ~mixed => (\A l \in Lines : Keeps(l)) /\ Held(s)'
  <2> SUFFICES ASSUME ~mixed
               PROVE  (\A l \in Lines : Keeps(l)) /\ Held(s)'
    OBVIOUS
  <2>1. lineInfo[k] = o /\ fetcher[f].size = lists[<<o, k>>].size
    BY <1>2, <1>4 DEF Undisturbed
  <2> QED
    BY <1>2, <1>3, <1>6, <1>7, <2>1, GrowsKeeps
<1>13. Stored'
  <2> SUFFICES ASSUME ~mixed, NEW g \in Fetchers, NEW m \in 1..fetcher'[g].at-1
               PROVE  Held(Stations[m])'
    BY <1>3 DEF Stored
  <2>1. CASE g = f /\ m = fetcher[f].at
    BY <1>6, <1>12, <2>1
  <2>2. CASE ~(g = f /\ m = fetcher[f].at)
    <3>1. fetcher[g].at \in 1..Len(Stations)+1
      BY DEF StationTypeOK, FetcherState
    <3>2. m \in 1..fetcher[g].at-1
      BY <1>4, <1>5, <2>2, <3>1
    <3>3. m \in 1..Len(Stations)
      BY <3>1, <3>2, StationFacts
    <3>4. Stations[m] \in Names /\ LineOf[Stations[m]] \in Lines
      BY <3>3, StationFacts
    <3>5. Held(Stations[m])
      BY <3>2 DEF Stored
    <3> QED
      BY <1>7, <1>12, <3>4, <3>5, KeepsHeld
  <2> QED
    BY <2>1, <2>2
<1>14. Answered'
  <2> SUFFICES ASSUME fetched
               PROVE  \E g \in Fetchers : g \in Storing' \/ fetcher'[g].at = Len(Stations) + 1
    BY <1>3 DEF Answered
  <2>1. CASE fetcher[f].at = Len(Stations)
    BY <1>5, <2>1
  <2>2. CASE fetcher[f].at # Len(Stations)
    <3>1. f \in Storing'
      BY <1>5, <2>2 DEF Storing
    <3> QED
      BY <3>1
  <2>3. QED
    BY <2>1, <2>2
<1> QED
  BY <1>3, <1>7, <1>8, <1>10, <1>11, <1>12, <1>13, <1>14

\* A fetcher gets nearer to its answer, or does without one.
LEMMA PcStep ==
  ASSUME StationInv, NEW f \in Fetchers, NEW q \in {"started", "sent", "done"},
         fetcher[f].pc \in {"none", "started", "sent"},
         fetcher' = [fetcher EXCEPT ![f].pc = q],
         UNCHANGED <<context, fetched, lineInfo, lists, mixed>>,
         main' \in {"none", "creating", "created"}
  PROVE  StationInv'
<1>1. StationTypeOK'
  BY PcType DEF StationInv
<1>2. fetcher'[f].pc = q /\ fetcher'[f].at = fetcher[f].at /\ f \notin Storing
  BY DEF StationInv, StationTypeOK, FetcherState, Storing
<1>3. \A g \in Fetchers : g # f => fetcher'[g] = fetcher[g]
  BY DEF StationInv, StationTypeOK
<1> QED
  BY <1>1, <1>2, <1>3, QuietStep

\* Steps that change none of the fetchers' records.
LEMMA MainStep ==
  ASSUME StationInv, context' \in BOOLEAN, main' \in {"none", "creating", "created"},
         UNCHANGED <<fetched, lineInfo, lists, fetcher, mixed>>
  PROVE  StationInv'
<1>1. StationTypeOK'
  BY DEF StationInv, StationTypeOK, LineAt, StationAt
<1> QED
  BY <1>1, QuietStep

\* What the modules above the store do to it.
StationMove == [StationNext]_stationVars \/ \E f \in Fetchers : Start(f)

LEMMA StationStep ==
  StationInv /\ StationMove => StationInv' /\ (fetched' /\ ~mixed' => \A l \in Lines : Keeps(l))
<1> SUFFICES ASSUME StationInv, StationMove
             PROVE  StationInv' /\ (fetched' /\ ~mixed' => \A l \in Lines : Keeps(l))
  OBVIOUS
<1>1. UNCHANGED <<lineInfo, lists>> => \A l \in Lines : Keeps(l)
  <2> SUFFICES ASSUME UNCHANGED <<lineInfo, lists>>, NEW l \in Lines
               PROVE  Keeps(l)
    OBVIOUS
  <2>1. StationsOf(l)' = StationsOf(l)
    BY DEF StationsOf
  <2>2. Len(StationsOf(l)) \in Nat
    BY StationsOfFacts DEF StationInv, LineFacts
  <2> QED
    BY <2>1, <2>2 DEF Keeps
<1>2. context \in BOOLEAN /\ main \in {"none", "creating", "created"}
  BY DEF StationInv, StationTypeOK
<1>3. CASE UNCHANGED stationVars \/ InitMain \/ LeaveMain
  <2>1. /\ UNCHANGED <<fetched, lineInfo, lists, fetcher, mixed>>
        /\ context' \in BOOLEAN /\ main' \in {"none", "creating", "created"}
    BY <1>2, <1>3 DEF stationVars, InitMain, LeaveMain
  <2> QED
    BY <1>1, <2>1, MainStep
<1>4. CASE ProcessDies
  <2>1. fetched' = FALSE
    BY <1>4 DEF ProcessDies, NewProcess
  <2> QED
    BY <1>4, <2>1, ProcessInv
<1>5. ASSUME NEW f \in Fetchers, CreateMain(f) \/ Start(f)
      PROVE  StationInv' /\ \A l \in Lines : Keeps(l)
  <2>1. /\ fetcher[f].pc = "none" /\ fetcher' = [fetcher EXCEPT ![f].pc = "started"]
        /\ UNCHANGED <<context, fetched, lineInfo, lists, mixed>>
        /\ main' \in {"none", "creating", "created"}
    BY <1>5 DEF CreateMain, Start
  <2> QED
    BY <1>1, <2>1, PcStep
<1>6. ASSUME NEW f \in Fetchers, Run(f), context
      PROVE  StationInv' /\ \A l \in Lines : Keeps(l)
  <2>1. /\ fetcher[f].pc = "started" /\ fetcher' = [fetcher EXCEPT ![f].pc = "sent"]
        /\ UNCHANGED <<context, main, fetched, lineInfo, lists, mixed>>
    BY <1>6 DEF Run
  <2> QED
    BY <1>1, <1>2, <2>1, PcStep
<1>7. ASSUME NEW f \in Fetchers, Run(f), ~context
      PROVE  ProcessDies
  BY <1>7 DEF Run
<1>8. ASSUME NEW f \in Fetchers, FetchFails(f)
      PROVE  StationInv' /\ \A l \in Lines : Keeps(l)
  <2>1. /\ fetcher[f].pc = "sent" /\ fetcher' = [fetcher EXCEPT ![f].pc = "done"]
        /\ UNCHANGED <<context, main, fetched, lineInfo, lists, mixed>>
    BY <1>8 DEF FetchFails
  <2> QED
    BY <1>1, <1>2, <2>1, PcStep
<1>9. ASSUME NEW f \in Fetchers, AssignList(f) \/ GetLine(f) \/ ReadSize(f)
      PROVE  StationInv' /\ \A l \in Lines : Keeps(l)
  <2>1. UNCHANGED <<lineInfo, lists>>
    BY <1>9 DEF AssignList, GetLine, ReadSize
  <2> QED
    BY <1>1, <1>9, <2>1, AssignListStep, GetLineStep, ReadSizeStep
<1>10. ASSUME NEW f \in Fetchers, PutLine(f) \/ WriteStation(f)
       PROVE  StationInv' /\ (~mixed' => \A l \in Lines : Keeps(l))
  BY <1>10, PutLineStep, WriteStationStep
<1> QED
  BY <1>3, <1>4, <1>5, <1>6, <1>7, <1>8, <1>9, <1>10
     DEF StationMove, StationNext, FetcherStep

\* What the history and the order remedy do to the store.
LEMMA JourneyMove == [JourneyNext]_journeyVars => StationMove
<1> SUFFICES ASSUME [JourneyNext]_journeyVars
             PROVE  StationMove
  OBVIOUS
<1> USE DEF StationMove
<1>1. CASE UNCHANGED journeyVars
  BY <1>1 DEF journeyVars
<1>2. CASE StoreStep
  BY <1>2 DEF StoreStep, StationNext
<1>3. CASE LeaveHistory
  BY <1>3 DEF LeaveHistory, StationNext
<1>4. CASE Dies
  BY <1>4 DEF Dies, StationNext
<1>5. ASSUME NEW f \in Fetchers, OpenHistory(f)
      PROVE  StationMove
  BY <1>5 DEF OpenHistory, Start, stationVars
<1>6. ASSUME NEW n \in Resumes, Resume(n)
      PROVE  StationMove
  BY <1>6 DEF Resume
<1>7. ASSUME NEW r \in Loads, LoadStep(r)
      PROVE  StationMove
  BY <1>7 DEF LoadStep, LoadFails, ClearData, Convert, CopyRow, Grow, Notify
<1> QED
  BY <1>1, <1>2, <1>3, <1>4, <1>5, <1>6, <1>7 DEF JourneyNext

\* A line at rest has the stations of that line: all have been held, by the
\* fetcher that has been through, and none other was written.
LEMMA Completeness == StationInv => LinesAreComplete
<1> SUFFICES ASSUME StationInv, fetched, Storing = {}, ~mixed, NEW l \in Lines
             PROVE  {StationsOf(l)[n] : n \in 1..Len(StationsOf(l))}
                      = {s \in Names : LineOf[s] = l}
  BY DEF LinesAreComplete
<1>1. ASSUME NEW n \in 1..Len(StationsOf(l))
      PROVE  StationsOf(l)[n] \in Names /\ LineOf[StationsOf(l)[n]] = l
  <2>1. StationTypeOK /\ LineFacts
    BY StationsOfFacts DEF StationInv
  <2>2. StationsOf(l) \in Seq(Names)
    BY <2>1 DEF LineFacts
  <2>3. lineInfo[l] # None
    <3>1. lineInfo[l] = None => Len(StationsOf(l)) = 0
      BY <2>1 DEF LineFacts
    <3> QED
      BY <3>1
  <2>4. PICK o \in Fetchers : o = lineInfo[l]
    BY <2>1, <2>3 DEF LineFacts
  <2>5. /\ n \in 1..Len(lists[<<o, l>>].array)
        /\ StationsOf(l)[n] = lists[<<o, l>>].array[n]
    BY <2>1, <2>3, <2>4 DEF LineFacts
  <2> QED
    BY <2>2, <2>5 DEF StationInv, OnLine
<1>2. ASSUME NEW s \in Names, LineOf[s] = l
      PROVE  \E n \in 1..Len(StationsOf(l)) : StationsOf(l)[n] = s
  <2>1. PICK m \in 1..Len(Stations) : Stations[m] = s
    BY DEF Names
  <2>2. PICK f \in Fetchers : fetcher[f].at = Len(Stations) + 1
    BY DEF StationInv, Answered
  <2>3. m \in 1..fetcher[f].at-1
    BY <2>2, StationFacts
  <2>4. Held(s)
    BY <2>1, <2>3 DEF StationInv, Stored
  <2> QED
    BY <1>2, <2>4 DEF Held
<1> QED
  BY <1>1, <1>2

LEMMA JourneyStations == JourneySpec => []StationInv
<1>1. JourneyInit => StationInv
  BY StationInitInv DEF JourneyInit
<1>2. StationInv /\ [JourneyNext]_journeyVars => StationInv'
  BY JourneyMove, StationStep
<1> QED
  BY <1>1, <1>2, PTL DEF JourneySpec

\* Whenever the stations are there and no fetcher is at work on them, each line
\* has all its stations and no others, if no two fetchers ever were at work at a
\* time: for every answer of the operator (AppStore.setStationList).
THEOREM CompleteLines == JourneySpec => []LinesAreComplete
BY JourneyStations, Completeness, PTL

\* Each step keeps the context where there is a fetcher past its start.
LEMMA ContextStep ==
  StationTypeOK /\ ContextIsThere /\ [JourneyNext]_journeyVars => ContextIsThere'
<1> SUFFICES ASSUME StationTypeOK, ContextIsThere, [JourneyNext]_journeyVars, ~context'
             PROVE  ContextIsThere'
  BY DEF ContextIsThere
<1>1. fetcher \in [Fetchers -> FetcherState]
  BY DEF StationTypeOK
<1>2. CASE UNCHANGED <<context, main, fetcher>>
  BY <1>2 DEF ContextIsThere
<1>3. CASE ProcessDies
  BY <1>3 DEF ProcessDies, NewProcess, NoFetcher, ContextIsThere
<1>4. ASSUME NEW f \in Fetchers, CreateMain(f)
      PROVE  ContextIsThere'
  <2>1. ~context /\ main = "none" /\ main' = "creating"
    BY <1>4 DEF CreateMain
  <2>2. fetcher'[f].pc = "started" /\ \A g \in Fetchers : g # f => fetcher'[g] = fetcher[g]
    BY <1>1, <1>4 DEF CreateMain, FetcherState
  <2>3. \A g \in Fetchers : fetcher[g].pc = "none"
    BY <2>1 DEF ContextIsThere
  <2> QED
    BY <2>1, <2>2, <2>3 DEF ContextIsThere
<1>5. ASSUME NEW f \in Fetchers, Run(f) \/ FetcherStep(f)
      PROVE  ContextIsThere'
  <2>1. context => ProcessDies
    BY <1>5 DEF Run, FetcherStep, FetchFails, AssignList, GetLine, PutLine, ReadSize, WriteStation
  <2>2. ASSUME ~context
        PROVE  ProcessDies
    <3>1. fetcher[f].pc \in {"none", "started"}
      BY <2>2 DEF ContextIsThere
    <3> QED
      BY <1>5, <2>2, <3>1 DEF Run, FetcherStep, FetchFails, AssignList, GetLine, PutLine, ReadSize,
         WriteStation
  <2> QED
    BY <1>3, <2>1, <2>2
<1>6. ASSUME InitMain \/ LeaveMain \/ LeaveHistory \/ \E f \in Fetchers : OpenHistory(f)
      PROVE  FALSE
  BY <1>6 DEF InitMain, LeaveMain, LeaveHistory, OpenHistory, ContextIsThere
<1>7. CASE StoreStep
  BY <1>3, <1>4, <1>5, <1>6, <1>7 DEF StoreStep
<1>8. CASE Dies
  BY <1>3, <1>5, <1>8 DEF Dies
<1>9. ASSUME \/ UNCHANGED journeyVars
             \/ \E n \in Resumes : Resume(n)
             \/ \E r \in Loads : LoadStep(r)
      PROVE  UNCHANGED <<context, main, fetcher>>
  BY <1>9 DEF journeyVars, stationVars, Resume, LoadStep, LoadFails, ClearData, Convert, CopyRow,
     Grow, Notify
<1> QED
  BY <1>2, <1>6, <1>7, <1>8, <1>9 DEF JourneyNext

\* The process is never ended for want of a context but by the first fetcher of a
\* MainActivity that is still being created: with any number of fetchers, from
\* MainActivity and from the journey history (MainActivity.onCreate).
THEOREM ContextWhenFetching == JourneySpec => []ContextIsThere
<1>1. JourneyInit => ContextIsThere
  BY DEF JourneyInit, StationInit, NoFetcher, ContextIsThere
<1>2. StationInv => StationTypeOK
  BY DEF StationInv
<1> QED
  BY <1>1, <1>2, ContextStep, JourneyStations, PTL DEF JourneySpec

\* A station stays at its position in its line's list as long as the process
\* lives and no two fetchers were at work at a time.
THEOREM StationsStay == JourneySpec => PositionsStay
<1>1. StationInv /\ [JourneyNext]_journeyVars =>
        [fetched' /\ ~mixed' =>
           \A l \in Lines :
             /\ Len(StationsOf(l)') >= Len(StationsOf(l))
             /\ \A n \in 1..Len(StationsOf(l)) : StationsOf(l)'[n] = StationsOf(l)[n]]_stationVars
  BY JourneyMove, StationStep DEF Keeps
<1> QED
  BY <1>1, JourneyStations, PTL DEF JourneySpec, PositionsStay
-----------------------------------------------------------------------------
(* The catalogue *)

\* A list that the map does not hold is empty: the line that is given a new one
\* has no stations before it, and none after it.
NewListsEmpty ==
  ~mixed => \A f \in Fetchers, l \in Lines : lineInfo[l] # f => lists[<<f, l>>] = NoStations

Catalogued == [l \in Lines |-> IF mixed THEN <<>> ELSE StationsOf(l)]
Turn == IF mixed \/ Storing = {} THEN 1 ELSE fetcher[CHOOSE f \in Storing : TRUE].at

\* The turn is that of the fetcher at work.
TurnFacts ==
  /\ mixed \in BOOLEAN
  /\ mixed \/ Storing = {} => Turn = 1
  /\ ~mixed => \A f \in Storing : Turn = fetcher[f].at

LEMMA TurnIs == StationInv => TurnFacts
<1> SUFFICES ASSUME StationInv
             PROVE  TurnFacts
  OBVIOUS
<1>1. mixed \in BOOLEAN
  BY DEF StationInv, StationTypeOK
<1>2. mixed \/ Storing = {} => Turn = 1
  BY DEF Turn
<1>3. ASSUME ~mixed, NEW f \in Storing
      PROVE  Turn = fetcher[f].at
  <2>1. \A g \in Storing : g = f
    BY <1>3 DEF StationInv, Alone
  <2>2. (CHOOSE g \in Storing : TRUE) \in Storing
    OBVIOUS
  <2>3. (CHOOSE g \in Storing : TRUE) = f
    BY <2>1, <2>2
  <2> QED
    BY <1>3, <2>3 DEF Turn
<1> QED
  BY <1>1, <1>2, <1>3 DEF TurnFacts

LEMMA TurnIsNext == StationInv' => TurnFacts'
BY TurnIs, PTL

LEMMA SameSequence ==
  ASSUME NEW S, NEW s \in Seq(S), NEW t \in Seq(S), Len(s) = Len(t),
         \A n \in 1..Len(s) : s[n] = t[n]
  PROVE  s = t
OBVIOUS

\* Steps that neither write to a list nor bring a fetcher on its way.
LEMMA CatalogueStays ==
  ASSUME StationInv, StationInv', UNCHANGED <<lineInfo, lists, mixed>>,
         Storing' = Storing, \A f \in Storing : fetcher'[f].at = fetcher[f].at
  PROVE  UNCHANGED <<Catalogued, Turn, mixed>>
<1>1. TurnFacts /\ TurnFacts'
  BY TurnIs, TurnIsNext
<1>2. Turn' = Turn
  BY <1>1 DEF TurnFacts
<1>3. Catalogued' = Catalogued
  BY DEF Catalogued, StationsOf
<1> QED
  BY <1>2, <1>3

LEMMA AssignListCatalogue ==
  ASSUME StationInv, StationInv', NEW f \in Fetchers, AssignList(f)
  PROVE  Catalogue!Spoil \/ UNCHANGED <<Catalogued, Turn, mixed>>
<1>1. /\ fetcher[f].pc = "sent" /\ fetcher' = [fetcher EXCEPT ![f].pc = "get"]
      /\ mixed' = (mixed \/ Storing # {}) /\ UNCHANGED <<lineInfo, lists>>
  BY DEF AssignList
<1>2. TurnFacts /\ TurnFacts'
  BY TurnIs, TurnIsNext
<1>3. fetcher[f].at = 1
  BY <1>1 DEF StationInv, Fresh
<1>4. fetcher'[f].pc = "get" /\ fetcher'[f].at = 1 /\ f \in Storing'
  BY <1>1, <1>3 DEF StationInv, StationTypeOK, FetcherState, Storing
<1>5. CASE mixed
  <2>1. mixed' /\ Turn' = Turn
    BY <1>1, <1>2, <1>5 DEF TurnFacts
  <2>2. Catalogued' = Catalogued
    BY <1>5, <2>1 DEF Catalogued
  <2> QED
    BY <1>1, <1>2, <1>5, <2>1, <2>2 DEF TurnFacts
<1>6. CASE ~mixed /\ Storing # {}
  <2>1. mixed' = TRUE
    BY <1>1, <1>6
  <2> QED
    BY <1>6, <2>1 DEF Catalogue!Spoil
<1>7. CASE ~mixed /\ Storing = {}
  <2>1. mixed' = FALSE /\ mixed = FALSE
    BY <1>1, <1>2, <1>7 DEF TurnFacts
  <2>2. Turn = 1 /\ Turn' = 1
    BY <1>2, <1>4, <1>7, <2>1 DEF TurnFacts
  <2>3. Catalogued' = Catalogued
    BY <1>1, <2>1 DEF Catalogued, StationsOf
  <2> QED
    BY <2>1, <2>2, <2>3
<1> QED
  BY <1>5, <1>6, <1>7

\* The new list is empty.
LEMMA PutLineCatalogue ==
  ASSUME StationInv, StationInv', NewListsEmpty, NEW f \in Fetchers, PutLine(f)
  PROVE  NewListsEmpty' /\ UNCHANGED <<Catalogued, Turn, mixed>>
<1> DEFINE k == LineAt(f)
<1>1. f \in Storing /\ fetcher[f].pc = "put"
  BY DEF PutLine, Storing
<1>2. /\ lineInfo' = [lineInfo EXCEPT ![k] = f]
      /\ fetcher' = [fetcher EXCEPT ![f].line = f, ![f].pc = "add"]
      /\ UNCHANGED <<lists, mixed>>
  BY DEF PutLine
<1>3. k \in Lines
  BY <1>1, StationAtType DEF StationInv
<1> HIDE DEF k
<1>4. lineInfo'[k] = f /\ \A l \in Lines : l # k => lineInfo'[l] = lineInfo[l]
  BY <1>2, <1>3 DEF StationInv, StationTypeOK
<1>5. ~mixed => lineInfo[k] = None
  BY <1>1 DEF StationInv, Undisturbed, k
<1>6. NewListsEmpty'
  <2> SUFFICES ASSUME ~mixed, NEW g \in Fetchers, NEW l \in Lines, lineInfo'[l] # g
               PROVE  lists[<<g, l>>] = NoStations
    BY <1>2 DEF NewListsEmpty
  <2>1. lineInfo[l] # g
    BY <1>4, <1>5, StationAssumption
  <2> QED
    BY <2>1 DEF NewListsEmpty
<1>7. Catalogued' = Catalogued
  <2>1. CASE mixed
    BY <1>2, <2>1 DEF Catalogued
  <2>2. CASE ~mixed
    <3>1. ASSUME NEW l \in Lines
          PROVE  StationsOf(l)' = StationsOf(l)
      <4>1. CASE l = k
        <5>1. lineInfo[l] = None /\ lineInfo'[l] = f /\ f # None
          BY <1>4, <1>5, <2>2, <4>1, StationAssumption
        <5>2. lists[<<f, l>>] = NoStations
          BY <2>2, <5>1 DEF NewListsEmpty
        <5>3. StationsOf(l) = <<>>
          BY <5>1 DEF StationsOf
        <5>4. StationsOf(l)' = SubSeq(<<>>, 1, 0)
          BY <1>2, <5>1, <5>2 DEF StationsOf, NoStations
        <5> QED
          BY <5>3, <5>4
      <4>2. CASE l # k
        BY <1>2, <1>4, <4>2 DEF StationsOf
      <4> QED
        BY <4>1, <4>2
    <3> QED
      BY <1>2, <3>1 DEF Catalogued
  <2> QED
    BY <2>1, <2>2
<1>8. /\ fetcher'[f].pc = "add" /\ fetcher'[f].at = fetcher[f].at
      /\ \A g \in Fetchers : g # f => fetcher'[g] = fetcher[g]
  BY <1>2 DEF StationInv, StationTypeOK, FetcherState
<1>9. Storing' = Storing
  BY <1>1, <1>8 DEF Storing
<1>10. Turn' = Turn
  <2>1. TurnFacts /\ TurnFacts'
    BY TurnIs, TurnIsNext
  <2>2. CASE mixed
    BY <1>2, <2>1, <2>2 DEF TurnFacts
  <2>3. CASE ~mixed
    <3>1. f \in Storing' /\ ~mixed'
      BY <1>1, <1>2, <1>9, <2>3
    <3>2. Turn = fetcher[f].at
      BY <1>1, <2>1, <2>3 DEF TurnFacts
    <3>3. Turn' = fetcher'[f].at
      BY <2>1, <3>1 DEF TurnFacts
    <3> QED
      BY <1>8, <3>2, <3>3
  <2> QED
    BY <2>2, <2>3
<1> QED
  BY <1>2, <1>6, <1>7, <1>10

\* The turn ends: the station it is at comes to the end of its line.
LEMMA WriteStationCatalogue ==
  ASSUME StationInv, StationInv', NewListsEmpty, NEW f \in Fetchers, WriteStation(f)
  PROVE  NewListsEmpty' /\ (Catalogue!Store \/ UNCHANGED <<Catalogued, Turn, mixed>>)
<1>1. PICK o \in Fetchers, k \in Lines, s \in Names, w \in [array : Seq(Names), size : Nat] :
        Writes(f, o, k, s, w)
  BY WriteStationEffect DEF StationInv
<1>2. /\ lists'[<<o, k>>] = w
      /\ \A p \in (Fetchers \X Lines) \ {<<o, k>>} : lists'[p] = lists[p]
      /\ fetcher[f].line = o /\ LineAt(f) = k /\ StationAt(f) = s
      /\ IsWritten(w, lists[<<o, k>>], fetcher[f].size, s)
  BY <1>1 DEF StationInv, StationTypeOK, Writes
<1>3. UNCHANGED <<lineInfo, mixed>>
  BY DEF WriteStation
<1>4. f \in Storing /\ fetcher[f].pc = "write" /\ fetcher[f].at \in 1..Len(Stations)
  BY StationAtType DEF WriteStation, Storing, StationInv
<1>5. /\ fetcher'[f].at = fetcher[f].at + 1
      /\ fetcher'[f].pc = (IF fetcher[f].at = Len(Stations) THEN "done" ELSE "get")
      /\ \A g \in Fetchers : g # f => fetcher'[g] = fetcher[g]
  <2>1. StationTypeOK
    BY DEF StationInv
  <2> QED
    BY <2>1 DEF WriteStation, StationTypeOK, FetcherState
<1>6. LineOf[s] = k /\ Stations[fetcher[f].at] = s
  BY <1>2 DEF LineAt, StationAt
<1>7. TurnFacts /\ TurnFacts'
  BY TurnIs, TurnIsNext
<1>8. CASE mixed
  <2>1. NewListsEmpty'
    BY <1>3, <1>8 DEF NewListsEmpty
  <2>2. Catalogued' = Catalogued
    BY <1>3, <1>8 DEF Catalogued
  <2>3. Turn' = Turn
    BY <1>3, <1>7, <1>8 DEF TurnFacts
  <2> QED
    BY <1>3, <2>1, <2>2, <2>3
<1>9. CASE ~mixed
  <2>1. lineInfo[k] = o /\ fetcher[f].size = lists[<<o, k>>].size
    BY <1>2, <1>4, <1>9 DEF StationInv, Undisturbed
  <2>2. NewListsEmpty'
    <3> SUFFICES ASSUME NEW g \in Fetchers, NEW l \in Lines, lineInfo[l] # g
                 PROVE  lists'[<<g, l>>] = NoStations
      BY <1>3 DEF NewListsEmpty
    <3>1. <<g, l>> # <<o, k>>
      BY <2>1
    <3>2. lists'[<<g, l>>] = lists[<<g, l>>]
      BY <1>2, <3>1
    <3> QED
      BY <1>9, <3>2 DEF NewListsEmpty
  <2>3. LineFacts /\ LineFacts'
    BY StationsOfFacts, StationsOfNext DEF StationInv
  <2>4. StationsOf(k)' = Append(StationsOf(k), s)
    <3> DEFINE old == StationsOf(k)
               new == StationsOf(k)'
               z == lists[<<o, k>>].size
    <3>1. o # None
      BY StationAssumption
    <3>2. /\ old \in Seq(Names) /\ Len(old) = z
          /\ \A n \in 1..z : n \in 1..Len(lists[<<o, k>>].array) /\ old[n] = lists[<<o, k>>].array[n]
      BY <2>1, <2>3, <3>1 DEF LineFacts
    <3>3. /\ new \in Seq(Names) /\ Len(new) = w.size
          /\ \A n \in 1..w.size : n \in 1..Len(w.array) /\ new[n] = w.array[n]
      BY <1>2, <1>3, <2>1, <2>3, <3>1 DEF LineFacts
    <3>4. z \in Nat /\ w.size = z + 1 /\ w.array[w.size] = s
      BY <1>2, <2>1 DEF StationInv, StationTypeOK, IsWritten
    <3>5. ASSUME NEW n \in 1..z
          PROVE  new[n] = old[n]
      <4>1. n \in 1..w.size /\ n # w.size
        BY <3>4
      <4>2. n \in 1..Len(w.array) /\ new[n] = w.array[n]
        BY <3>3, <4>1
      <4>3. w.array[n] = lists[<<o, k>>].array[n]
        BY <1>2, <4>1, <4>2 DEF IsWritten
      <4> QED
        BY <3>2, <4>2, <4>3
    <3>6. new[z + 1] = s
      <4>1. w.size \in 1..w.size
        BY <3>4
      <4>2. new[w.size] = s
        BY <3>3, <3>4, <4>1
      <4> QED
        BY <3>4, <4>2
    <3> HIDE DEF old, new, z
    <3>7. /\ Append(old, s) \in Seq(Names) /\ Len(Append(old, s)) = z + 1
          /\ \A n \in 1..z+1 : Append(old, s)[n] = IF n = z + 1 THEN s ELSE old[n]
      BY <3>2
    <3>8. Len(new) = z + 1 /\ \A n \in 1..z+1 : new[n] = Append(old, s)[n]
      BY <3>3, <3>4, <3>5, <3>6, <3>7
    <3>9. new = Append(old, s)
      BY <3>3, <3>7, <3>8, SameSequence
    <3> QED
      BY <3>9 DEF old, new
  <2>5. ASSUME NEW l \in Lines, l # k
        PROVE  StationsOf(l)' = StationsOf(l)
    <3>1. lineInfo[l] # None => lists'[<<lineInfo[l], l>>] = lists[<<lineInfo[l], l>>]
      BY <1>2, <2>5 DEF StationInv, StationTypeOK
    <3> QED
      BY <1>3, <3>1 DEF StationsOf
  <2>6. Turn = fetcher[f].at
    BY <1>4, <1>7, <1>9 DEF TurnFacts
  <2>7. Turn' = (Turn % Len(Stations)) + 1
    <3>1. CASE fetcher[f].at = Len(Stations)
      <4>1. Storing' = {}
        <5>1. \A g \in Storing : g = f
          BY <1>4, <1>9 DEF StationInv, Alone
        <5> QED
          BY <1>5, <3>1, <5>1 DEF Storing
      <4>2. Turn' = 1
        BY <1>7, <4>1 DEF TurnFacts
      <4>3. Len(Stations) % Len(Stations) = 0
        BY StationFacts
      <4> QED
        BY <2>6, <3>1, <4>2, <4>3
    <3>2. CASE fetcher[f].at # Len(Stations)
      <4>1. f \in Storing' /\ ~mixed'
        BY <1>3, <1>5, <1>9, <3>2 DEF Storing
      <4>2. Turn' = fetcher[f].at + 1
        BY <1>5, <1>7, <4>1 DEF TurnFacts
      <4>3. fetcher[f].at % Len(Stations) = fetcher[f].at
        <5>1. \A n \in Nat \ {0} : \A m \in 0..n-1 : m % n = m
          OBVIOUS
        <5>2. Len(Stations) \in Nat \ {0} /\ fetcher[f].at \in 0..Len(Stations)-1
          BY <1>4, <3>2, StationFacts
        <5> QED
          BY ONLY <5>1, <5>2
      <4> QED
        BY <2>6, <4>2, <4>3
    <3> QED
      BY <3>1, <3>2
  <2>8. Catalogued' = [Catalogued EXCEPT ![LineOf[Stations[Turn]]] = Append(@, Stations[Turn])]
    <3>1. LineOf[Stations[Turn]] = k /\ Stations[Turn] = s
      BY <1>6, <2>6
    <3>2. Catalogued' = [l \in Lines |-> StationsOf(l)'] /\ Catalogued = [l \in Lines |-> StationsOf(l)]
      BY <1>3, <1>9 DEF Catalogued
    <3>3. Catalogued' = [Catalogued EXCEPT ![k] = Append(@, s)]
      BY <2>4, <2>5, <3>2
    <3> QED
      BY <3>1, <3>3
  <2>9. Catalogue!Store
    BY <1>3, <1>9, <2>7, <2>8 DEF Catalogue!Store, Catalogued, Turn
  <2> QED
    BY <2>2, <2>9
<1> QED
  BY <1>8, <1>9

\* Another process.
LEMMA RestartCatalogue ==
  ASSUME ProcessDies
  PROVE  NewListsEmpty' /\ Catalogue!Restart
<1>1. /\ lineInfo' = [l \in Lines |-> None] /\ mixed' = FALSE
      /\ lists' = [p \in Fetchers \X Lines |-> NoStations]
      /\ fetcher' = [f \in Fetchers |-> NoFetcher]
  BY DEF ProcessDies, NewProcess
<1>2. NewListsEmpty'
  BY <1>1 DEF NewListsEmpty
<1>3. Storing' = {}
  BY <1>1 DEF Storing, NoFetcher
<1>4. \A l \in Lines : StationsOf(l)' = <<>>
  BY <1>1 DEF StationsOf
<1>5. Turn' = 1
  BY <1>3 DEF Turn
<1>6. Catalogued' = [l \in Lines |-> <<>>]
  BY <1>4 DEF Catalogued
<1> QED
  BY <1>1, <1>2, <1>5, <1>6 DEF Catalogue!Restart, Catalogued, Turn

LEMMA CatalogueStep ==
  ASSUME StationInv, StationInv', NewListsEmpty, StationMove
  PROVE  NewListsEmpty' /\ (Catalogue!Next \/ UNCHANGED <<Catalogued, Turn, mixed>>)
<1> USE DEF Catalogue!Next
\* Steps of fetchers that are not at work, and of the main screen.
<1>1. ASSUME UNCHANGED <<lineInfo, lists, mixed>>, Storing' = Storing,
             \A f \in Storing : fetcher'[f].at = fetcher[f].at
      PROVE  NewListsEmpty' /\ UNCHANGED <<Catalogued, Turn, mixed>>
  <2>1. NewListsEmpty'
    BY <1>1 DEF NewListsEmpty
  <2> QED
    BY <1>1, <2>1, CatalogueStays
<1>2. CASE UNCHANGED stationVars \/ InitMain \/ LeaveMain
  <2>1. UNCHANGED <<lineInfo, lists, fetcher, mixed>>
    BY <1>2 DEF stationVars, InitMain, LeaveMain
  <2>2. Storing' = Storing
    BY <2>1 DEF Storing
  <2> QED
    BY <1>1, <2>1, <2>2
<1>3. CASE ProcessDies
  BY <1>3, RestartCatalogue
<1>4. ASSUME NEW f \in Fetchers, NEW p, NEW q,
             fetcher[f].pc = p, fetcher'[f].pc = q, fetcher'[f].at = fetcher[f].at,
             \A g \in Fetchers : g # f => fetcher'[g] = fetcher[g],
             p \in {"get", "put", "add", "write"} <=> q \in {"get", "put", "add", "write"},
             UNCHANGED <<lineInfo, lists, mixed>>
      PROVE  NewListsEmpty' /\ UNCHANGED <<Catalogued, Turn, mixed>>
  <2>1. Storing' = Storing
    BY <1>4 DEF Storing
  <2>2. \A g \in Storing : fetcher'[g].at = fetcher[g].at
    BY <1>4 DEF Storing
  <2> QED
    BY <1>1, <1>4, <2>1, <2>2
<1>5. ASSUME NEW f \in Fetchers,
             CreateMain(f) \/ Start(f) \/ (Run(f) /\ context) \/ FetchFails(f)
      PROVE  NewListsEmpty' /\ UNCHANGED <<Catalogued, Turn, mixed>>
  <2>1. PICK q \in {"started", "sent", "done"} : fetcher' = [fetcher EXCEPT ![f].pc = q]
    BY <1>5 DEF CreateMain, Start, Run, FetchFails
  <2>2. fetcher[f].pc \in {"none", "started", "sent"} /\ UNCHANGED <<lineInfo, lists, mixed>>
    BY <1>5 DEF CreateMain, Start, Run, FetchFails
  <2>3. /\ fetcher'[f].pc = q /\ fetcher'[f].at = fetcher[f].at
        /\ \A g \in Fetchers : g # f => fetcher'[g] = fetcher[g]
    BY <2>1 DEF StationInv, StationTypeOK, FetcherState
  <2> QED
    BY <1>4, <2>2, <2>3
<1>6. ASSUME NEW f \in Fetchers, Run(f), ~context
      PROVE  ProcessDies
  BY <1>6 DEF Run
<1>7. ASSUME NEW f \in Fetchers, GetLine(f) \/ ReadSize(f)
      PROVE  NewListsEmpty' /\ UNCHANGED <<Catalogued, Turn, mixed>>
  <2>1. fetcher[f].pc \in {"get", "add"} /\ UNCHANGED <<lineInfo, lists, mixed>>
    BY <1>7 DEF GetLine, ReadSize
  <2>2. fetcher'[f].pc \in {"put", "add", "write"} /\ fetcher'[f].at = fetcher[f].at
    BY <1>7 DEF GetLine, ReadSize, StationInv, StationTypeOK, FetcherState
  <2>3. \A g \in Fetchers : g # f => fetcher'[g] = fetcher[g]
    BY <1>7 DEF GetLine, ReadSize, StationInv, StationTypeOK
  <2> QED
    BY <1>4, <2>1, <2>2, <2>3
<1>8. ASSUME NEW f \in Fetchers, AssignList(f)
      PROVE  NewListsEmpty' /\ (Catalogue!Next \/ UNCHANGED <<Catalogued, Turn, mixed>>)
  <2>1. UNCHANGED <<lineInfo, lists>> /\ (mixed => mixed')
    BY <1>8 DEF AssignList
  <2>2. NewListsEmpty'
    BY <2>1 DEF NewListsEmpty
  <2> QED
    BY <1>8, <2>2, AssignListCatalogue
<1> QED
  BY <1>2, <1>3, <1>5, <1>6, <1>7, <1>8, PutLineCatalogue, WriteStationCatalogue
     DEF StationMove, StationNext, FetcherStep

\* setStationList implements a catalogue that is filled by a station at a step: a
\* reader of the map sees every station once in a pass, in the order of the answer,
\* whatever the threads do between the steps of a turn, unless two passes overlap.
THEOREM StoreIsCatalogue == JourneySpec => ImplementsCatalogue
<1>1. JourneyInit => NewListsEmpty /\ Catalogue!Init
  <2> SUFFICES ASSUME JourneyInit
               PROVE  NewListsEmpty /\ Catalogue!Init
    OBVIOUS
  <2>1. /\ lineInfo = [l \in Lines |-> None] /\ mixed = FALSE
        /\ lists = [p \in Fetchers \X Lines |-> NoStations]
        /\ fetcher = [f \in Fetchers |-> NoFetcher]
    BY DEF JourneyInit, StationInit
  <2>2. NewListsEmpty
    BY <2>1 DEF NewListsEmpty
  <2>3. Storing = {}
    BY <2>1 DEF Storing, NoFetcher
  <2>4. \A l \in Lines : StationsOf(l) = <<>>
    BY <2>1 DEF StationsOf
  <2>5. Turn = 1 /\ Catalogued = [l \in Lines |-> <<>>]
    BY <2>3, <2>4 DEF Turn, Catalogued
  <2> QED
    BY <2>1, <2>2, <2>5 DEF Catalogue!Init, Turn, Catalogued
<1>2. /\ StationInv /\ StationInv' /\ NewListsEmpty /\ [JourneyNext]_journeyVars
      => NewListsEmpty' /\ (Catalogue!Next \/ UNCHANGED <<Catalogued, Turn, mixed>>)
  BY JourneyMove, CatalogueStep
<1>3. StationInv /\ StationInv' /\ NewListsEmpty /\ [JourneyNext]_journeyVars
      => NewListsEmpty' /\ [Catalogue!Next]_<<Catalogued, Turn, mixed>>
  BY <1>2
<1> QED
  BY <1>1, <1>3, JourneyStations, PTL DEF JourneySpec, ImplementsCatalogue, Catalogue!Spec,
     Catalogued, Turn
-----------------------------------------------------------------------------
(* The journey history *)

\* The callback that works alone on the rows cleared them last, and finds none
\* until its own is there; what is there when none works is its answer.
LastAtWork == \A r \in Working : r = last

OneAnswer ==
  IF last = None THEN size = 0 ELSE size = 1 /\ array[1] \in Rows /\ array[1].of = last

OneRow ==
  ~clash =>
    /\ LastAtWork
    /\ Working # {} => size = 0
    /\ \A r \in Loads : load[r] = "grow" => array[1] \in Rows /\ array[1].of = r
    /\ Working = {} => OneAnswer

HistoryTypeOK ==
  /\ array \in [Cap -> Rows \cup {None}]
  /\ size \in Nat /\ clash \in BOOLEAN
  /\ load \in [Loads -> LoadState] /\ last \in Loads \cup {None}

RowsInv == HistoryTypeOK /\ OneRow /\ RowsAreNotified

LEMMA LoadsAreFinite == IsFiniteSet(Loads)
<1>1. IsFiniteSet({"journeys"} \cup {"orders"})
  BY FS_AddElement, FS_Singleton
<1>2. {"journeys"} \cup {"orders"} = {"journeys", "orders"}
  OBVIOUS
<1> QED
  BY <1>1, <1>2, HistoryAssumption, FS_Product DEF Loads

LEMMA CapFacts == ASSUME NEW r \in Loads PROVE 1 \in Cap
<1>1. Cardinality(Loads) \in Nat /\ Cardinality(Loads) # 0
  BY LoadsAreFinite, FS_CardinalityType, FS_EmptySet
<1> QED
  BY <1>1 DEF Cap

\* A list that holds nothing, and no callback at work.
LEMMA NoRows ==
  ASSUME HistoryTypeOK, size = 0, count = 0, last = None, Working = {}
  PROVE  RowsInv
<1>1. \A r \in Loads : load[r] \notin {"convert", "copy", "copyBlank", "grow"}
  BY DEF Working
<1> QED
  BY <1>1 DEF RowsInv, OneRow, OneAnswer, LastAtWork, RowsAreNotified

LEMMA RowsInit == JourneyInit => RowsInv
<1> SUFFICES ASSUME JourneyInit
             PROVE  RowsInv
  OBVIOUS
<1>1. /\ array = [n \in Cap |-> None] /\ size = 0 /\ count = 0
      /\ load = [r \in Loads |-> "none"] /\ last = None /\ clash = FALSE
  BY DEF JourneyInit, HistoryInit
<1>2. HistoryTypeOK
  BY <1>1 DEF HistoryTypeOK, LoadState
<1>3. Working = {}
  BY <1>1 DEF Working
<1> QED
  BY <1>1, <1>2, <1>3, NoRows

\* A new process, or no view of the tab any more.
LEMMA RowsDropped ==
  ASSUME HistoryTypeOK, DropHistory, load' \in [Loads -> {"none", "done"}]
  PROVE  RowsInv'
<1>1. /\ array' = [n \in Cap |-> None] /\ size' = 0 /\ count' = 0
      /\ last' = None /\ clash' = FALSE
  BY DEF DropHistory
<1>2. HistoryTypeOK'
  BY <1>1 DEF HistoryTypeOK, LoadState
<1>3. \A r \in Loads : load'[r] \in {"none", "done"}
  OBVIOUS
<1>4. OneRow'
  BY <1>1, <1>3 DEF OneRow, OneAnswer, LastAtWork, Working
<1> QED
  BY <1>1, <1>2, <1>4 DEF RowsInv, RowsAreNotified

\* Steps that leave the list and its callbacks alone.
LEMMA RowsStay ==
  ASSUME RowsInv, UNCHANGED <<array, size, count, load, last, clash>>
  PROVE  RowsInv'
<1>1. HistoryTypeOK'
  BY DEF RowsInv, HistoryTypeOK
<1>2. OneRow'
  BY DEF RowsInv, OneRow, OneAnswer, LastAtWork, Working
<1>3. RowsAreNotified'
  BY DEF RowsInv, RowsAreNotified, AtRest
<1> QED
  BY <1>1, <1>2, <1>3 DEF RowsInv

\* A step of the callback of r.
LEMMA OneLoad ==
  ASSUME HistoryTypeOK, NEW r \in Loads, NEW q \in LoadState, load' = [load EXCEPT ![r] = q]
  PROVE  /\ load'[r] = q /\ load' \in [Loads -> LoadState]
         /\ \A p \in Loads : p # r => load'[p] = load[p]
BY DEF HistoryTypeOK

\* The callbacks at work stay the same, and so do the rows.
LEMMA SameRows ==
  ASSUME RowsInv, UNCHANGED <<array, size, last, clash>>, Working' = Working,
         \A r \in Loads : load'[r] = "grow" => load[r] = "grow"
  PROVE  OneRow'
BY DEF RowsInv, OneRow, OneAnswer, LastAtWork

LEMMA ResumeRows ==
  ASSUME RowsInv, NEW n \in Resumes, Resume(n)
  PROVE  RowsInv'
<1> DEFINE both == {n} \X {"journeys", "orders"}
<1>1. /\ \A r \in both : load[r] = "none"
      /\ load' = [r \in Loads |-> IF r \in both THEN "sent" ELSE load[r]]
      /\ UNCHANGED <<array, size, count, last, clash>>
  BY DEF Resume
<1>2. both \subseteq Loads
  BY DEF Loads
<1> HIDE DEF both
<1>3. HistoryTypeOK'
  BY <1>1, <1>2 DEF HistoryTypeOK, LoadState, RowsInv
<1>4. \A r \in Loads : load'[r] = IF r \in both THEN "sent" ELSE load[r]
  BY <1>1
<1>5. Working' = Working
  BY <1>1, <1>2, <1>4 DEF Working
<1>6. \A r \in Loads : load'[r] = "grow" => load[r] = "grow"
  BY <1>4
<1>7. OneRow'
  BY <1>1, <1>5, <1>6, SameRows
<1>8. RowsAreNotified'
  <2>1. AtRest' => AtRest
    BY <1>1, <1>4 DEF AtRest
  <2> QED
    BY <1>1, <2>1 DEF RowsInv, RowsAreNotified
<1> QED
  BY <1>3, <1>7, <1>8 DEF RowsInv

\* Steps of a callback that is not at work on the rows.
LEMMA IdleLoadRows ==
  ASSUME RowsInv, NEW r \in Loads, LoadFails(r) \/ Notify(r)
  PROVE  RowsInv'
<1>1. /\ load[r] \in {"sent", "message"} /\ load' = [load EXCEPT ![r] = "done"]
      /\ UNCHANGED <<array, size, last, clash>>
  BY DEF LoadFails, Notify
<1>2. HistoryTypeOK /\ "done" \in LoadState
  BY DEF RowsInv, LoadState
<1>3. /\ load'[r] = "done" /\ load' \in [Loads -> LoadState]
      /\ \A p \in Loads : p # r => load'[p] = load[p]
  BY <1>1, <1>2, OneLoad
<1>4. HistoryTypeOK'
  BY <1>1, <1>3 DEF RowsInv, HistoryTypeOK
<1>5. Working' = Working
  BY <1>1, <1>3 DEF Working
<1>6. \A p \in Loads : load'[p] = "grow" => load[p] = "grow"
  BY <1>1, <1>3
<1>7. OneRow'
  BY <1>1, <1>5, <1>6, SameRows
<1>8. RowsAreNotified'
  <2>1. CASE LoadFails(r)
    <3>1. load[r] = "sent" /\ count' = count
      BY <2>1 DEF LoadFails
    <3>2. AtRest' => AtRest
      BY <1>3, <3>1 DEF AtRest
    <3> QED
      BY <1>1, <3>1, <3>2 DEF RowsInv, RowsAreNotified
  <2>2. CASE Notify(r)
    BY <2>2 DEF Notify, RowsAreNotified
  <2> QED
    BY <2>1, <2>2
<1> QED
  BY <1>4, <1>7, <1>8 DEF RowsInv

\* The list is cleared: its callback is the only one at work, or it clashes.
LEMMA ClearRows ==
  ASSUME RowsInv, NEW r \in Loads, ClearData(r)
  PROVE  RowsInv'
<1>1. /\ load' = [load EXCEPT ![r] = "convert"] /\ size' = 0 /\ last' = r
      /\ array' = [n \in Cap |-> IF n <= size THEN None ELSE array[n]]
      /\ clash' = (clash \/ Working # {})
  BY DEF ClearData
<1>2. HistoryTypeOK /\ "convert" \in LoadState
  BY DEF RowsInv, LoadState
<1>3. /\ load'[r] = "convert" /\ load' \in [Loads -> LoadState]
      /\ \A p \in Loads : p # r => load'[p] = load[p]
  BY <1>1, <1>2, OneLoad
<1>4. HistoryTypeOK'
  BY <1>1, <1>2, <1>3 DEF RowsInv, HistoryTypeOK
<1>5. OneRow'
  <2> SUFFICES ASSUME ~clash'
               PROVE  OneRow'
    BY DEF OneRow
  <2>1. Working = {}
    BY <1>1
  <2>2. \A p \in Loads : p # r => load'[p] \notin {"convert", "copy", "copyBlank", "grow"}
    BY <1>3, <2>1 DEF Working
  <2>3. Working' = {r}
    BY <1>3, <2>2 DEF Working
  <2> QED
    BY <1>1, <1>3, <2>2, <2>3 DEF OneRow, LastAtWork
<1>6. ~AtRest'
  BY <1>3 DEF AtRest
<1> QED
  BY <1>4, <1>5, <1>6 DEF RowsInv, RowsAreNotified

LEMMA ConvertRows ==
  ASSUME RowsInv, NEW r \in Loads, Convert(r)
  PROVE  RowsInv'
<1>1. PICK q \in {"copy", "copyBlank"} : load' = [load EXCEPT ![r] = q]
  BY DEF Convert
<1>2. load[r] = "convert" /\ UNCHANGED <<array, size, count, last, clash>>
  BY DEF Convert
<1>3. HistoryTypeOK /\ q \in LoadState
  BY DEF RowsInv, LoadState
<1>4. /\ load'[r] = q /\ load' \in [Loads -> LoadState]
      /\ \A p \in Loads : p # r => load'[p] = load[p]
  BY <1>1, <1>3, OneLoad
<1>5. HistoryTypeOK'
  BY <1>2, <1>4 DEF RowsInv, HistoryTypeOK
<1>6. Working' = Working
  BY <1>2, <1>4 DEF Working
<1>7. OneRow'
  BY <1>2, <1>4, <1>6, SameRows
<1>8. ~AtRest'
  BY <1>4 DEF AtRest
<1> QED
  BY <1>5, <1>7, <1>8 DEF RowsInv, RowsAreNotified

LEMMA CopyRows ==
  ASSUME RowsInv, NEW r \in Loads, CopyRow(r)
  PROVE  RowsInv'
<1> DEFINE x == [of |-> r, blank |-> load[r] = "copyBlank"]
<1>1. /\ load[r] \in {"copy", "copyBlank"} /\ load' = [load EXCEPT ![r] = "grow"]
      /\ array' = [array EXCEPT ![size + 1] = x]
      /\ UNCHANGED <<size, count, last, clash>>
  BY DEF CopyRow
<1>2. HistoryTypeOK /\ "grow" \in LoadState
  BY DEF RowsInv, LoadState
<1>3. /\ load'[r] = "grow" /\ load' \in [Loads -> LoadState]
      /\ \A p \in Loads : p # r => load'[p] = load[p]
  BY <1>1, <1>2, OneLoad
<1>4. x \in Rows /\ x.of = r
  BY DEF Rows
<1> HIDE DEF x
<1>5. HistoryTypeOK'
  BY <1>1, <1>2, <1>3, <1>4 DEF RowsInv, HistoryTypeOK
<1>6. Working' = Working /\ r \in Working
  BY <1>1, <1>3 DEF Working
<1>7. OneRow'
  <2> SUFFICES ASSUME ~clash
               PROVE  OneRow'
    BY <1>1 DEF OneRow
  <2>1. LastAtWork /\ size = 0
    BY <1>6 DEF RowsInv, OneRow
  <2>2. \A p \in Loads : p # r => load'[p] \notin {"convert", "copy", "copyBlank", "grow"}
    BY <1>3, <1>6, <2>1 DEF Working, LastAtWork
  <2>3. array'[1] = x
    BY <1>1, <1>2, <2>1, CapFacts DEF HistoryTypeOK
  <2>4. LastAtWork'
    BY <1>1, <1>6, <2>1 DEF LastAtWork
  <2> QED
    BY <1>1, <1>4, <1>6, <2>1, <2>2, <2>3, <2>4 DEF OneRow
<1>8. ~AtRest'
  BY <1>3 DEF AtRest
<1> QED
  BY <1>5, <1>7, <1>8 DEF RowsInv, RowsAreNotified

LEMMA GrowRows ==
  ASSUME RowsInv, NEW r \in Loads, Grow(r)
  PROVE  RowsInv'
<1>1. /\ load[r] = "grow" /\ load' = [load EXCEPT ![r] = "message"] /\ size' = size + 1
      /\ UNCHANGED <<array, count, last, clash>>
  BY DEF Grow
<1>2. HistoryTypeOK /\ "message" \in LoadState
  BY DEF RowsInv, LoadState
<1>3. /\ load'[r] = "message" /\ load' \in [Loads -> LoadState]
      /\ \A p \in Loads : p # r => load'[p] = load[p]
  BY <1>1, <1>2, OneLoad
<1>4. HistoryTypeOK'
  BY <1>1, <1>2, <1>3 DEF RowsInv, HistoryTypeOK
<1>5. OneRow'
  <2> SUFFICES ASSUME ~clash
               PROVE  OneRow'
    BY <1>1 DEF OneRow
  <2>1. r \in Working
    BY <1>1 DEF Working
  <2>2. LastAtWork /\ size = 0 /\ r = last
    BY <2>1 DEF RowsInv, OneRow, LastAtWork
  <2>3. \A p \in Loads : load'[p] \notin {"convert", "copy", "copyBlank", "grow"}
    BY <1>3, <2>1, <2>2 DEF Working, LastAtWork
  <2>4. Working' = {}
    BY <2>3 DEF Working
  <2>5. array[1] \in Rows /\ array[1].of = last /\ last # None
    BY <1>1, <2>2, HistoryAssumption DEF RowsInv, OneRow
  <2>6. OneAnswer'
    BY <1>1, <2>2, <2>5 DEF OneAnswer
  <2> QED
    BY <2>3, <2>4, <2>6 DEF OneRow, LastAtWork
<1>6. ~AtRest'
  BY <1>3 DEF AtRest
<1> QED
  BY <1>4, <1>5, <1>6 DEF RowsInv, RowsAreNotified

LEMMA StoreStepFacts ==
  ASSUME StoreStep
  PROVE  UNCHANGED historyVars /\ fetched' \in {fetched, TRUE} /\ (~mixed' => ~mixed)
BY DEF StoreStep, InitMain, CreateMain, Run, FetcherStep, FetchFails, AssignList, GetLine,
       PutLine, ReadSize, WriteStation

LEMMA RowsNext == RowsInv /\ [JourneyNext]_journeyVars => RowsInv'
<1> SUFFICES ASSUME RowsInv, [JourneyNext]_journeyVars
             PROVE  RowsInv'
  OBVIOUS
<1>1. HistoryTypeOK
  BY DEF RowsInv
<1>2. CASE UNCHANGED journeyVars
  BY <1>2, RowsStay DEF journeyVars, historyVars
<1>3. CASE StoreStep
  BY <1>3, StoreStepFacts, RowsStay DEF historyVars
<1>4. CASE LeaveHistory
  <2>1. DropHistory /\ load' = [r \in Loads |-> IF load[r] = "none" THEN "none" ELSE "done"]
    BY <1>4 DEF LeaveHistory
  <2>2. load' \in [Loads -> {"none", "done"}]
    BY <2>1
  <2> QED
    BY <1>1, <2>1, <2>2, RowsDropped
<1>5. CASE Dies
  <2>1. DropHistory /\ load' = [r \in Loads |-> "none"]
    BY <1>5 DEF Dies, HistoryDies
  <2>2. load' \in [Loads -> {"none", "done"}]
    BY <2>1
  <2> QED
    BY <1>1, <2>1, <2>2, RowsDropped
<1>6. ASSUME NEW f \in Fetchers, OpenHistory(f)
      PROVE  RowsInv'
  BY <1>6, RowsStay DEF OpenHistory
<1>7. ASSUME NEW n \in Resumes, Resume(n)
      PROVE  RowsInv'
  BY <1>7, ResumeRows
<1>8. ASSUME NEW r \in Loads, LoadStep(r)
      PROVE  RowsInv'
  BY <1>8, IdleLoadRows, ClearRows, ConvertRows, CopyRows, GrowRows DEF LoadStep
<1> QED
  BY <1>2, <1>3, <1>4, <1>5, <1>6, <1>7, <1>8 DEF JourneyNext

LEMMA JourneyRows == JourneySpec => []RowsInv
BY RowsInit, RowsNext, PTL DEF JourneySpec

\* Once every callback and its message are through, the ListView has been told
\* the size the list has, however many loads there are and however their
\* callbacks ran into each other (FragmentJourneyHistory.onResume).
THEOREM ViewIsNotified == JourneySpec => []RowsAreNotified
<1>1. RowsInv => RowsAreNotified
  BY DEF RowsInv
<1> QED
  BY <1>1, JourneyRows, PTL

\* And if none did, the list is all of the answer to one request, the one answered
\* last, whatever rows of it could not be converted.
THEOREM ListIsOneAnswer == JourneySpec => []RowsAreOneAnswer
<1>1. RowsInv => RowsAreOneAnswer
  <2> SUFFICES ASSUME RowsInv, AtRest
               PROVE  RowsAreOneAnswer
    BY DEF RowsAreOneAnswer
  <2>1. Working = {}
    BY DEF Working, AtRest
  <2> QED
    BY <2>1 DEF RowsInv, OneRow, OneAnswer, RowsAreOneAnswer
<1> QED
  BY <1>1, JourneyRows, PTL
-----------------------------------------------------------------------------
\* The callbacks that have added their row.
Past == {r \in Loads : load[r] \in {"message", "done"}}

\* Each has added one, and none has a row in a list that was cleared since:
\* neither the list nor what the view was told of is longer.
Counted ==
  /\ history \in BOOLEAN
  /\ size \in Nat /\ count \in Nat
  /\ size <= Cardinality(Past) /\ count <= Cardinality(Past)

LEMMA PastFacts ==
  /\ IsFiniteSet(Past) /\ Cardinality(Past) \in Nat
  /\ Cardinality(Loads) \in Nat /\ Cardinality(Past) <= Cardinality(Loads)
<1>1. Past \subseteq Loads
  BY DEF Past
<1> QED
  BY <1>1, LoadsAreFinite, FS_Subset, FS_CardinalityType

\* Rows are none the more, and no callback that is through begins again.
LEMMA CountStays ==
  ASSUME Counted, size' \in {0, size}, count' \in {count, size}, history' \in BOOLEAN,
         \A r \in Loads : load[r] \in {"message", "done"} => load'[r] \in {"message", "done"}
  PROVE  Counted'
<1>1. Past \subseteq Past' /\ Past' \subseteq Loads
  BY DEF Past
<1>2. IsFiniteSet(Past') /\ Cardinality(Past') \in Nat
  BY <1>1, LoadsAreFinite, FS_Subset, FS_CardinalityType
<1>3. Cardinality(Past) <= Cardinality(Past')
  BY <1>1, <1>2, FS_Subset
<1>4. size' \in Nat /\ count' \in Nat /\ Cardinality(Past) \in Nat
  BY PastFacts DEF Counted
<1>5. size' <= Cardinality(Past) /\ count' <= Cardinality(Past)
  BY <1>4 DEF Counted
<1>6. size' <= Cardinality(Past') /\ count' <= Cardinality(Past')
  BY <1>2, <1>3, <1>4, <1>5
<1> QED
  BY <1>4, <1>6, Zenon DEF Counted

\* A list without rows.
LEMMA NothingToCount ==
  ASSUME DropHistory
  PROVE  Counted'
<1>1. size' = 0 /\ count' = 0 /\ history' \in BOOLEAN
  BY DEF DropHistory
<1>2. Past' \subseteq Loads
  BY DEF Past
<1>3. Cardinality(Past') \in Nat
  BY <1>2, LoadsAreFinite, FS_Subset, FS_CardinalityType
<1>4. size' \in Nat /\ count' \in Nat /\ 0 <= Cardinality(Past')
  BY <1>1, <1>3
<1> QED
  BY <1>1, <1>4, Zenon DEF Counted

LEMMA GrowCounts ==
  ASSUME RowsInv, Counted, NEW r \in Loads, Grow(r)
  PROVE  Counted'
<1>1. /\ load[r] = "grow" /\ load' = [load EXCEPT ![r] = "message"] /\ size' = size + 1
      /\ UNCHANGED <<history, count>>
  BY DEF Grow
<1>2. load'[r] = "message" /\ \A p \in Loads : p # r => load'[p] = load[p]
  BY <1>1, OneLoad DEF RowsInv, LoadState
<1>3. r \notin Past /\ Past' = Past \cup {r}
  BY <1>1, <1>2 DEF Past
<1>4. Cardinality(Past') = Cardinality(Past) + 1
  BY <1>3, PastFacts, FS_AddElement
<1> QED
  BY <1>1, <1>4, PastFacts DEF Counted

LEMMA CountNext == RowsInv /\ Counted /\ [JourneyNext]_journeyVars => Counted'
<1> SUFFICES ASSUME RowsInv, Counted, [JourneyNext]_journeyVars
             PROVE  Counted'
  OBVIOUS
<1>1. history \in BOOLEAN /\ HistoryTypeOK
  BY DEF Counted, RowsInv
<1>2. CASE UNCHANGED historyVars
  BY <1>1, <1>2, CountStays DEF historyVars
<1>3. CASE LeaveHistory \/ Dies
  BY <1>3, NothingToCount DEF LeaveHistory, Dies, HistoryDies
<1>4. ASSUME NEW f \in Fetchers, OpenHistory(f)
      PROVE  Counted'
  BY <1>1, <1>4, CountStays DEF OpenHistory
<1>5. ASSUME NEW n \in Resumes, Resume(n)
      PROVE  Counted'
  <2>1. \A r \in Loads : load[r] \in {"message", "done"} => load'[r] = load[r]
    BY <1>5 DEF Resume
  <2> QED
    BY <1>1, <1>5, <2>1, CountStays DEF Resume
<1>6. ASSUME NEW r \in Loads, LoadStep(r)
      PROVE  Counted'
  <2>1. CASE Grow(r)
    BY <2>1, GrowCounts
  <2>2. CASE ~Grow(r)
    <3>1. PICK q \in LoadState \ {"none"} :
            /\ load' = [load EXCEPT ![r] = q]
            /\ load[r] = "message" => q = "done"
            /\ load[r] # "done"
      BY <1>6, <2>2 DEF LoadStep, LoadFails, ClearData, Convert, CopyRow, Notify, LoadState
    <3>2. \A p \in Loads : load[p] \in {"message", "done"} => load'[p] \in {"message", "done"}
      BY <1>1, <3>1, OneLoad
    <3>3. size' \in {0, size} /\ count' \in {count, size} /\ history' = history
      BY <1>6, <2>2 DEF LoadStep, LoadFails, ClearData, Convert, CopyRow, Notify
    <3> QED
      BY <1>1, <3>2, <3>3, CountStays
  <2> QED
    BY <2>1, <2>2
<1>7. CASE StoreStep
  BY <1>2, <1>7, StoreStepFacts
<1>8. CASE UNCHANGED journeyVars
  BY <1>2, <1>8 DEF journeyVars
<1> QED
  BY <1>3, <1>4, <1>5, <1>6, <1>7, <1>8 DEF JourneyNext

LEMMA JourneyCounts == JourneySpec => []Counted
<1>1. JourneyInit => Counted
  <2> SUFFICES ASSUME JourneyInit
               PROVE  Counted
    OBVIOUS
  <2>1. size = 0 /\ count = 0 /\ history \in BOOLEAN
    BY DEF JourneyInit, HistoryInit
  <2>2. Cardinality(Past) \in Nat /\ 0 <= Cardinality(Past)
    BY PastFacts
  <2> QED
    BY <2>1, <2>2, Zenon DEF Counted
<1> QED
  BY <1>1, CountNext, JourneyRows, PTL DEF JourneySpec

\* The store and the history keep to their types: the list has at most a row
\* for each load, however their callbacks run into each other.
THEOREM JourneyTypeCorrect == JourneySpec => []JourneyTypeOK
<1>1. StationInv /\ RowsInv /\ Counted => JourneyTypeOK
  <2> SUFFICES ASSUME StationInv, RowsInv, Counted
               PROVE  JourneyTypeOK
    OBVIOUS
  <2>1. size \in 0..Cardinality(Loads) /\ count \in 0..Cardinality(Loads)
    BY PastFacts DEF Counted
  <2> QED
    BY <2>1 DEF StationInv, RowsInv, HistoryTypeOK, Counted, JourneyTypeOK
<1> QED
  BY <1>1, JourneyStations, JourneyRows, JourneyCounts, PTL
-----------------------------------------------------------------------------
(* The order remedy *)

\* A remedy does nothing to the history that JourneyHistory does not describe:
\* what holds of the history holds beneath a remedy.
THEOREM RemedyImplementsHistory == OrderSpec => JourneySpec
<1>1. OrderInit => JourneyInit
  BY DEF OrderInit
<1>2. [OrderNext]_orderVars => [JourneyNext]_journeyVars
  <2>1. JourneyStep => JourneyNext
    BY DEF JourneyStep, JourneyNext
  <2>2. Dies \/ (ProcessDies /\ HistoryDies) => JourneyNext
    BY DEF Dies, JourneyNext
  <2>3. \A p \in Payments : ReportNowhere(p) => ProcessDies /\ HistoryDies
    BY DEF ReportNowhere
  <2>4. ConfirmNothing => ProcessDies /\ HistoryDies
    BY DEF ConfirmNothing
  <2>5. ASSUME NEW p \in Payments,
               \/ ConfirmStation(p) \/ PaymentFails(p) \/ PaymentAnswered(p)
               \/ ReportPayment(p)
        PROVE  UNCHANGED journeyVars
    BY <2>5 DEF ConfirmStation, PaymentFails, PaymentAnswered, ReportPayment
  <2>6. CloseLine \/ CancelStation => UNCHANGED journeyVars
    BY DEF CloseLine, CancelStation
  <2>7. \A l \in Lines : OpenLine(l) => UNCHANGED journeyVars
    BY DEF OpenLine
  <2>8. \A n \in 1..2 * Len(Stations) : ClickStation(n) => UNCHANGED journeyVars
    BY DEF ClickStation
  <2>9. UNCHANGED orderVars => UNCHANGED journeyVars
    BY DEF orderVars
  <2> QED
    BY <2>1, <2>2, <2>3, <2>4, <2>5, <2>6, <2>7, <2>8, <2>9 DEF OrderNext
<1> QED
  BY <1>1, <1>2, PTL DEF OrderSpec, JourneySpec

\* So a page of stations stands on lists of which all that was proved of the store
\* and the history is true, with payments and their crashes going on beside them.
THEOREM HistoryBeneathRemedy ==
  OrderSpec => /\ []LinesAreComplete /\ PositionsStay /\ ImplementsCatalogue
               /\ []RowsAreNotified /\ []RowsAreOneAnswer
               /\ []ContextIsThere /\ []JourneyTypeOK
BY RemedyImplementsHistory, CompleteLines, StationsStay, StoreIsCatalogue, ViewIsNotified,
   ListIsOneAnswer, ContextWhenFetching, JourneyTypeCorrect, PTL

PaymentState == [pc : {"none", "sent", "message", "done"}, line : Lines \cup {None},
                 station : Names \cup {None}, position : Nat]

RemedyTypeOK ==
  /\ page # None => page \in [line : Lines, drawn : Seq(Names), order : BOOLEAN]
  /\ confirm # None => page # None /\ confirm \in [station : Names, position : Nat]
  /\ payment \in [Payments -> PaymentState]

\* The stations are there while a page is, and a call's page is the one there is.
PageIsThere ==
  /\ page # None => fetched
  /\ \A p \in Payments : payment[p].line # None => page # None /\ payment[p].line = page.line

\* What was drawn, clicked and sent is still at its position in its line.
AtItsPosition ==
  ~mixed =>
    /\ \A l \in Lines : page # None /\ page.line = l =>
         /\ Len(page.drawn) <= Len(StationsOf(l))
         /\ \A n \in 1..Len(page.drawn) : StationsOf(l)[n] = page.drawn[n]
    /\ confirm # None =>
         /\ confirm.position \in 1..Len(page.drawn)
         /\ confirm.station = page.drawn[confirm.position]
    /\ \A p \in Payments, l \in Lines : payment[p].line # None /\ payment[p].line = l =>
         /\ payment[p].position \in 1..Len(StationsOf(l))
         /\ payment[p].station = StationsOf(l)[payment[p].position]
    /\ reported # None => reported.named = reported.sent

RemedyInv == StationInv /\ RemedyTypeOK /\ PageIsThere /\ AtItsPosition

\* A process that begins.
LEMMA RemedyStarts ==
  ASSUME StationInv', RemedyDies
  PROVE  RemedyInv'
<1>1. /\ page' = None /\ confirm' = None /\ reported' = None
      /\ payment' = [p \in Payments |-> NoPayment]
  BY DEF RemedyDies
<1>2. NoPayment \in PaymentState /\ NoPayment.line = None
  BY DEF NoPayment, PaymentState
<1>3. RemedyTypeOK' /\ \A p \in Payments : payment'[p].line = None
  BY <1>1, <1>2 DEF RemedyTypeOK
<1> QED
  BY <1>1, <1>3 DEF RemedyInv, PageIsThere, AtItsPosition

LEMMA RemedyAtStart == OrderInit => RemedyInv
<1> SUFFICES ASSUME OrderInit
             PROVE  RemedyInv
  OBVIOUS
<1>1. StationInv
  BY StationInitInv DEF OrderInit, JourneyInit
<1>2. /\ page = None /\ confirm = None /\ reported = None
      /\ payment = [p \in Payments |-> NoPayment]
  BY DEF OrderInit, RemedyInit
<1>3. NoPayment \in PaymentState /\ NoPayment.line = None
  BY DEF NoPayment, PaymentState
<1>4. RemedyTypeOK /\ \A p \in Payments : payment[p].line = None
  BY <1>2, <1>3 DEF RemedyTypeOK
<1> QED
  BY <1>1, <1>2, <1>4 DEF RemedyInv, PageIsThere, AtItsPosition

\* Stations may be added while a page is there; they are added behind.
LEMMA JourneyStepRemedy == ASSUME RemedyInv, JourneyStep PROVE RemedyInv'
<1>1. StationMove /\ UNCHANGED remedyVars
  <2>1. JourneyNext /\ UNCHANGED remedyVars
    BY DEF JourneyStep, JourneyNext
  <2> QED
    BY <2>1, JourneyMove
<1>2. StationInv' /\ (fetched' /\ ~mixed' => \A l \in Lines : Keeps(l))
  BY <1>1, StationStep DEF RemedyInv
<1>3. (fetched => fetched') /\ (~mixed' => ~mixed)
  <2> USE DEF stationVars
  <2>1. ASSUME NEW f \in Fetchers, OpenHistory(f)
        PROVE  (fetched => fetched') /\ (~mixed' => ~mixed)
    BY <2>1 DEF OpenHistory
  <2>2. ASSUME NEW n \in Resumes, Resume(n)
        PROVE  (fetched => fetched') /\ (~mixed' => ~mixed)
    BY <2>2 DEF Resume, stationVars
  <2>3. ASSUME NEW r \in Loads, LoadStep(r)
        PROVE  (fetched => fetched') /\ (~mixed' => ~mixed)
    BY <2>3 DEF LoadStep, LoadFails, ClearData, Convert, CopyRow, Grow, Notify, stationVars
  <2>4. LeaveHistory => (fetched => fetched') /\ (~mixed' => ~mixed)
    BY DEF LeaveHistory, LeaveMain
  <2>5. StoreStep => (fetched => fetched') /\ (~mixed' => ~mixed)
    BY StoreStepFacts
  <2> QED
    BY <2>1, <2>2, <2>3, <2>4, <2>5 DEF JourneyStep
<1>4. /\ page' = page /\ confirm' = confirm /\ payment' = payment /\ reported' = reported
  BY <1>1 DEF remedyVars
<1>5. RemedyTypeOK' /\ PageIsThere'
  BY <1>3, <1>4 DEF RemedyInv, RemedyTypeOK, PageIsThere
<1>6. AtItsPosition'
  <2> SUFFICES ASSUME ~mixed'
               PROVE  AtItsPosition'
    BY DEF AtItsPosition
  <2>1. \A l \in Lines : page # None =>
          /\ Len(StationsOf(l)') >= Len(StationsOf(l))
          /\ \A n \in 1..Len(StationsOf(l)) : StationsOf(l)'[n] = StationsOf(l)[n]
    BY <1>2, <1>3 DEF Keeps, RemedyInv, PageIsThere
  <2>2. \A l \in Lines : Len(StationsOf(l)) \in Nat /\ Len(StationsOf(l)') \in Nat
    <3>1. LineFacts /\ LineFacts'
      BY <1>2, StationsOfFacts, StationsOfNext DEF RemedyInv, StationInv
    <3> QED
      BY <3>1 DEF LineFacts
  <2>3. ASSUME NEW l \in Lines, page # None, page.line = l
        PROVE  /\ Len(page.drawn) <= Len(StationsOf(l)')
               /\ \A n \in 1..Len(page.drawn) : StationsOf(l)'[n] = page.drawn[n]
    <3>1. Len(page.drawn) \in Nat
      BY <2>3 DEF RemedyInv, RemedyTypeOK
    <3>2. /\ Len(page.drawn) <= Len(StationsOf(l))
          /\ \A n \in 1..Len(page.drawn) : StationsOf(l)[n] = page.drawn[n]
      BY <1>3, <2>3 DEF RemedyInv, AtItsPosition
    <3> QED
      BY <2>1, <2>2, <2>3, <3>1, <3>2
  <2>4. ASSUME NEW p \in Payments, NEW l \in Lines,
               payment[p].line # None, payment[p].line = l
        PROVE  /\ payment[p].position \in 1..Len(StationsOf(l)')
               /\ payment[p].station = StationsOf(l)'[payment[p].position]
    <3>1. page # None
      BY <2>4 DEF RemedyInv, PageIsThere
    <3>2. /\ payment[p].position \in 1..Len(StationsOf(l))
          /\ payment[p].station = StationsOf(l)[payment[p].position]
      BY <1>3, <2>4 DEF RemedyInv, AtItsPosition
    <3> QED
      BY <2>1, <2>2, <3>1, <3>2
  <2>5. /\ confirm # None =>
             /\ confirm.position \in 1..Len(page.drawn)
             /\ confirm.station = page.drawn[confirm.position]
        /\ reported # None => reported.named = reported.sent
    BY <1>3 DEF RemedyInv, AtItsPosition
  <2> QED
    BY <1>4, <2>3, <2>4, <2>5 DEF AtItsPosition
<1> QED
  BY <1>2, <1>5, <1>6 DEF RemedyInv

\* The steps of the page leave the stations alone.
LEMMA SameStations ==
  ASSUME StationInv, UNCHANGED journeyVars
  PROVE  /\ StationInv' /\ fetched' = fetched /\ mixed' = mixed
         /\ \A l \in Lines : StationsOf(l)' = StationsOf(l)
<1>1. UNCHANGED stationVars
  BY DEF journeyVars
<1>2. StationInv'
  BY <1>1, StationStep DEF StationMove
<1> QED
  BY <1>1, <1>2 DEF stationVars, StationsOf

LEMMA OpenLineStep == ASSUME RemedyInv, NEW l \in Lines, OpenLine(l) PROVE RemedyInv'
<1>1. PICK q \in BOOLEAN : page' = [line |-> l, drawn |-> StationsOf(l), order |-> q]
  BY DEF OpenLine
<1>2. /\ page = None /\ fetched /\ UNCHANGED <<journeyVars, confirm, payment, reported>>
  BY DEF OpenLine
<1>3. /\ StationInv' /\ fetched' = fetched /\ mixed' = mixed
      /\ \A k \in Lines : StationsOf(k)' = StationsOf(k)
  BY <1>2, SameStations DEF RemedyInv
<1>4. StationsOf(l) \in Seq(Names)
  BY StationsOfFacts DEF RemedyInv, StationInv, LineFacts
<1>5. confirm = None /\ \A p \in Payments : payment[p].line = None
  BY <1>2 DEF RemedyInv, RemedyTypeOK, PageIsThere
<1>6. page'.line = l /\ page'.drawn = StationsOf(l)
  BY <1>1
<1>7. RemedyTypeOK'
  BY <1>1, <1>2, <1>4, <1>5 DEF RemedyInv, RemedyTypeOK
<1>8. PageIsThere'
  BY <1>2, <1>3, <1>5 DEF PageIsThere
<1>9. AtItsPosition'
  BY <1>2, <1>3, <1>4, <1>5, <1>6 DEF RemedyInv, AtItsPosition
<1> QED
  BY <1>3, <1>7, <1>8, <1>9 DEF RemedyInv

LEMMA CloseLineStep == ASSUME RemedyInv, CloseLine PROVE RemedyInv'
<1>1. /\ page' = None /\ confirm' = None
      /\ payment' = [p \in Payments |-> [payment[p] EXCEPT !.line = None]]
      /\ UNCHANGED <<journeyVars, reported>>
  BY DEF CloseLine
<1>2. StationInv' /\ mixed' = mixed
  BY <1>1, SameStations DEF RemedyInv
<1>3. \A p \in Payments : payment'[p] \in PaymentState /\ payment'[p].line = None
  BY <1>1 DEF RemedyInv, RemedyTypeOK, PaymentState
<1>4. payment' \in [Payments -> PaymentState]
  BY <1>1, <1>3
<1> QED
  BY <1>1, <1>2, <1>3, <1>4 DEF RemedyInv, RemedyTypeOK, PageIsThere, AtItsPosition

LEMMA ClickStationStep == ASSUME RemedyInv, NEW n, ClickStation(n) PROVE RemedyInv'
<1>1. PICK l \in Lines : page.line = l
  BY DEF ClickStation, RemedyInv, RemedyTypeOK
<1>2. /\ page # None /\ n \in 1..Len(page.drawn)
      /\ confirm' = [station |-> StationsOf(l)[n], position |-> n]
      /\ UNCHANGED <<journeyVars, page, payment, reported>>
      /\ n <= Len(StationsOf(l))
  BY <1>1 DEF ClickStation
<1>3. /\ StationInv' /\ fetched' = fetched /\ mixed' = mixed
      /\ \A k \in Lines : StationsOf(k)' = StationsOf(k)
  BY <1>2, SameStations DEF RemedyInv
<1>4. StationsOf(l) \in Seq(Names)
  BY StationsOfFacts DEF RemedyInv, StationInv, LineFacts
<1>5. StationsOf(l)[n] \in Names /\ n \in Nat
  BY <1>2, <1>4
<1>6. confirm'.station = StationsOf(l)[n] /\ confirm'.position = n
  BY <1>2
<1>7. RemedyTypeOK'
  BY <1>2, <1>5 DEF RemedyInv, RemedyTypeOK
<1>8. PageIsThere'
  BY <1>2, <1>3 DEF RemedyInv, PageIsThere
<1>9. ~mixed => page.drawn[n] = StationsOf(l)[n]
  BY <1>1, <1>2 DEF RemedyInv, AtItsPosition
<1>10. AtItsPosition'
  BY <1>2, <1>3, <1>6, <1>9 DEF RemedyInv, AtItsPosition
<1> QED
  BY <1>3, <1>7, <1>8, <1>10 DEF RemedyInv

LEMMA CancelStationStep == ASSUME RemedyInv, CancelStation PROVE RemedyInv'
<1>1. confirm' = None /\ UNCHANGED <<journeyVars, page, payment, reported>>
  BY DEF CancelStation
<1>2. /\ StationInv' /\ fetched' = fetched /\ mixed' = mixed
      /\ \A k \in Lines : StationsOf(k)' = StationsOf(k)
  BY <1>1, SameStations DEF RemedyInv
<1> QED
  BY <1>1, <1>2 DEF RemedyInv, RemedyTypeOK, PageIsThere, AtItsPosition

LEMMA ConfirmStationStep ==
  ASSUME RemedyInv, NEW p \in Payments, ConfirmStation(p)
  PROVE  RemedyInv'
<1>1. /\ confirm # None /\ confirm' = None
      /\ payment' = [payment EXCEPT ![p] =
           [pc |-> "sent", line |-> page.line, station |-> confirm.station,
            position |-> confirm.position]]
      /\ UNCHANGED <<journeyVars, page, reported>>
  BY DEF ConfirmStation
<1>2. /\ StationInv' /\ fetched' = fetched /\ mixed' = mixed
      /\ \A k \in Lines : StationsOf(k)' = StationsOf(k)
  BY <1>1, SameStations DEF RemedyInv
<1>3. /\ page # None /\ confirm \in [station : Names, position : Nat]
      /\ page \in [line : Lines, drawn : Seq(Names), order : BOOLEAN]
  BY <1>1 DEF RemedyInv, RemedyTypeOK
<1>4. PICK l \in Lines, s \in Names, n \in Nat :
        page.line = l /\ confirm.station = s /\ confirm.position = n
  BY <1>3
<1>5. /\ payment'[p] = [pc |-> "sent", line |-> l, station |-> s, position |-> n]
      /\ \A q \in Payments : q # p => payment'[q] = payment[q]
      /\ payment' \in [Payments -> PaymentState]
  BY <1>1, <1>4 DEF RemedyInv, RemedyTypeOK, PaymentState
<1>6. payment'[p].line = l /\ payment'[p].station = s /\ payment'[p].position = n
  BY <1>5
<1>7. RemedyTypeOK'
  BY <1>1, <1>5 DEF RemedyInv, RemedyTypeOK
<1>8. PageIsThere'
  BY <1>1, <1>2, <1>3, <1>4, <1>5, <1>6 DEF RemedyInv, PageIsThere
<1>9. ~mixed => n \in 1..Len(StationsOf(l)) /\ s = StationsOf(l)[n]
  <2> SUFFICES ASSUME ~mixed
               PROVE  n \in 1..Len(StationsOf(l)) /\ s = StationsOf(l)[n]
    OBVIOUS
  <2>1. n \in 1..Len(page.drawn) /\ s = page.drawn[n]
    BY <1>1, <1>4 DEF RemedyInv, AtItsPosition
  <2>2. Len(page.drawn) <= Len(StationsOf(l)) /\ StationsOf(l)[n] = page.drawn[n]
    BY <1>3, <1>4, <2>1 DEF RemedyInv, AtItsPosition
  <2>3. Len(page.drawn) \in Nat
    BY <1>3
  <2>4. StationsOf(l) \in Seq(Names)
    BY StationsOfFacts DEF RemedyInv, StationInv, LineFacts
  <2>5. Len(StationsOf(l)) \in Nat
    BY <2>4
  <2> QED
    BY <2>1, <2>2, <2>3, <2>5
<1>10. AtItsPosition'
  BY <1>1, <1>2, <1>5, <1>6, <1>9 DEF RemedyInv, AtItsPosition
<1> QED
  BY <1>2, <1>7, <1>8, <1>10 DEF RemedyInv

\* A call that is through, or waits for its message: it is of the page it was
\* of, or of none.
LEMMA PaymentStep ==
  ASSUME RemedyInv, NEW p \in Payments, NEW r \in PaymentState,
         payment' = [payment EXCEPT ![p] = r],
         r.line = None \/ (r.line = payment[p].line /\ r.station = payment[p].station
                             /\ r.position = payment[p].position),
         reported' # None /\ ~mixed => reported'.named = reported'.sent,
         UNCHANGED <<journeyVars, page, confirm>>
  PROVE  RemedyInv'
<1>1. /\ StationInv' /\ fetched' = fetched /\ mixed' = mixed
      /\ \A k \in Lines : StationsOf(k)' = StationsOf(k)
  BY SameStations DEF RemedyInv
<1>2. /\ payment'[p] = r /\ payment' \in [Payments -> PaymentState]
      /\ \A q \in Payments : q # p => payment'[q] = payment[q]
  BY DEF RemedyInv, RemedyTypeOK
<1>3. RemedyTypeOK' /\ PageIsThere'
  BY <1>1, <1>2 DEF RemedyInv, RemedyTypeOK, PageIsThere
<1>4. \A q \in Payments : payment'[q].line # None =>
        /\ payment'[q].line = payment[q].line /\ payment'[q].station = payment[q].station
        /\ payment'[q].position = payment[q].position
  BY <1>2
<1>5. AtItsPosition'
  BY <1>1, <1>4 DEF RemedyInv, AtItsPosition
<1> QED
  BY <1>1, <1>3, <1>5 DEF RemedyInv

LEMMA PastPaymentType == PastPayment \in PaymentState /\ PastPayment.line = None
BY DEF PastPayment, NoPayment, PaymentState

LEMMA PaymentFailsStep ==
  ASSUME RemedyInv, NEW p \in Payments, PaymentFails(p)
  PROVE  RemedyInv'
<1>1. /\ payment' = [payment EXCEPT ![p] = PastPayment]
      /\ UNCHANGED <<journeyVars, page, confirm>> /\ reported' = reported
  BY DEF PaymentFails
<1>2. reported' # None /\ ~mixed => reported'.named = reported'.sent
  BY <1>1 DEF RemedyInv, AtItsPosition
<1> QED
  BY <1>1, <1>2, PastPaymentType, PaymentStep

LEMMA PaymentAnsweredStep ==
  ASSUME RemedyInv, NEW p \in Payments, PaymentAnswered(p)
  PROVE  RemedyInv'
<1>1. payment[p] \in PaymentState
  BY DEF RemedyInv, RemedyTypeOK
<1>2. PICK r \in PaymentState : r = [payment[p] EXCEPT !.pc = "message"]
  BY <1>1 DEF PaymentState
<1>3. /\ r.line = payment[p].line /\ r.station = payment[p].station
      /\ r.position = payment[p].position
  BY <1>1, <1>2 DEF PaymentState
<1>4. /\ payment' = [payment EXCEPT ![p] = r]
      /\ UNCHANGED <<journeyVars, page, confirm>> /\ reported' = reported
  BY <1>2 DEF PaymentAnswered
<1>5. reported' # None /\ ~mixed => reported'.named = reported'.sent
  BY <1>4 DEF RemedyInv, AtItsPosition
<1> QED
  BY <1>3, <1>4, <1>5, PaymentStep

LEMMA ReportPaymentStep ==
  ASSUME RemedyInv, NEW p \in Payments, ReportPayment(p)
  PROVE  RemedyInv'
<1>1. payment[p].line # None /\ payment[p].line \in Lines
  BY DEF ReportPayment, RemedyInv, RemedyTypeOK, PaymentState
<1>2. PICK l \in Lines : payment[p].line = l
  BY <1>1
<1>3. /\ reported' = [named |-> StationsOf(l)[payment[p].position],
                      sent |-> payment[p].station]
      /\ payment' = [payment EXCEPT ![p] = PastPayment]
      /\ UNCHANGED <<journeyVars, page, confirm>>
  BY <1>2 DEF ReportPayment
<1>4. ~mixed => payment[p].station = StationsOf(l)[payment[p].position]
  BY <1>1, <1>2 DEF RemedyInv, AtItsPosition
<1>5. reported' # None /\ ~mixed => reported'.named = reported'.sent
  BY <1>3, <1>4
<1> QED
  BY <1>3, <1>5, PastPaymentType, PaymentStep

LEMMA RemedyNext == RemedyInv /\ [OrderNext]_orderVars => RemedyInv'
<1> SUFFICES ASSUME RemedyInv, [OrderNext]_orderVars
             PROVE  RemedyInv'
  OBVIOUS
<1>1. CASE UNCHANGED orderVars
  <2>1. UNCHANGED <<journeyVars, page, confirm, payment, reported>>
    BY <1>1 DEF orderVars, remedyVars
  <2>2. /\ StationInv' /\ fetched' = fetched /\ mixed' = mixed
        /\ \A k \in Lines : StationsOf(k)' = StationsOf(k)
    BY <2>1, SameStations DEF RemedyInv
  <2> QED
    BY <2>1, <2>2 DEF RemedyInv, RemedyTypeOK, PageIsThere, AtItsPosition
<1>2. ASSUME ProcessDies, RemedyDies
      PROVE  RemedyInv'
  BY <1>2, ProcessInv, RemedyStarts
<1>3. ASSUME Dies
      PROVE  ProcessDies
  BY <1>3 DEF Dies, Run
<1>4. CASE ConfirmNothing
  BY <1>2, <1>4 DEF ConfirmNothing
<1>5. ASSUME NEW p \in Payments,
             \/ ConfirmStation(p) \/ PaymentFails(p) \/ PaymentAnswered(p)
             \/ ReportPayment(p) \/ ReportNowhere(p)
      PROVE  RemedyInv'
  BY <1>2, <1>5, ConfirmStationStep, PaymentFailsStep, PaymentAnsweredStep, ReportPaymentStep
     DEF ReportNowhere
<1> QED
  BY <1>1, <1>2, <1>3, <1>4, <1>5, JourneyStepRemedy, OpenLineStep, CloseLineStep,
     ClickStationStep, CancelStationStep DEF OrderNext

LEMMA OrderSafe == OrderSpec => []RemedyInv
BY RemedyAtStart, RemedyNext, PTL DEF OrderSpec

\* The station one confirms is the one that was drawn where one clicked, and the
\* one reported as paid the one that was sent: a position is looked up in a list
\* that only grows, unless two fetchers were at work at a time.  For all lines,
\* fetchers and payments (FragmentStationList).
THEOREM ClickedIsPaid == OrderSpec => []StationIsTheOneClicked
<1>1. RemedyInv => StationIsTheOneClicked
  BY DEF RemedyInv, AtItsPosition, StationIsTheOneClicked
<1> QED
  BY <1>1, OrderSafe, PTL

\* What a call under way was sent for is a station, which it had from the dialog.
SentIsStation ==
  \A p \in Payments : payment[p].pc \in {"sent", "message"} => payment[p].station \in Names

LEMMA SentNext == RemedyInv /\ SentIsStation /\ [OrderNext]_orderVars => SentIsStation'
<1> SUFFICES ASSUME RemedyInv, SentIsStation, [OrderNext]_orderVars
             PROVE  SentIsStation'
  OBVIOUS
<1> USE DEF SentIsStation
<1>1. payment \in [Payments -> PaymentState]
  BY DEF RemedyInv, RemedyTypeOK
<1>2. CASE payment' = payment
  BY <1>2
<1>3. CASE RemedyDies
  BY <1>3 DEF RemedyDies, NoPayment
<1>4. CASE CloseLine
  <2>1. \A p \in Payments :
          payment'[p].pc = payment[p].pc /\ payment'[p].station = payment[p].station
    BY <1>1, <1>4 DEF CloseLine, PaymentState
  <2> QED
    BY <2>1
<1>5. ASSUME NEW p \in Payments, ConfirmStation(p)
      PROVE  SentIsStation'
  <2>1. confirm.station \in Names
    BY <1>5 DEF ConfirmStation, RemedyInv, RemedyTypeOK
  <2>2. /\ payment'[p].station = confirm.station
        /\ \A q \in Payments : q # p => payment'[q] = payment[q]
    BY <1>1, <1>5 DEF ConfirmStation
  <2> QED
    BY <2>1, <2>2
<1>6. ASSUME NEW p \in Payments, PaymentFails(p) \/ ReportPayment(p)
      PROVE  SentIsStation'
  <2>1. PastPayment.pc = "done"
    BY DEF PastPayment, NoPayment
  <2>2. payment'[p].pc = "done" /\ \A q \in Payments : q # p => payment'[q] = payment[q]
    BY <1>1, <1>6, <2>1 DEF PaymentFails, ReportPayment
  <2> QED
    BY <2>2
<1>7. ASSUME NEW p \in Payments, PaymentAnswered(p)
      PROVE  SentIsStation'
  <2>1. payment[p].pc = "sent" /\ payment'[p].station = payment[p].station
    BY <1>1, <1>7 DEF PaymentAnswered, PaymentState
  <2>2. \A q \in Payments : q # p => payment'[q] = payment[q]
    BY <1>1, <1>7 DEF PaymentAnswered
  <2> QED
    BY <2>1, <2>2
<1>8. ConfirmNothing \/ (Dies /\ RemedyDies) => RemedyDies
  BY DEF ConfirmNothing
<1>9. \A p \in Payments : ReportNowhere(p) => RemedyDies
  BY DEF ReportNowhere
<1>10. JourneyStep \/ CancelStation \/ UNCHANGED orderVars => payment' = payment
  BY DEF JourneyStep, CancelStation, orderVars, remedyVars
<1>11. \A l \in Lines : OpenLine(l) => payment' = payment
  BY DEF OpenLine
<1>12. \A n \in 1..2 * Len(Stations) : ClickStation(n) => payment' = payment
  BY DEF ClickStation
<1> QED
  BY <1>2, <1>3, <1>4, <1>5, <1>6, <1>7, <1>8, <1>9, <1>10, <1>11, <1>12 DEF OrderNext

\* The history, the page, the dialog and the calls keep to their types: a station
\* is asked for only on a page, and a call has a page only while there is one.
THEOREM OrderTypeCorrect == OrderSpec => []OrderTypeOK
<1>1. OrderInit => SentIsStation
  BY DEF OrderInit, RemedyInit, NoPayment, SentIsStation
<1>2. RemedyInv /\ SentIsStation /\ JourneyTypeOK => OrderTypeOK
  BY DEF RemedyInv, RemedyTypeOK, PageIsThere, SentIsStation, OrderTypeOK
<1> QED
  BY <1>1, <1>2, SentNext, OrderSafe, HistoryBeneathRemedy, PTL DEF OrderSpec
=============================================================================
