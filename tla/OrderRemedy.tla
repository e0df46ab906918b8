---------------------------- MODULE OrderRemedy ----------------------------
(***************************************************************************)
(* Adding the station one left at to an order, and paying for it           *)
(* (ui/activity/OrderRemedyActivity.java, fragment/FragmentStationList):   *)
(* a row of the journey history opens a list of stations for each line; a  *)
(* click on one asks to confirm it, changeOrder is sent, and its answer's  *)
(* message shows that the payment has succeeded.  The station is looked up *)
(* by its position: when it is clicked, and again when the message comes.  *)
(***************************************************************************)
EXTENDS JourneyHistory

CONSTANT Payments   \* changeOrder calls, each once in a process

VARIABLES
  page,      \* the list of stations on display, as it was drawn, and whether
             \* its row has an order; or None
  confirm,   \* the station to be confirmed, and its position; or None
  payment,   \* the calls
  reported   \* the last message that was shown: the station it named and the
             \* one that was sent; or None

remedyVars == <<page, confirm, payment, reported>>
orderVars == <<journeyVars, remedyVars>>

NoPayment == [pc |-> "none", line |-> None, station |-> None, position |-> 0]

\* A call that is through.
PastPayment == [NoPayment EXCEPT !.pc = "done"]

RemedyInit ==
  /\ page = None /\ confirm = None /\ reported = None
  /\ payment = [p \in Payments |-> NoPayment]

RemedyDies ==
  /\ page' = None /\ confirm' = None /\ reported' = None
  /\ payment' = [p \in Payments |-> NoPayment]
-----------------------------------------------------------------------------
\* A click on a row, if there are stations; the tab of line l is selected, and
\* its ListView draws the list as it is.  A journey's row has no order.
OpenLine(l) ==
  /\ history /\ page = None /\ fetched /\ lineInfo[l] # None
  /\ count = size
  /\ \E n \in 1..size :
       /\ array[n] # None /\ ~array[n].blank
       /\ page' = [line |-> l, drawn |-> StationsOf(l), order |-> array[n].of[2] = "orders"]
  /\ UNCHANGED <<journeyVars, confirm, payment, reported>>

\* Faulty variant of CloseLine: the dialog outlives its page.
CloseLineKeepsDialog ==
  /\ page # None
  /\ page' = None
  /\ payment' = [p \in Payments |-> [payment[p] EXCEPT !.line = None]]
  /\ UNCHANGED <<journeyVars, confirm, reported>>

\* The activity is finished; its calls go on, without a page.
CloseLine ==
  /\ page # None
  /\ page' = None /\ confirm' = None
  /\ payment' = [p \in Payments |-> [payment[p] EXCEPT !.line = None]]
  /\ UNCHANGED <<journeyVars, reported>>

\* Faulty variant of ClickStation: a header is counted as a position.
ClickStationBelow(n) ==
  /\ page # None /\ confirm = None
  /\ n \in 1..Len(page.drawn) /\ n + 1 <= Len(StationsOf(page.line))
  /\ confirm' = [station |-> StationsOf(page.line)[n + 1], position |-> n]
  /\ UNCHANGED <<journeyVars, page, payment, reported>>

\* A click on the n-th station that was drawn, and the dialog that asks.
ClickStation(n) ==
  /\ page # None /\ confirm = None
  /\ n \in 1..Len(page.drawn) /\ n <= Len(StationsOf(page.line))
  /\ confirm' = [station |-> StationsOf(page.line)[n], position |-> n]
  /\ UNCHANGED <<journeyVars, page, payment, reported>>

CancelStation ==
  /\ confirm # None
  /\ confirm' = None
  /\ UNCHANGED <<journeyVars, page, payment, reported>>

\* The button that pays: the dialog goes, changeOrder is sent.  The page stays,
\* and another station can be clicked before the answer comes.
ConfirmStation(p) ==
  /\ confirm # None /\ page.order /\ payment[p].pc = "none"
  /\ payment' = [payment EXCEPT ![p] =
       [pc |-> "sent", line |-> page.line, station |-> confirm.station,
        position |-> confirm.position]]
  /\ confirm' = None
  /\ UNCHANGED <<journeyVars, page, reported>>

\* The same button without an order: its id is asked of null, and the process
\* ends.
ConfirmNothing ==
  /\ confirm # None /\ ~page.order
  /\ ProcessDies /\ HistoryDies /\ RemedyDies

\* onFailure
PaymentFails(p) ==
  /\ payment[p].pc = "sent"
  /\ payment' = [payment EXCEPT ![p] = PastPayment]
  /\ UNCHANGED <<journeyVars, page, confirm, reported>>

\* onResponse, whatever the status of the answer is: the message PAY_SUCCESS,
\* with the position that was clicked.
PaymentAnswered(p) ==
  /\ payment[p].pc = "sent"
  /\ payment' = [payment EXCEPT ![p].pc = "message"]
  /\ UNCHANGED <<journeyVars, page, confirm, reported>>

\* responseHandler: the dialog names the station at that position.
ReportPayment(p) ==
  LET l == payment[p].line
  IN  /\ payment[p].pc = "message" /\ l # None
      /\ payment[p].position <= Len(StationsOf(l))
      /\ reported' = [named |-> StationsOf(l)[payment[p].position],
                      sent |-> payment[p].station]
      /\ payment' = [payment EXCEPT ![p] = PastPayment]
      /\ UNCHANGED <<journeyVars, page, confirm>>

\* The same without a page: there is no context for the dialog, the handler
\* throws, and the process ends.
ReportNowhere(p) ==
  /\ payment[p].pc = "message" /\ payment[p].line = None
  /\ ProcessDies /\ HistoryDies /\ RemedyDies

\* Main is beneath the page: it is not left while the page is there.
JourneyStep ==
  /\ \/ StoreStep \/ (page = None /\ LeaveHistory)
     \/ \E f \in Fetchers : OpenHistory(f)
     \/ page = None /\ \E n \in Resumes : Resume(n)
     \/ \E r \in Loads : LoadStep(r)
  /\ UNCHANGED remedyVars

OrderInit == JourneyInit /\ RemedyInit

OrderNext ==
  \/ JourneyStep
  \/ Dies /\ RemedyDies
  \/ \E l \in Lines : OpenLine(l)
  \/ CloseLine \/ CancelStation \/ ConfirmNothing
  \/ \E n \in 1..2 * Len(Stations) : ClickStation(n)
  \/ \E p \in Payments :
       \/ ConfirmStation(p) \/ PaymentFails(p) \/ PaymentAnswered(p)
       \/ ReportPayment(p) \/ ReportNowhere(p)

OrderSpec == OrderInit /\ [][OrderNext]_orderVars
-----------------------------------------------------------------------------
\* The variables of the page, the dialog and the calls, and of the history and
\* the stations beneath them, have their types.
OrderTypeOK ==
  /\ JourneyTypeOK
  /\ page = None \/ page \in [line : Lines, drawn : Seq(Names), order : BOOLEAN]
  /\ confirm = None \/ (page # None /\ confirm.station \in Names)
  /\ \A p \in Payments :
       payment[p].pc \in {"sent", "message"} =>
         payment[p].station \in Names /\ (payment[p].line # None => page # None)

\* The station one is asked to confirm is the one that was drawn where one
\* clicked, and the station reported as paid the one that was sent, although
\* both are looked up by position in a list that fetchers may have added to
\* since - unless two fetchers were at work on the lists at a time.
StationIsTheOneClicked ==
  ~mixed =>
    /\ confirm # None => confirm.station = page.drawn[confirm.position]
    /\ reported # None => reported.named = reported.sent
=============================================================================
