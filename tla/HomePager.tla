------------------------------ MODULE HomePager ------------------------------
(***************************************************************************)
(* The headlines on the home page (fragment/Fragment1.java): a ViewPager   *)
(* with a page for each category and a TabLayout with a tab for each.      *)
(*                                                                         *)
(* Each onStart asks for the categories.  The callback assigns the field   *)
(* headlineCateItems on okhttp's thread, and the pager's adapter counts    *)
(* by that field from then on; a runnable on the UI thread makes the tabs  *)
(* from it, reading it anew at each turn of its loop, and sends a message, *)
(* upon which the pager is notified.  The user may choose a tab or a page  *)
(* in between, may leave and come back, and a second answer may come.      *)
(*                                                                         *)
(* The pager and the tabs are the support library's: a pager that is asked *)
(* for a page while its adapter's count is not the one it was told throws, *)
(* and the first tab that is added is selected.                            *)
(***************************************************************************)
EXTENDS Naturals, Sequences

CONSTANTS
  Starts,  \* calls of onStart and their requests, each once in a process
  Most,    \* bound: categories in an answer
  None     \* the list Fragment1 is made with is no request's answer

ASSUME HomeAssumption == Most \in Nat \ {0} /\ None \notin Starts

VARIABLES
  home,       \* Fragment1: "none", "stopped" or "started"
  items,      \* headlineCateItems: whose answer it is, and its size
  notified,   \* the count the pager was told last
  current,    \* the page the pager shows
  tabs,       \* the tabs: whose answer each is of, and its place in it
  selected,   \* the place of the tab that is selected, 0 if none is
  listening,  \* a listener tells the pager of the tab selected
  request,    \* the requests
  run,        \* the runnable the UI thread is in: whose, and its turn
  fresh       \* history: the tabs were made since the last onStart

homeVars == <<home, items, notified, current, tabs, selected, listening,
              request, run, fresh>>

RequestState == {"none", "sent",
                 "assigned",  \* the field is, the runnable is not yet posted
                 "posted", "running",
                 "message",   \* the pager is to be notified
                 "orphan",    \* sent by a fragment that is gone
                 "done"}

\* At the test of the loop, in its body, or in the listener of the first tab.
RunState == [of : Starts \cup {None}, turn : 1..Most+1, at : {"idle", "test", "add", "select"}]

Idle == [of |-> None, turn |-> 1, at |-> "idle"]
UIIdle == run.at = "idle"

\* The tabs of a list of categories.
TabsOf(list) == [n \in 1..list.size |-> [of |-> list.of, place |-> n]]

Smaller(m, n) == IF m < n THEN m ELSE n

HomeInit ==
  /\ home = "none"
  /\ items = [of |-> None, size |-> 0] /\ notified = 0 /\ current = 1
  /\ tabs = <<>> /\ selected = 0 /\ listening = FALSE /\ fresh = FALSE
  /\ request = [r \in Starts |-> "none"] /\ run = Idle

\* There is no Fragment1; the next one has fields and views of its own.
DropHome ==
  /\ home' = "none"
  /\ items' = [of |-> None, size |-> 0] /\ notified' = 0 /\ current' = 1
  /\ tabs' = <<>> /\ selected' = 0 /\ listening' = FALSE /\ fresh' = FALSE
  /\ run' = Idle
-----------------------------------------------------------------------------
(* The fragment *)

\* onStart, of a new fragment or of one that was stopped: the adapter is set
\* anew, which puts the pager back to its first page and tells the tabs
\* nothing; the request is sent.
Start(r) ==
  /\ home # "started" /\ UIIdle /\ request[r] = "none"
  /\ home' = "started"
  /\ notified' = items.size /\ current' = 1
  /\ request' = [request EXCEPT ![r] = "sent"]
  /\ fresh' = FALSE
  /\ UNCHANGED <<items, tabs, selected, listening, run>>

Stop ==
  /\ home = "started" /\ UIIdle
  /\ home' = "stopped"
  /\ UNCHANGED <<items, notified, current, tabs, selected, listening, request, run, fresh>>

\* The activity is left.  A callback that comes now has no activity to run its
\* runnable; what is posted works on views nobody sees.
LeaveHome ==
  /\ home = "stopped" /\ UIIdle
  /\ DropHome
  /\ request' = [r \in Starts |->
       CASE request[r] \in {"sent", "assigned", "orphan"} -> "orphan"
         [] request[r] = "none" -> "none"
         [] OTHER -> "done"]

\* The process ends: the user or the system ends it, or a thread throws.  The
\* runnable does where the list has become shorter since its loop's test; the
\* pager does wherever it is asked for a page and was not notified of its list;
\* onPageSelected does where the page has no tab; and so does the callback
\* whose fragment is gone.
HomeDies ==
  /\ DropHome
  /\ request' = [r \in Starts |-> "none"]
-----------------------------------------------------------------------------
(* A callback *)

\* onFailure, or an answer that does not parse.
CategoriesFail(r) ==
  /\ request[r] \in {"sent", "orphan"}
  /\ request' = [request EXCEPT ![r] = "done"]
  /\ UNCHANGED <<home, items, notified, current, tabs, selected, listening, run, fresh>>

AssignItems(r) ==
  /\ request[r] = "sent"
  /\ \E k \in 0..Most : items' = [of |-> r, size |-> k]
  /\ request' = [request EXCEPT ![r] = "assigned"]
  /\ UNCHANGED <<home, notified, current, tabs, selected, listening, run, fresh>>

PostRun(r) ==
  /\ request[r] = "assigned"
  /\ request' = [request EXCEPT ![r] = "posted"]
  /\ UNCHANGED <<home, items, notified, current, tabs, selected, listening, run, fresh>>
-----------------------------------------------------------------------------
(* The runnable *)

\* removeAllTabs
BeginRun(r) ==
  /\ request[r] = "posted" /\ UIIdle
  /\ request' = [request EXCEPT ![r] = "running"]
  /\ run' = [of |-> r, turn |-> 1, at |-> "test"]
  /\ tabs' = <<>> /\ selected' = 0
  /\ UNCHANGED <<home, items, notified, current, listening, fresh>>

\* The loop's test holds.
TestTurn ==
  /\ run.at = "test" /\ run.turn <= items.size
  /\ run' = [run EXCEPT !.at = "add"]
  /\ UNCHANGED <<home, items, notified, current, tabs, selected, listening, request, fresh>>

\* Faulty variant of AddTab: the listener of the tabs is not told of the first.
AddTabSilently ==
  /\ run.at = "add" /\ run.turn <= items.size
  /\ tabs' = Append(tabs, [of |-> items.of, place |-> run.turn])
  /\ selected' = IF tabs = <<>> THEN 1 ELSE selected
  /\ run' = [run EXCEPT !.turn = @ + 1, !.at = "test"]
  /\ UNCHANGED <<home, items, notified, current, listening, request, fresh>>

\* A tab for the category that is at this place now.  The first is selected, of
\* which the listeners hear that runnables before this one have added.
AddTab ==
  /\ run.at = "add" /\ run.turn <= items.size
  /\ tabs' = Append(tabs, [of |-> items.of, place |-> run.turn])
  /\ selected' = IF tabs = <<>> THEN 1 ELSE selected
  /\ run' = IF tabs = <<>> /\ listening THEN [run EXCEPT !.at = "select"]
            ELSE [run EXCEPT !.turn = @ + 1, !.at = "test"]
  /\ UNCHANGED <<home, items, notified, current, listening, request, fresh>>

\* The pager has a page to go to, and was notified of its list.
Shows(p) == items.size > 0 /\ (p = current \/ notified = items.size)

\* onTabSelected: setCurrentItem(0), which does nothing without a page.
SelectFirst ==
  /\ run.at = "select"
  /\ \/ items.size = 0 /\ UNCHANGED current
     \/ Shows(1) /\ current' = 1
  /\ run' = [run EXCEPT !.turn = @ + 1, !.at = "test"]
  /\ UNCHANGED <<home, items, notified, tabs, selected, listening, request, fresh>>

\* Faulty variant of EndRun: the message is only sent when the fragment is made.
EndRunOnce ==
  /\ run.at = "test" /\ run.turn > items.size
  /\ request' = [request EXCEPT ![run.of] = IF listening THEN "done" ELSE "message"]
  /\ listening' = TRUE /\ fresh' = TRUE
  /\ run' = Idle
  /\ UNCHANGED <<home, items, notified, current, tabs, selected>>

\* The loop is through: the message is sent and another listener added.
EndRun ==
  /\ run.at = "test" /\ run.turn > items.size
  /\ request' = [request EXCEPT ![run.of] = "message"]
  /\ listening' = TRUE /\ fresh' = TRUE
  /\ run' = Idle
  /\ UNCHANGED <<home, items, notified, current, tabs, selected>>

\* headlineCategoryUpdateHandler: notifyDataSetChanged.  A pager that is beyond
\* the last page may go back to it, which selects its tab.
NotifyPager(r) ==
  /\ request[r] = "message" /\ UIIdle
  /\ notified' = items.size
  /\ \/ UNCHANGED <<current, selected>>
     \/ /\ current > items.size /\ items.size \in 1..Len(tabs)
        /\ current' = items.size /\ selected' = items.size
  /\ request' = [request EXCEPT ![r] = "done"]
  /\ UNCHANGED <<home, items, tabs, listening, run, fresh>>
-----------------------------------------------------------------------------
(* The user *)

\* Faulty variant of SwipeTo: the page's tab is taken for the one behind it.
SwipeToNext(p) ==
  /\ home = "started" /\ UIIdle
  /\ p # current /\ p \in 1..Smaller(items.size, Len(tabs)) /\ notified = items.size
  /\ current' = p /\ selected' = p + 1
  /\ UNCHANGED <<home, items, notified, tabs, listening, request, run, fresh>>

\* Another page is swiped to; onPageSelected selects its tab.
SwipeTo(p) ==
  /\ home = "started" /\ UIIdle
  /\ p # current /\ p \in 1..Smaller(items.size, Len(tabs)) /\ notified = items.size
  /\ current' = p /\ selected' = p
  /\ UNCHANGED <<home, items, notified, tabs, listening, request, run, fresh>>

\* Another tab is clicked: onTabSelected has the pager go to its page, or to the
\* last, and when that is another than before onPageSelected selects its tab.
ClickTab(t) ==
  LET p == Smaller(t, items.size)
  IN  /\ home = "started" /\ UIIdle
      /\ t \in 1..Len(tabs) /\ t # selected
      /\ \/ items.size = 0 /\ selected' = t /\ UNCHANGED current
         \/ /\ Shows(p)
            /\ current' = p /\ selected' = IF p = current THEN t ELSE p
      /\ UNCHANGED <<home, items, notified, tabs, listening, request, run, fresh>>

HomeNext ==
  \/ Stop \/ LeaveHome \/ HomeDies
  \/ TestTurn \/ AddTab \/ SelectFirst \/ EndRun
  \/ \E r \in Starts :
       \/ Start(r) \/ CategoriesFail(r) \/ AssignItems(r) \/ PostRun(r)
       \/ BeginRun(r) \/ NotifyPager(r)
  \/ \E n \in 1..Most : SwipeTo(n) \/ ClickTab(n)

HomeSpec == HomeInit /\ [][HomeNext]_homeVars
-----------------------------------------------------------------------------
\* The pager's page, its count and the selected tab stay within the bounds of
\* an answer, whatever was swiped or clicked and replaced (Fragment1.onStart).
HomeTypeOK ==
  /\ home \in {"none", "stopped", "started"}
  /\ items \in [of : Starts \cup {None}, size : 0..Most]
  /\ notified \in 0..Most /\ current \in 1..Most
  /\ tabs \in Seq([of : Starts, place : 1..Most]) /\ Len(tabs) <= Most
  /\ selected \in 0..Len(tabs)
  /\ listening \in BOOLEAN /\ fresh \in BOOLEAN
  /\ request \in [Starts -> RequestState] /\ run \in RunState

\* No callback is beyond its assignment, and no runnable or message is left.
AtRest ==
  UIIdle /\ \A r \in Starts : request[r] \notin {"assigned", "posted", "running", "message"}

\* When the home page comes to rest, its tabs are the categories of the answer
\* its adapter counts by, and the pager was notified of as many, however many
\* answers came and in whatever order their callbacks, runnables and messages
\* were run, also when the list was replaced in the middle of the loop that
\* makes the tabs (Fragment1.onStart).
TabsAreThePages ==
  AtRest => tabs = TabsOf(items) /\ notified = items.size

\* Then the tab that is selected is the one of the page that is shown, unless
\* onStart has put the pager back since the tabs were made, whose answer may
\* fail (the tabs and the pager tell each other of every choice, through
\* listeners of which the tabs' are there from the first answer on only).
SelectedIsShown ==
  AtRest /\ fresh /\ tabs # <<>> => selected = current
=============================================================================
