---------------------------- MODULE ScreenProofs ----------------------------
(***************************************************************************)
(* What holds of the login form (LoginScreen) for every set of accounts,   *)
(* of countdowns and of requests, and any number of seconds to count.      *)
(*                                                                         *)
(* That a request has a code rests on what the watcher of the code field   *)
(* keeps true on every edit (ButtonKnowsCode).  Nothing of the kind holds  *)
(* of the phone, whose watcher leaves the login button alone.              *)
(*                                                                         *)
(* And what holds of the headlines on the home page (HomePager) for every  *)
(* set of onStarts and any number of categories; the two screens share     *)
(* nothing.  That the home page comes to rest with its tabs and its pager  *)
(* agreed (TabsFollow, TabIsPage) rests on every list that is assigned     *)
(* being gone through by a runnable that begins after it was (Settled):    *)
(* while one is still to begin nothing is known of the tabs, and the last  *)
(* to begin finds the list as it stays.                                    *)
(***************************************************************************)
EXTENDS LoginScreen, HomePager, SessionProofs

FormTypeOK ==
  /\ phoneField \in Tokens /\ codeField \in {"empty", "short", "full"}
  /\ canSend \in BOOLEAN /\ canLogin \in BOOLEAN
  /\ label \in {"get", "counting", "again"}
  /\ timer \in [TimerIds -> Off .. CountFrom]
  /\ authTask \in {"none", "running", "success"}

ButtonKnowsCode == canLogin => codeField # "empty"

FormInv == FormTypeOK /\ ButtonKnowsCode
-----------------------------------------------------------------------------
\* Every step of the form is a step of the session, or leaves it alone: what
\* the phone field holds is an account, or nobody's.
LEMMA FormStepsSession == FormInv /\ [Next]_vars => [SessionNext]_sessionVars
<1> SUFFICES ASSUME FormInv, [Next]_vars
             PROVE  [SessionNext]_sessionVars
  OBVIOUS
<1> USE DEF SessionNext
<1>1. CASE OpenForm \/ AuthDone \/ (Elsewhere /\ UNCHANGED formVars)
  BY <1>1 DEF OpenForm, AuthDone, Elsewhere
<1>2. CASE AskCode \/ AttemptLogin
  BY <1>2 DEF AskCode, AttemptLogin
<1>3. ASSUME NEW p \in Tokens, TypePhone(p)
      PROVE  UNCHANGED sessionVars
  BY <1>3 DEF TypePhone
<1>4. ASSUME NEW c \in {"empty", "short", "full"}, TypeCode(c)
      PROVE  UNCHANGED sessionVars
  BY <1>4 DEF TypeCode
<1>5. ASSUME NEW t \in TimerIds, Tick(t)
      PROVE  UNCHANGED sessionVars
  BY <1>5 DEF Tick
<1>6. CASE Answers
  BY <1>6 DEF Answers
<1>7. ASSUME NEW l \in LoginIds, PressLogin(l)
      PROVE  SessionNext
  BY <1>7 DEF PressLogin, FormInv, FormTypeOK
<1>8. CASE UNCHANGED vars
  BY <1>8 DEF vars
<1> QED
  BY <1>1, <1>2, <1>3, <1>4, <1>5, <1>6, <1>7, <1>8 DEF Next

\* A form as it is created satisfies the invariant.
LEMMA FreshFormInv ==
  /\ Init => FormInv
  /\ OpenForm => FormInv'
<1>1. NoUser \in Tokens /\ NoTimer \in [TimerIds -> Off .. CountFrom]
  BY CountAssumption DEF Tokens, NoTimer, Off
<1> QED
  BY <1>1 DEF Init, OpenForm, FreshForm, FormInv, FormTypeOK, ButtonKnowsCode

\* Every step keeps the invariant of the form.
LEMMA FormStepInv == FormInv /\ [Next]_vars => FormInv'
<1> SUFFICES ASSUME FormInv, [Next]_vars
             PROVE  FormInv'
  OBVIOUS
<1> USE DEF FormInv, FormTypeOK, ButtonKnowsCode
<1>1. CASE OpenForm
  BY <1>1, FreshFormInv
<1>2. CASE AskCode
  <2>1. CountFrom \in Off .. CountFrom
    BY CountAssumption DEF Off
  <2> QED
    BY <1>2, <2>1 DEF AskCode
<1>3. CASE AttemptLogin \/ AuthDone
  BY <1>3 DEF AttemptLogin, AuthDone
<1>4. ASSUME NEW p \in Tokens, TypePhone(p)
      PROVE  FormInv'
  BY <1>4 DEF TypePhone
<1>5. ASSUME NEW c \in {"empty", "short", "full"}, TypeCode(c)
      PROVE  FormInv'
  BY <1>5 DEF TypeCode
<1>6. ASSUME NEW t \in TimerIds, Tick(t)
      PROVE  FormInv'
  <2>1. timer[t] \in Off .. CountFrom /\ timer[t] # Off
    BY <1>6 DEF Tick, Running
  <2>2. timer[t] - 1 \in Off .. CountFrom
    BY <2>1, CountAssumption DEF Off
  <2> QED
    BY <1>6, <2>2 DEF Tick
<1>7. ASSUME NEW l \in LoginIds, PressLogin(l)
      PROVE  FormInv'
  BY <1>7 DEF PressLogin, formVars
<1>8. CASE UNCHANGED formVars
  BY <1>8 DEF formVars
<1> QED
  BY <1>1, <1>2, <1>3, <1>4, <1>5, <1>6, <1>7, <1>8 DEF Next, vars

LEMMA FormAlways == Spec => [](SessionInv /\ FormInv)
<1>1. Init => SessionInv /\ FormInv
  BY SessionInitInv, FreshFormInv DEF Init
<1>2. SessionInv /\ FormInv /\ [Next]_vars => (SessionInv /\ FormInv)'
  BY FormStepsSession, FormStepInv, SessionStepInv
<1> QED
  BY <1>1, <1>2, PTL DEF Spec

\* Every variable of the form has its type; in particular no countdown posts a
\* number below zero.
THEOREM LoginScreenTypeCorrect == Spec => []LoginScreenTypeOK
<1>1. SessionInv /\ FormInv => LoginScreenTypeOK
  BY DEF SessionInv, FormInv, FormTypeOK, LoginScreenTypeOK
<1> QED
  BY <1>1, FormAlways, PTL

\* No login request leaves the form without a code (btnLogin is enabled by the
\* watcher of the code field only), however the fields were edited.
THEOREM EveryRequestHasCode == Spec => RequestHasCode
<1>1. ASSUME SessionInv, FormInv, [Next]_vars
      PROVE  [\A l \in LoginIds :
                login[l].pc = "idle" /\ login'[l].pc = "sent" => codeField # "empty"]_vars
  <2> SUFFICES ASSUME NEW l \in LoginIds, login[l].pc = "idle", login'[l].pc = "sent"
               PROVE  codeField # "empty" \/ UNCHANGED vars
    OBVIOUS
  <2>0. login \in [LoginIds -> LoginState]
    BY <1>1 DEF SessionInv, SessionTypeOK
  <2>1. CASE UNCHANGED login
    BY <2>1
  <2>2. CASE OpenForm \/ AskCode \/ AttemptLogin
    BY <2>1, <2>2 DEF OpenForm, OpenLogin, AskCode, AttemptLogin, sessionVars
  <2>3. ASSUME NEW p \in Tokens, TypePhone(p)
        PROVE  FALSE
    BY <2>3 DEF TypePhone, sessionVars
  <2>4. ASSUME NEW c \in {"empty", "short", "full"}, TypeCode(c)
        PROVE  FALSE
    BY <2>4 DEF TypeCode, sessionVars
  <2>5. ASSUME NEW t \in TimerIds, Tick(t)
        PROVE  FALSE
    BY <2>5 DEF Tick, sessionVars
  <2>6. ASSUME NEW k \in LoginIds, PressLogin(k)
        PROVE  codeField # "empty"
    BY <1>1, <2>6 DEF PressLogin, FormInv, ButtonKnowsCode
  <2>7. CASE AuthDone \/ Elsewhere
    BY <2>0, <2>7 DEF AuthDone, Elsewhere, CloseLogin, Orphaned, Launch, OpenSettings,
       OpenUserInfo, Logout, CloseScreen, Resume, Leave, ProcessDies, NoLogin, LoginState
  <2>8. CASE Answers
    <3>1. ASSUME NEW k \in LoginIds, LoginRejected(k)
          PROVE  FALSE
      BY <2>0, <3>1 DEF LoginRejected, NoLogin
    <3>2. ASSUME NEW k \in LoginIds, FinishLogin(k)
          PROVE  FALSE
      BY ZenonT(20), <2>0, <3>2 DEF FinishLogin, NoLogin, Orphaned, LoginState
    <3>3. ASSUME NEW k \in LoginIds, NEW a \in LoginAnswers, SaveLogin(k, a)
          PROVE  FALSE
      BY <2>0, <3>3 DEF SaveLogin, Answered
    <3> QED
      BY <2>8, <3>1, <3>2, <3>3 DEF Answers
  <2> QED
    BY <1>1, <2>2, <2>3, <2>4, <2>5, <2>6, <2>7, <2>8 DEF Next
<1> QED
  BY <1>1, FormAlways, PTL DEF Spec, RequestHasCode
-----------------------------------------------------------------------------
(* The headlines *)

\* Every list that was assigned has been gone through, or is by the runnable
\* that is run.
Settled == \A r \in Starts : request[r] \notin {"assigned", "posted"}

RunOwns ==
  /\ run.at # "idle" => run.of \in Starts /\ request[run.of] = "running"
  /\ \A r \in Starts : request[r] = "running" => run.at # "idle" /\ run.of = r

\* A list of no answer is empty, and how many tabs a runnable has made.
TabsMade ==
  /\ items.of = None => items.size = 0
  /\ run.at \in {"test", "add"} => Len(tabs) = run.turn - 1
  /\ run.at = "add" => run.turn <= Most
  /\ run.at = "select" => run.turn = 1 /\ Len(tabs) = 1

\* The tabs are the first of the list, and all of it when no runnable is run.
TabsFollow ==
  Settled =>
    /\ Len(tabs) <= items.size
    /\ \A n \in 1..Len(tabs) : tabs[n] = [of |-> items.of, place |-> n]
    /\ UIIdle => Len(tabs) = items.size

\* What the pager has not been notified of, it will be.
NotifiedInTime ==
  Settled /\ UIIdle /\ (\A r \in Starts : request[r] # "message") => notified = items.size

\* Without a listener there has been no tab to choose, and no page but the first.
FirstWithoutListener == ~listening => current = 1 /\ (UIIdle => tabs = <<>>)

TabIsPage ==
  Settled =>
    /\ UIIdle /\ fresh /\ tabs # <<>> => selected = current
    /\ run.at \in {"test", "add"} /\ run.turn > 1 => selected = 1 /\ current = 1
    /\ run.at = "select" => selected = 1

HomeInv ==
  /\ HomeTypeOK /\ RunOwns /\ TabsMade
  /\ TabsFollow /\ NotifiedInTime /\ FirstWithoutListener /\ TabIsPage
-----------------------------------------------------------------------------
\* A home page that is not there satisfies the invariant.
LEMMA HomeInitInv == HomeInit => HomeInv
<1> SUFFICES ASSUME HomeInit PROVE HomeInv
  OBVIOUS
<1> USE HomeAssumption
    DEF HomeInit, Idle, UIIdle
<1>1. HomeTypeOK
  <2> USE DEF HomeTypeOK, RequestState, RunState
  <2>1. home \in {"none", "stopped", "started"} /\ items \in [of : Starts \cup {None}, size : 0..Most]
    OBVIOUS
  <2>2. notified \in 0..Most /\ current \in 1..Most
    OBVIOUS
  <2>3. tabs \in Seq([of : Starts, place : 1..Most]) /\ Len(tabs) <= Most /\ selected \in 0..Len(tabs)
    OBVIOUS
  <2>4. listening \in BOOLEAN /\ fresh \in BOOLEAN
    OBVIOUS
  <2>5. request \in [Starts -> RequestState]
    OBVIOUS
  <2>6. run \in RunState
    OBVIOUS
  <2> QED
    BY <2>1, <2>2, <2>3, <2>4, <2>5, <2>6
<1>2. (RunOwns /\ TabsMade /\ FirstWithoutListener)
  BY DEF RunOwns, TabsMade, FirstWithoutListener
<1>3. (TabsFollow /\ NotifiedInTime /\ TabIsPage)
  BY DEF TabsFollow, NotifiedInTime, TabIsPage
<1> QED
  BY <1>1, <1>2, <1>3 DEF HomeInv

\* A fragment or a process that goes leaves nothing.
LEMMA HomeDropInv ==
  ASSUME DropHome, request' \in [Starts -> RequestState],
         \A r \in Starts : request'[r] # "running"
  PROVE  HomeInv'
<1> USE HomeAssumption
    DEF DropHome, Idle, UIIdle
<1>1. HomeTypeOK'
  <2> USE DEF HomeTypeOK, RequestState, RunState
  <2>1. home' \in {"none", "stopped", "started"} /\ items' \in [of : Starts \cup {None}, size : 0..Most]
    OBVIOUS
  <2>2. notified' \in 0..Most /\ current' \in 1..Most
    OBVIOUS
  <2>3. tabs' \in Seq([of : Starts, place : 1..Most]) /\ Len(tabs') <= Most /\ selected' \in 0..Len(tabs')
    OBVIOUS
  <2>4. listening' \in BOOLEAN /\ fresh' \in BOOLEAN
    OBVIOUS
  <2>5. request' \in [Starts -> RequestState]
    OBVIOUS
  <2>6. run' \in RunState
    OBVIOUS
  <2> QED
    BY <2>1, <2>2, <2>3, <2>4, <2>5, <2>6
<1>2. (RunOwns /\ TabsMade /\ FirstWithoutListener)'
  BY DEF RunOwns, TabsMade, FirstWithoutListener
<1>3. (TabsFollow /\ NotifiedInTime /\ TabIsPage)'
  BY DEF TabsFollow, NotifiedInTime, TabIsPage
<1> QED
  BY <1>1, <1>2, <1>3 DEF HomeInv

\* Every step of the fragment, a callback, the runnable or the user keeps it.
LEMMA HomeStepInv == HomeInv /\ [HomeNext]_homeVars => HomeInv'
<1> SUFFICES ASSUME HomeInv, [HomeNext]_homeVars
             PROVE  HomeInv'
  OBVIOUS
<1> USE HomeAssumption
    DEF HomeInv, HomeTypeOK, RunOwns, TabsMade, TabsFollow, NotifiedInTime,
        FirstWithoutListener, TabIsPage, Settled, RequestState, RunState, UIIdle
<1>1. ASSUME NEW r \in Starts, Start(r)
      PROVE  HomeInv'
  <2> USE <1>1 DEF Start
  <2>1. HomeTypeOK'
    <3>1. home' \in {"none", "stopped", "started"} /\ items' \in [of : Starts \cup {None}, size : 0..Most]
      OBVIOUS
    <3>2. notified' \in 0..Most /\ current' \in 1..Most
      OBVIOUS
    <3>3. tabs' \in Seq([of : Starts, place : 1..Most]) /\ Len(tabs') <= Most /\ selected' \in 0..Len(tabs')
      OBVIOUS
    <3>4. listening' \in BOOLEAN /\ fresh' \in BOOLEAN
      OBVIOUS
    <3>5. request' \in [Starts -> RequestState]
      OBVIOUS
    <3>6. run' \in RunState
      OBVIOUS
    <3> QED
      BY <3>1, <3>2, <3>3, <3>4, <3>5, <3>6
  <2>2. (RunOwns /\ TabsMade /\ FirstWithoutListener)'
    OBVIOUS
  <2>3. (TabsFollow /\ NotifiedInTime /\ TabIsPage)'
    OBVIOUS
  <2> QED
    BY <2>1, <2>2, <2>3
<1>2. CASE Stop
  BY <1>2 DEF Stop
<1>3. CASE LeaveHome \/ HomeDies
  <2>1. DropHome
    BY <1>3 DEF LeaveHome, HomeDies
  <2>2. request' \in [Starts -> RequestState]
    BY <1>3 DEF LeaveHome, HomeDies
  <2>3. \A r \in Starts : request'[r] # "running"
    BY <1>3 DEF LeaveHome, HomeDies
  <2> QED
    BY <2>1, <2>2, <2>3, HomeDropInv
<1>4. ASSUME NEW r \in Starts, CategoriesFail(r)
      PROVE  HomeInv'
  BY <1>4 DEF CategoriesFail
<1>5. ASSUME NEW r \in Starts, AssignItems(r)
      PROVE  HomeInv'
  BY <1>5 DEF AssignItems
<1>6. ASSUME NEW r \in Starts, PostRun(r)
      PROVE  HomeInv'
  BY <1>6 DEF PostRun
<1>7. ASSUME NEW r \in Starts, BeginRun(r)
      PROVE  HomeInv'
  <2> USE <1>7 DEF BeginRun
  <2>1. HomeTypeOK'
    OBVIOUS
  <2>2. (RunOwns /\ TabsMade /\ FirstWithoutListener)'
    OBVIOUS
  <2>3. (TabsFollow /\ NotifiedInTime /\ TabIsPage)'
    OBVIOUS
  <2> QED
    BY <2>1, <2>2, <2>3
<1>8. CASE TestTurn
  BY <1>8 DEF TestTurn
<1>9. CASE AddTab
  <2> USE <1>9 DEF AddTab
  <2>1. HomeTypeOK'
    <3>1. home' \in {"none", "stopped", "started"} /\ items' \in [of : Starts \cup {None}, size : 0..Most]
      OBVIOUS
    <3>2. notified' \in 0..Most /\ current' \in 1..Most
      OBVIOUS
    <3>3. tabs' \in Seq([of : Starts, place : 1..Most]) /\ Len(tabs') <= Most /\ selected' \in 0..Len(tabs')
      OBVIOUS
    <3>4. listening' \in BOOLEAN /\ fresh' \in BOOLEAN
      OBVIOUS
    <3>5. request' \in [Starts -> RequestState]
      OBVIOUS
    <3>6. run' \in RunState
      <4>1. run = [of |-> run.of, turn |-> run.turn, at |-> run.at]
        OBVIOUS
      <4>2. run.turn \in 1..Most /\ Most \in Nat
        OBVIOUS
      <4>3. run.turn + 1 \in 1..Most+1
        BY ONLY <4>2
      <4> QED
        BY <4>1, <4>3
    <3> QED
      BY <3>1, <3>2, <3>3, <3>4, <3>5, <3>6
  <2>2. (RunOwns /\ TabsMade /\ FirstWithoutListener)'
    OBVIOUS
  <2>3. TabsFollow'
    OBVIOUS
  <2>4. (NotifiedInTime /\ TabIsPage)'
    OBVIOUS
  <2> QED
    BY <2>1, <2>2, <2>3, <2>4
<1>10. CASE SelectFirst
  <2> USE <1>10 DEF SelectFirst, Shows
  <2>1. HomeTypeOK'
    <3>1. home' \in {"none", "stopped", "started"} /\ items' \in [of : Starts \cup {None}, size : 0..Most]
      OBVIOUS
    <3>2. notified' \in 0..Most /\ current' \in 1..Most
      OBVIOUS
    <3>3. tabs' \in Seq([of : Starts, place : 1..Most]) /\ Len(tabs') <= Most /\ selected' \in 0..Len(tabs')
      OBVIOUS
    <3>4. listening' \in BOOLEAN /\ fresh' \in BOOLEAN
      OBVIOUS
    <3>5. request' \in [Starts -> RequestState]
      OBVIOUS
    <3>6. run' \in RunState
      <4>1. run = [of |-> run.of, turn |-> run.turn, at |-> run.at]
        OBVIOUS
      <4>2. run.turn \in 1..Most /\ Most \in Nat
        OBVIOUS
      <4>3. run.turn + 1 \in 1..Most+1
        BY ONLY <4>2
      <4> QED
        BY <4>1, <4>3
    <3> QED
      BY <3>1, <3>2, <3>3, <3>4, <3>5, <3>6
  <2>2. (RunOwns /\ TabsMade /\ FirstWithoutListener)'
    OBVIOUS
  <2>3. TabsFollow'
    OBVIOUS
  <2>4. (NotifiedInTime /\ TabIsPage)'
    OBVIOUS
  <2> QED
    BY <2>1, <2>2, <2>3, <2>4
<1>11. CASE EndRun
  BY <1>11 DEF EndRun, Idle
<1>12. ASSUME NEW r \in Starts, NotifyPager(r)
       PROVE  HomeInv'
  <2> USE <1>12 DEF NotifyPager
  <2>1. HomeTypeOK'
    OBVIOUS
  <2>2. (RunOwns /\ TabsMade /\ FirstWithoutListener)'
    OBVIOUS
  <2>3. (TabsFollow /\ NotifiedInTime /\ TabIsPage)'
    OBVIOUS
  <2> QED
    BY <2>1, <2>2, <2>3
<1>13. ASSUME NEW p \in 1..Most, SwipeTo(p)
       PROVE  HomeInv'
  <2> USE <1>13 DEF SwipeTo, Smaller
  <2>1. HomeTypeOK'
    OBVIOUS
  <2>2. (RunOwns /\ TabsMade /\ FirstWithoutListener)'
    OBVIOUS
  <2>3. (TabsFollow /\ NotifiedInTime /\ TabIsPage)'
    OBVIOUS
  <2> QED
    BY <2>1, <2>2, <2>3
<1>14. ASSUME NEW t \in 1..Most, ClickTab(t)
       PROVE  HomeInv'
  <2> USE <1>14 DEF ClickTab, Shows, Smaller
  <2>1. HomeTypeOK'
    <3>1. current' \in 1..Most /\ selected' \in 0..Len(tabs')
      OBVIOUS
    <3> QED
      BY <3>1
  <2>2. (RunOwns /\ TabsMade /\ FirstWithoutListener)'
    OBVIOUS
  <2>3. (TabsFollow /\ NotifiedInTime /\ TabIsPage)'
    OBVIOUS
  <2> QED
    BY <2>1, <2>2, <2>3
<1>15. CASE UNCHANGED homeVars
  BY <1>15 DEF homeVars
<1> QED
  BY <1>1, <1>2, <1>3, <1>4, <1>5, <1>6, <1>7, <1>8, <1>9, <1>10, <1>11, <1>12, <1>13,
     <1>14, <1>15 DEF HomeNext
-----------------------------------------------------------------------------
\* The home page's variables have their types, for any number of onStarts and of
\* categories: no tab and no page is selected that no list could have.
THEOREM HomeTypeCorrect == HomeSpec => []HomeTypeOK
<1>1. HomeInv => HomeTypeOK
  BY DEF HomeInv
<1> QED
  BY <1>1, HomeInitInv, HomeStepInv, PTL DEF HomeSpec

\* However many answers come, and however their callbacks, runnables and messages
\* are interleaved, a home page at rest has the tabs of the list its adapter
\* counts by, and its pager was notified of that list (Fragment1.onStart).
THEOREM TabsSettle == HomeSpec => []TabsAreThePages
<1>1. HomeInv => TabsAreThePages
  <2> SUFFICES ASSUME HomeInv, AtRest
               PROVE  tabs = TabsOf(items) /\ notified = items.size
    BY DEF TabsAreThePages
  <2>1. /\ Len(tabs) = items.size /\ notified = items.size
        /\ \A n \in 1..Len(tabs) : tabs[n] = [of |-> items.of, place |-> n]
    BY DEF HomeInv, AtRest, Settled, UIIdle, TabsFollow, NotifiedInTime
  <2>2. tabs = [n \in 1..Len(tabs) |-> tabs[n]]
    BY DEF HomeInv, HomeTypeOK
  <2> QED
    BY <2>1, <2>2 DEF TabsOf
<1> QED
  BY <1>1, HomeInitInv, HomeStepInv, PTL DEF HomeSpec

\* The tab that is selected is then the one of the page that is shown, if the tabs
\* were made since the last onStart, for any number of answers and choices.
THEOREM SelectionSettles == HomeSpec => []SelectedIsShown
<1>1. HomeInv => SelectedIsShown
  BY DEF HomeInv, SelectedIsShown, AtRest, Settled, TabIsPage
<1> QED
  BY <1>1, HomeInitInv, HomeStepInv, PTL DEF HomeSpec
=============================================================================
