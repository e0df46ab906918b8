---------------------------- MODULE LoginScreen ----------------------------
(***************************************************************************)
(* The login form (ui/activity/LoginActivity.java) in front of the session:*)
(* two text fields whose watchers enable the buttons, the button that asks *)
(* for a code by SMS with its countdown timers, and two ways to log in that*)
(* know nothing of each other: the button, whose listener sends a login    *)
(* request, and the keyboard's Done key, which runs attemptLogin and its   *)
(* UserLoginTask.                                                          *)
(***************************************************************************)
EXTENDS Session, Integers

CONSTANTS
  TimerIds,   \* bound: countdowns running together
  CountFrom   \* the seconds a countdown starts from (60)

ASSUME CountAssumption == CountFrom \in Nat

VARIABLES
  phoneField,  \* the phone typed, NoUser when the field is blank
  codeField,   \* the code typed: "empty", "short" or "full"
  canSend,     \* btnCaptcha is enabled
  canLogin,    \* btnLogin is enabled
  label,       \* btnCaptcha's text: to "get", "counting" down, or get "again"
  timer,       \* timer[t]: what countdown t will post next, Off if it has ended
  authTask     \* UserLoginTask: "none", "running", or "success" and finishing

formVars == <<phoneField, codeField, canSend, canLogin, label, timer, authTask>>
vars == <<sessionVars, formVars>>
-----------------------------------------------------------------------------
Off == -1
NoTimer == [t \in TimerIds |-> Off]

\* A LoginActivity as it is created.
FreshForm(p, c, send, enter, text, timers, task) ==
  /\ p = NoUser /\ c = "empty"
  /\ send = FALSE /\ enter = FALSE /\ text = "get"
  /\ timers = NoTimer /\ task = "none"

Init ==
  /\ SessionInit
  /\ FreshForm(phoneField, codeField, canSend, canLogin, label, timer, authTask)

\* The form is on display: showProgress hides it while a task runs.
FormShown == screen = "login" /\ authTask = "none"

Running == {t \in TimerIds : timer[t] # Off}
-----------------------------------------------------------------------------
OpenForm ==
  /\ OpenLogin
  /\ FreshForm(phoneField', codeField', canSend', canLogin', label', timer', authTask')

\* The watcher of the phone field enables the SMS button, countdown or not,
\* and leaves the login button alone.
TypePhone(p) ==
  /\ FormShown
  /\ phoneField' = p
  /\ canSend' = (p # NoUser)
  /\ UNCHANGED <<sessionVars, codeField, canLogin, label, timer, authTask>>

\* Faulty variant of TypeCode: the watcher only ever enables the button.
TypeCodeEnabling(c) ==
  /\ FormShown
  /\ codeField' = c
  /\ canLogin' = (canLogin \/ (phoneField # NoUser /\ c # "empty"))
  /\ UNCHANGED <<sessionVars, phoneField, canSend, label, timer, authTask>>

\* The watcher of the code field.
TypeCode(c) ==
  /\ FormShown
  /\ codeField' = c
  /\ canLogin' = (phoneField # NoUser /\ c # "empty")
  /\ UNCHANGED <<sessionVars, phoneField, canSend, label, timer, authTask>>

\* The SMS button disables itself and starts a countdown.
AskCode ==
  /\ FormShown /\ canSend
  /\ canSend' = FALSE
  /\ \E t \in TimerIds \ Running : timer' = [timer EXCEPT ![t] = CountFrom]
  /\ UNCHANGED <<sessionVars, phoneField, codeField, canLogin, label, authTask>>

\* Faulty variants of Tick: a countdown that is not cancelled at its end, and
\* one that is cancelled a second too early.
TickForever(t) ==
  /\ screen = "login"
  /\ timer' = [timer EXCEPT ![t] = timer[t] - 1]
  /\ label' = IF timer[t] < 1 THEN "again" ELSE "counting"
  /\ canSend' = (canSend \/ timer[t] < 1)
  /\ UNCHANGED <<sessionVars, phoneField, codeField, canLogin, authTask>>

TickCutShort(t) ==
  /\ screen = "login" /\ t \in Running
  /\ timer' = [timer EXCEPT ![t] = IF timer[t] <= 1 THEN Off ELSE timer[t] - 1]
  /\ label' = "counting"
  /\ UNCHANGED <<sessionVars, phoneField, codeField, canSend, canLogin, authTask>>

\* A countdown posts its next number to countDownHandler, which shows it; the
\* last one enables the button, whatever other countdowns are at.
Tick(t) ==
  /\ screen = "login" /\ t \in Running
  /\ timer' = [timer EXCEPT ![t] = timer[t] - 1]
  /\ label' = IF timer[t] < 1 THEN "again" ELSE "counting"
  /\ canSend' = (canSend \/ timer[t] < 1)
  /\ UNCHANGED <<sessionVars, phoneField, codeField, canLogin, authTask>>

\* btnLogin's listener (the one set last) sends what the fields hold.
PressLogin(l) ==
  /\ FormShown /\ canLogin
  /\ SendLogin(l, phoneField)
  /\ UNCHANGED formVars

\* The keyboard's Done key: attemptLogin.
AttemptLogin ==
  /\ FormShown
  /\ codeField # "short" /\ phoneField # NoUser
  /\ authTask' = "running"
  /\ UNCHANGED <<sessionVars, phoneField, codeField, canSend, canLogin, label, timer>>

\* UserLoginTask.onPostExecute: for whoever is not in DUMMY_CREDENTIALS, which
\* no phone is, the task has succeeded and the screen finishes.
AuthDone ==
  /\ authTask = "running"
  /\ CloseLogin
  /\ authTask' = "success"
  /\ UNCHANGED <<phoneField, codeField, canSend, canLogin, label, timer>>

\* onSkip or the back key; then the answers, and the screens elsewhere.  The
\* form of a screen that is gone is of no more interest.
Elsewhere ==
  \/ CloseLogin \/ Launch \/ OpenSettings \/ OpenUserInfo \/ Logout \/ CloseScreen
  \/ Resume \/ Leave \/ ProcessDies

Answers ==
  \E l \in LoginIds :
    LoginRejected(l) \/ FinishLogin(l) \/ \E a \in LoginAnswers : SaveLogin(l, a)

Next ==
  \/ OpenForm \/ AskCode \/ AttemptLogin \/ AuthDone
  \/ \E p \in Tokens : TypePhone(p)
  \/ \E c \in {"empty", "short", "full"} : TypeCode(c)
  \/ \E t \in TimerIds : Tick(t)
  \/ \E l \in LoginIds : PressLogin(l)
  \/ Elsewhere /\ UNCHANGED formVars
  \/ Answers /\ UNCHANGED formVars

Spec == Init /\ [][Next]_vars

\* A java.util.Timer and the UI thread's queue run on; so does an AsyncTask.
Fairness == WF_vars(AuthDone) /\ \A t \in TimerIds : WF_vars(Tick(t))

FairSpec == Spec /\ Fairness
-----------------------------------------------------------------------------
LoginScreenTypeOK ==
  /\ SessionTypeOK
  /\ phoneField \in Tokens /\ codeField \in {"empty", "short", "full"}
  /\ canSend \in BOOLEAN /\ canLogin \in BOOLEAN
  /\ label \in {"get", "counting", "again"}
  /\ timer \in [TimerIds -> Off .. CountFrom]
  /\ authTask \in {"none", "running", "success"}

\* The SMS button does not die: with a phone in the field it is enabled, or
\* becomes so while the user waits, however many countdowns were started and
\* however the field was edited meanwhile (the watcher and the countdowns
\* enable it independently of each other).
SmsButtonComesBack ==
  screen = "login" /\ phoneField # NoUser /\ ~canSend
    ~> canSend \/ phoneField = NoUser \/ screen # "login"

\* A login request never leaves without a code: the button's state may be
\* stale with respect to the phone, which its watcher does not watch, but
\* never to the code.
RequestHasCode ==
  [][\A l \in LoginIds :
       login[l].pc = "idle" /\ login'[l].pc = "sent" => codeField # "empty"]_vars

\* What the countdown says on the button, "s后重新获取" (to be got again after so
\* many seconds): no code can be asked for while it is shown.
CountdownBlocksSms ==
  screen = "login" /\ label = "counting" => ~canSend

\* What attemptLogin's comment says: with missing fields the errors are
\* presented and no actual login attempt is made.
AttemptHasFields ==
  authTask = "running" => phoneField # NoUser /\ codeField # "empty"
=============================================================================
