------------------------------ MODULE Session ------------------------------
(***************************************************************************)
(* The login session of the e-ticket app: the token kept in the shared     *)
(* preferences (storage/AppStore.java), the screens started from           *)
(* MainActivity that change it or depend on it (LoginActivity,             *)
(* SystemSettingActivity, UserInfoActivity), and the login requests, whose *)
(* answers arrive on OkHttp's threads in any order and at any time, also   *)
(* after the screen that asked has gone.                                   *)
(*                                                                         *)
(* A token is identified with the account it authenticates.  The modules   *)
(* TicketCode and Account extend this one: they conjoin to each of its     *)
(* actions what the same handler does to their own state.                  *)
(***************************************************************************)
CONSTANTS
  Users,     \* the accounts, named by their phone number
  NoUser,    \* no token in the preferences: isLogin() is false
  LoginIds   \* bound: login requests that can be in flight together

ASSUME SessionAssumption == NoUser \notin Users

VARIABLES
  token,     \* AppStore.TOKEN, persistent
  login,     \* login[l]: the login request l and the thread handling its answer
  screen     \* the activity in the foreground, or why there is none

sessionVars == <<token, login, screen>>
-----------------------------------------------------------------------------
Tokens == Users \cup {NoUser}

\* "dead": no process.  "home": the process lives, MainActivity is destroyed.
\* "closing": a screen above MainActivity has called finish() and MainActivity
\* has not resumed yet.
Screens == {"dead", "home", "main", "login", "settings", "userinfo", "closing"}

\* sent: waiting for the answer.  saved: saveLoginContent() has run.
\* here: the LoginActivity that sent the request is still on the screen.
\* stored: the answer had an app_token, which is stored.  code: what the handler
\* reads of the answer after that.
LoginState == [pc : {"idle", "sent", "saved"}, phone : Tokens, stored : BOOLEAN,
               code : {"zero", "other", "unread"}, here : BOOLEAN]

NoLogin == [pc |-> "idle", phone |-> NoUser, stored |-> FALSE, code |-> "unread",
            here |-> FALSE]

\* An answer with a "content" object: a token or none, whatever its code; the
\* handler does not ask whether the two go together.  With neither a token nor
\* a code it is as good as rejected.
LoginAnswers ==
  {a \in [stored : BOOLEAN, code : {"zero", "other", "unread"}] :
     a.stored \/ a.code # "unread"}

IsLogin == token # NoUser

\* MainActivity and its fragments exist.
Attached == screen \notin {"dead", "home"}

\* The login screen goes away: its requests stay in flight without it.
Orphaned(logins) == [l \in LoginIds |-> [logins[l] EXCEPT !.here = FALSE]]
-----------------------------------------------------------------------------
SessionInit ==
  /\ token = NoUser
  /\ login = [l \in LoginIds |-> NoLogin]
  /\ screen = "dead"

\* SplashActivity.onCreate starts MainActivity (by way of the guide the first
\* time) and finishes.
Launch ==
  /\ screen \in {"dead", "home"}
  /\ screen' = "main"
  /\ UNCHANGED <<token, login>>

OpenLogin ==
  /\ screen = "main"
  /\ screen' = "login"
  /\ UNCHANGED <<token, login>>

OpenSettings ==
  /\ screen = "main"
  /\ screen' = "settings"
  /\ UNCHANGED <<token, login>>

\* FragmentAccount.onClickUserInfo: the profile is for those logged in.
OpenUserInfo ==
  /\ screen = "main"
  /\ IsLogin
  /\ screen' = "userinfo"
  /\ UNCHANGED <<token, login>>

\* The login button.  It stays enabled while a request is in flight, so the
\* user can send a second one, for the same account or for another, or for
\* none: the phone may have been blanked since the button was enabled.
SendLogin(l, u) ==
  /\ screen = "login"
  /\ login[l] = NoLogin
  /\ login' = [login EXCEPT ![l] = [pc |-> "sent", phone |-> u, stored |-> FALSE,
                                    code |-> "unread", here |-> TRUE]]
  /\ UNCHANGED <<token, screen>>

\* No answer, or one that is no JSON, or one without a "content" object:
\* onFailure is empty, and the exception ends onResponse before anything but
\* the raw text of the answer was stored.
LoginRejected(l) ==
  /\ login[l].pc = "sent"
  /\ login' = [login EXCEPT ![l] = NoLogin]
  /\ UNCHANGED <<token, screen>>

\* What of the answer the rest of the handler goes by.
Answered(l, a) ==
  login' = [login EXCEPT ![l] = [pc |-> "saved", phone |-> login[l].phone,
              stored |-> a.stored, code |-> a.code, here |-> login[l].here]]

\* Faulty variant of SaveLogin: an answer without a token clears the one stored.
SaveLoginClears(l, a) ==
  /\ login[l].pc = "sent"
  /\ a.stored => login[l].phone # NoUser
  /\ token' = IF a.stored THEN login[l].phone ELSE NoUser
  /\ Answered(l, a)
  /\ UNCHANGED screen

\* saveLoginContent commits the token of the answer, when there is one; a
\* missing one is caught, and leaves the token there is.  No server grants one
\* for no account.
SaveLogin(l, a) ==
  /\ login[l].pc = "sent"
  /\ a.stored => login[l].phone # NoUser
  /\ token' = IF a.stored THEN login[l].phone ELSE token
  /\ Answered(l, a)
  /\ UNCHANGED screen

\* The rest of onResponse: code 0, with or without a token, finishes the
\* LoginActivity that sent the request, which does nothing once that activity
\* is gone.
FinishLogin(l) ==
  LET closes == login[l].code = "zero" /\ login[l].here
  IN  /\ login[l].pc = "saved"
      /\ screen' = IF closes THEN "closing" ELSE screen
      /\ login' = [(IF closes THEN Orphaned(login) ELSE login) EXCEPT ![l] = NoLogin]
      /\ UNCHANGED token

\* onSkip, the back key, or UserLoginTask.onPostExecute: the login screen
\* finishes whatever its requests are doing.
CloseLogin ==
  /\ screen = "login"
  /\ screen' = "closing"
  /\ login' = Orphaned(login)
  /\ UNCHANGED token

\* SystemSettingActivity.logout: removeToken, then finish.
Logout ==
  /\ screen = "settings"
  /\ token' = NoUser
  /\ screen' = "closing"
  /\ UNCHANGED login

\* The back button of SystemSettingActivity and of UserInfoActivity.
CloseScreen ==
  /\ screen \in {"settings", "userinfo"}
  /\ screen' = "closing"
  /\ UNCHANGED <<token, login>>

\* MainActivity resumes under the finished screen.
Resume ==
  /\ screen = "closing"
  /\ screen' = "main"
  /\ UNCHANGED <<token, login>>

\* The back key on MainActivity destroys it; the process and its threads stay.
Leave ==
  /\ screen = "main"
  /\ screen' = "home"
  /\ UNCHANGED <<token, login>>

\* The process is killed, or crashes: only the preferences survive.
ProcessDies ==
  /\ screen # "dead"
  /\ screen' = "dead"
  /\ login' = [l \in LoginIds |-> NoLogin]
  /\ UNCHANGED token

SessionNext ==
  \/ Launch \/ OpenLogin \/ OpenSettings \/ OpenUserInfo \/ CloseLogin
  \/ Logout \/ CloseScreen \/ Resume \/ Leave \/ ProcessDies
  \/ \E l \in LoginIds, u \in Tokens : SendLogin(l, u)
  \/ \E l \in LoginIds : LoginRejected(l) \/ FinishLogin(l)
  \/ \E l \in LoginIds, a \in LoginAnswers : SaveLogin(l, a)

\* OkHttp answers or times out every call and runs its callback to the end,
\* and Android resumes the activity under a finished one.  The user, and the
\* system that kills processes, owe nothing.
SessionFairness ==
  /\ WF_sessionVars(Resume)
  /\ \A l \in LoginIds :
       /\ WF_sessionVars(LoginRejected(l) \/ \E a \in LoginAnswers : SaveLogin(l, a))
       /\ WF_sessionVars(FinishLogin(l))

SessionSpec == SessionInit /\ [][SessionNext]_sessionVars

SessionFairSpec == SessionSpec /\ SessionFairness
-----------------------------------------------------------------------------
SessionTypeOK ==
  /\ token \in Tokens
  /\ login \in [LoginIds -> LoginState]
  /\ screen \in Screens

\* The login screen is on display exactly while it can own requests: an answer
\* never closes a screen other than the login screen that asked for it
\* (finish() in LoginActivity's onResponse runs on that activity only).
OnlyLoginScreenOwns ==
  \A l \in LoginIds : login[l].here => screen = "login"

\* An answer of a login screen that is being handled.
Handling(l) == login[l].pc = "saved" /\ login[l].here

\* A token that one answer of the login screen brought is there when the code 0
\* of another one, with a token or without, finishes that screen: of two
\* requests of one screen, answered in any order, none takes away what the
\* other has got the user.  (A code 0 alone may well finish the screen with
\* nobody logged in: LoginActivity does not ask for a token.)
ClosesLoggedIn ==
  \A k, l \in LoginIds :
    Handling(k) /\ login[k].stored /\ Handling(l) /\ login[l].code = "zero" => IsLogin
=============================================================================
