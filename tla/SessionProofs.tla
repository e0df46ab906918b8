--------------------------- MODULE SessionProofs ---------------------------
(***************************************************************************)
(* What holds of the session (Session) for every set of accounts and of    *)
(* login requests.  That a token brought by one answer is there when       *)
(* another answer closes the screen rests on two facts: a logout is        *)
(* impossible while the login screen is there (OnlyLoginScreenOwns), and   *)
(* no answer takes a token away (TokenOutlives).                           *)
(***************************************************************************)
EXTENDS Session, TLAPS

\* As long as the answer that brought it is being handled for a login screen
\* on display, there is a token.
TokenOutlives == \A l \in LoginIds : Handling(l) /\ login[l].stored => IsLogin

SessionInv == SessionTypeOK /\ OnlyLoginScreenOwns /\ TokenOutlives

\* The initial state satisfies the invariant.
LEMMA SessionInitInv == SessionInit => SessionInv
  BY SessionAssumption
     DEF SessionInit, SessionInv, SessionTypeOK, OnlyLoginScreenOwns, TokenOutlives,
         Handling, Tokens, Screens, LoginState, NoLogin

\* Every step of the session preserves it.
LEMMA SessionStepInv == SessionInv /\ [SessionNext]_sessionVars => SessionInv'
<1> SUFFICES ASSUME SessionInv, [SessionNext]_sessionVars
             PROVE  SessionInv'
  OBVIOUS
<1> USE SessionAssumption
    DEF SessionInv, SessionTypeOK, OnlyLoginScreenOwns, TokenOutlives, Handling, IsLogin,
        Tokens, Screens, LoginState, NoLogin
<1>1. CASE Launch \/ OpenLogin \/ OpenSettings \/ OpenUserInfo \/ Resume \/ Leave
  <2>1. \A l \in LoginIds : ~login[l].here
    BY <1>1 DEF Launch, OpenLogin, OpenSettings, OpenUserInfo, Resume, Leave
  <2> QED
    BY <1>1, <2>1 DEF Launch, OpenLogin, OpenSettings, OpenUserInfo, Resume, Leave
<1>2. CASE CloseScreen \/ Logout
  <2>1. \A l \in LoginIds : ~login[l].here
    BY <1>2 DEF CloseScreen, Logout
  <2> QED
    BY <1>2, <2>1 DEF CloseScreen, Logout
<1>3. CASE CloseLogin
  <2>1. /\ login' \in [LoginIds -> LoginState]
        /\ \A l \in LoginIds : ~login'[l].here
    BY <1>3 DEF CloseLogin, Orphaned
  <2> QED
    BY <1>3, <2>1 DEF CloseLogin
<1>4. CASE ProcessDies
  BY <1>4 DEF ProcessDies
<1>5. ASSUME NEW l \in LoginIds, NEW u \in Tokens, SendLogin(l, u)
      PROVE  SessionInv'
  BY <1>5 DEF SendLogin
<1>6. ASSUME NEW l \in LoginIds, LoginRejected(l)
      PROVE  SessionInv'
  BY <1>6 DEF LoginRejected
<1>7. ASSUME NEW l \in LoginIds, NEW a \in LoginAnswers, SaveLogin(l, a)
      PROVE  SessionInv'
  <2>1. a.stored \in BOOLEAN /\ a.code \in {"zero", "other", "unread"}
    BY DEF LoginAnswers
  <2>2. login' \in [LoginIds -> LoginState]
    BY <1>7, <2>1 DEF SaveLogin, Answered
  <2>3. token' \in Tokens /\ (IsLogin => IsLogin') /\ (a.stored => IsLogin')
    BY <1>7 DEF SaveLogin
  <2>4. \A k \in LoginIds :
          /\ login'[k].here = login[k].here
          /\ k # l => login'[k] = login[k]
    BY <1>7 DEF SaveLogin, Answered
  <2>5. login'[l].stored = a.stored
    BY <1>7 DEF SaveLogin, Answered
  <2>6. TokenOutlives'
    BY <2>3, <2>4, <2>5
  <2> QED
    BY <1>7, <2>2, <2>3, <2>4, <2>6 DEF SaveLogin
<1>8. ASSUME NEW l \in LoginIds, FinishLogin(l)
      PROVE  SessionInv'
  BY ZenonT(20), <1>8 DEF FinishLogin, Orphaned
<1>9. CASE UNCHANGED sessionVars
  BY <1>9 DEF sessionVars
<1> QED
  BY <1>1, <1>2, <1>3, <1>4, <1>5, <1>6, <1>7, <1>8, <1>9 DEF SessionNext

\* In every state of the session the variables have their types, only the
\* login screen on display owns requests, and a token one of its answers has
\* brought is still there while that answer is handled (the login handler of
\* LoginActivity, beside whatever other requests, screens and logouts there
\* are, with answers that have a token, a code 0, both or neither).
THEOREM SessionSafe == SessionSpec => []SessionInv
  BY SessionInitInv, SessionStepInv, PTL DEF SessionSpec

\* Only the LoginActivity on display owns requests: no answer ever closes
\* another screen (finish() in LoginActivity's onResponse).
THEOREM LoginScreenOwnsAlone == SessionSpec => []OnlyLoginScreenOwns
<1>1. SessionInv => OnlyLoginScreenOwns
  BY DEF SessionInv
<1> QED
  BY <1>1, SessionSafe, PTL

\* Of any number of requests of one login screen, a token that one has brought
\* is there when the code 0 of another finishes the screen (saveLoginContent
\* and finish() in LoginActivity's onResponse, on OkHttp's threads).
THEOREM FinishFindsToken == SessionSpec => []ClosesLoggedIn
<1>1. SessionInv => ClosesLoggedIn
  BY DEF SessionInv, TokenOutlives, ClosesLoggedIn
<1> QED
  BY <1>1, SessionSafe, PTL
=============================================================================
