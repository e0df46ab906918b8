--------------------------- MODULE AccountProofs ---------------------------
(***************************************************************************)
(* What holds of the app's user and of the account page (Account) for      *)
(* every set of accounts and any number of requests and calls.             *)
(*                                                                         *)
(* UserIsLoggedIn speaks of moments when no login handler is at work.  In  *)
(* between (Identity), a handler that has stored the token has not begun   *)
(* to name its user (Pending), or the cache is its user's already and the  *)
(* phone is, or is about to be, committed.                                 *)
(***************************************************************************)
EXTENDS Account, SessionProofs

\* A login handler has stored the current token and has not named its user.
Pending ==
  \E l \in LoginIds :
    LoggingIn(l) /\ login[l].phone = token /\ naming[l] = "no"

CacheAgrees ==
  \/ CachedUser \in {Nobody, token}
  \/ loading = "blank" /\ selfUser = NoUser

PhoneAgrees ==
  \/ phone = token
  \/ \E l \in LoginIds : LoggingIn(l) /\ naming[l] = "cached" /\ userOf[l] = token

Identity == ~mixed /\ IsLogin /\ ~Pending => CacheAgrees /\ PhoneAgrees

\* Only the handler of an answer with code 0 names its user.
NamesAtZero ==
  \A l \in LoginIds : naming[l] # "no" => login[l].pc = "saved" /\ login[l].code = "zero"

DetachedPage == ~Attached => page = "none"

ProfileLoggedIn == screen = "userinfo" => IsLogin

AccountInv ==
  /\ SessionInv /\ AccountTypeOK
  /\ Identity /\ NamesAtZero /\ DetachedPage /\ ProfileLoggedIn
  /\ UserPageHasUser /\ NoPageOfTheDeparted
-----------------------------------------------------------------------------
\* Every step of the app as Account describes it is a step of the session.
LEMMA AccountStepsSession == [Next]_vars => [SessionNext]_sessionVars
<1> SUFFICES ASSUME [Next]_vars
             PROVE  [SessionNext]_sessionVars
  OBVIOUS
<1> USE DEF SessionNext
<1>1. CASE StartApp \/ Browse \/ ShowUserInfo \/ ComeBack \/ DestroyMain \/ ProcessEnds
  BY <1>1 DEF StartApp, Browse, ShowUserInfo, ComeBack, DestroyMain, ProcessEnds, Tokens
<1>2. CASE ChooseAccount \/ Feedback \/ EditProfile \/ AssignBlank \/ SetLoadedPhone
  BY <1>2 DEF ChooseAccount, Feedback, EditProfile, AssignBlank, SetLoadedPhone
<1>3. ASSUME NEW l \in LoginIds, RejectLogin(l) \/ EndLogin(l)
      PROVE  SessionNext
  BY <1>3 DEF RejectLogin, EndLogin
<1>4. ASSUME NEW l \in LoginIds, NameCached(l) \/ NameCommitted(l)
      PROVE  UNCHANGED sessionVars
  BY <1>4 DEF NameCached, NameCommitted
<1>5. ASSUME NEW l \in LoginIds, NEW a \in LoginAnswers, StoreLogin(l, a)
      PROVE  SessionNext
  BY <1>5 DEF StoreLogin
<1>6. ASSUME NEW i \in InfoIds, InfoStep(i)
      PROVE  UNCHANGED sessionVars
  BY <1>6 DEF InfoStep, InfoSend, InfoAnswered, InfoFails, InfoCached, InfoCommitted
<1>7. ASSUME NEW m \in MeIds, MeAnswered(m) \/ MeFails(m)
      PROVE  UNCHANGED sessionVars
  BY <1>7 DEF MeAnswered, MeFails
<1>8. CASE UNCHANGED vars
  BY <1>8 DEF vars
<1> QED
  BY <1>1, <1>2, <1>3, <1>4, <1>5, <1>6, <1>7, <1>8 DEF Next

\* The app's user and the account page do nothing to the session that Session
\* does not describe.
THEOREM AccountImplementsSession == Spec => SessionSpec
<1>1. Init => SessionInit
  BY DEF Init
<1> QED
  BY <1>1, AccountStepsSession, PTL DEF Spec, SessionSpec
-----------------------------------------------------------------------------
\* The initial state satisfies the invariant.
LEMMA AccountInitInv == Init => AccountInv
<1> SUFFICES ASSUME Init
             PROVE  AccountInv
  OBVIOUS
<1>1. SessionInv
  BY SessionInitInv DEF Init
<1>2. AccountTypeOK
  BY <1>1 DEF Init, AccountTypeOK, SessionInv, InfoState, NoInfo, MeState, NoMe, Tokens
<1>3. ~IsLogin /\ ~Attached /\ screen = "dead"
  BY DEF Init, SessionInit, IsLogin, Attached
<1> QED
  BY <1>1, <1>2, <1>3 DEF Init, AccountInv, Identity, NamesAtZero, DetachedPage,
     ProfileLoggedIn, UserPageHasUser, NoPageOfTheDeparted

\* A call begun in a free slot has its type, and nothing else changes.
LEMMA BeginInfoType ==
  ASSUME info \in [InfoIds -> InfoState], NEW state \in InfoState, BeginInfo(state)
  PROVE  info' \in [InfoIds -> InfoState]
  BY DEF BeginInfo

LEMMA SpawnInfoType ==
  ASSUME info \in [InfoIds -> InfoState], SpawnInfo
  PROVE  info' \in [InfoIds -> InfoState]
<1>1. [pc |-> "spawned", asked |-> NoUser] \in InfoState
  BY DEF InfoState, Tokens
<1> QED
  BY <1>1, BeginInfoType DEF SpawnInfo

\* refreshPage asks for the current account and leaves no user's page behind.
LEMMA RefreshPageType ==
  ASSUME me \in [MeIds -> MeState], token \in Tokens, RefreshPage
  PROVE  /\ me' \in [MeIds -> MeState]
         /\ page' \in {"guest", "user"}
         /\ page' = "user" => IsLogin
<1>1. CASE IsLogin
  <2>1. PICK m \in MeIds : me' = [me EXCEPT ![m] = [asked |-> token, host |-> TRUE]]
    BY <1>1 DEF RefreshPage
  <2>2. [asked |-> token, host |-> TRUE] \in MeState
    BY DEF MeState
  <2> QED
    BY <1>1, <2>1, <2>2 DEF RefreshPage
<1>2. CASE ~IsLogin
  BY <1>2 DEF RefreshPage
<1> QED
  BY <1>1, <1>2

\* Every step keeps the types.
LEMMA AccountTypeStep == AccountInv /\ [Next]_vars => AccountTypeOK'
<1> SUFFICES ASSUME AccountInv, [Next]_vars
             PROVE  AccountTypeOK'
  OBVIOUS
<1>0. SessionTypeOK'
  BY AccountStepsSession, SessionStepInv DEF AccountInv, SessionInv
<1> USE <1>0 DEF AccountInv, AccountTypeOK, SessionTypeOK, identityVars, pageVars, accountVars
<1>1. CASE StartApp
  BY <1>1, SpawnInfoType DEF StartApp
<1>2. CASE ChooseAccount \/ ComeBack
  BY <1>2, RefreshPageType DEF ChooseAccount, ComeBack
<1>3. CASE Browse
  BY <1>3 DEF Browse
<1>4. CASE ShowUserInfo \/ Feedback
  BY <1>4 DEF ShowUserInfo, Feedback, BeginGetSelfUser
<1>5. CASE EditProfile
  <2>1. [pc |-> "sent", asked |-> token] \in InfoState
    BY DEF InfoState
  <2> QED
    BY <1>5, <2>1, BeginInfoType DEF EditProfile
<1>6. CASE DestroyMain
  <2>1. me' \in [MeIds -> MeState]
    BY <1>6 DEF DestroyMain, MeState
  <2> QED
    BY <1>6, <2>1 DEF DestroyMain, Tokens
<1>7. CASE AssignBlank
  BY <1>7 DEF AssignBlank, Tokens
<1>8. CASE SetLoadedPhone
  BY <1>8 DEF SetLoadedPhone, OtherThan
<1>9. CASE ProcessEnds
  BY <1>9 DEF ProcessEnds, NoInfo, InfoState, NoMe, MeState, Tokens
<1>10. ASSUME NEW l \in LoginIds, RejectLogin(l) \/ EndLogin(l)
       PROVE  AccountTypeOK'
  BY <1>10, SpawnInfoType DEF RejectLogin, EndLogin, StartInfo
<1>11. ASSUME NEW l \in LoginIds, NEW a \in LoginAnswers, StoreLogin(l, a)
       PROVE  AccountTypeOK'
  BY <1>11 DEF StoreLogin
<1>12. ASSUME NEW l \in LoginIds, NameCached(l) \/ NameCommitted(l)
       PROVE  AccountTypeOK'
  <2>1. /\ l \in Setters /\ login[l].phone \in Tokens /\ userOf[l] \in Tokens
        /\ NoUser \in Tokens
    BY DEF Setters, LoginState, Tokens
  <2>2. CASE NameCached(l)
    BY <2>1, <2>2 DEF NameCached, AssignSelf, OtherThan
  <2>3. CASE NameCommitted(l)
    BY <2>1, <2>3 DEF NameCommitted, CommitPhone, OtherThan
  <2> QED
    BY <1>12, <2>2, <2>3
<1>13. ASSUME NEW i \in InfoIds, InfoSend(i) \/ InfoAnswered(i) \/ InfoFails(i)
       PROVE  AccountTypeOK'
  <2>1. info' \in [InfoIds -> InfoState]
    <3>1. CASE InfoSend(i)
      BY <3>1 DEF InfoSend, InfoState
    <3>2. CASE InfoAnswered(i)
      BY <3>2 DEF InfoAnswered, InfoState
    <3>3. CASE InfoFails(i)
      BY <3>3 DEF InfoFails, InfoState, NoInfo, Tokens
    <3> QED
      BY <1>13, <3>1, <3>2, <3>3
  <2> QED
    BY <1>13, <2>1 DEF InfoSend, InfoAnswered, InfoFails
<1>14. ASSUME NEW i \in InfoIds, InfoCached(i) \/ InfoCommitted(i)
       PROVE  AccountTypeOK'
  <2>1. /\ i \in Setters /\ info[i].asked \in Tokens /\ userOf[i] \in Tokens
        /\ NoUser \in Tokens
    BY DEF Setters, InfoState, Tokens
  <2>2. CASE InfoCached(i)
    <3>1. info' \in [InfoIds -> InfoState]
      BY <2>2 DEF InfoCached, InfoState
    <3> QED
      BY <2>1, <2>2, <3>1 DEF InfoCached, AssignSelf, OtherThan
  <2>3. CASE InfoCommitted(i)
    <3>1. info' \in [InfoIds -> InfoState]
      BY <2>1, <2>3 DEF InfoCommitted, InfoState, NoInfo
    <3> QED
      BY <2>1, <2>3, <3>1 DEF InfoCommitted, CommitPhone, OtherThan
  <2> QED
    BY <1>14, <2>2, <2>3
<1>15. ASSUME NEW m \in MeIds, MeAnswered(m) \/ MeFails(m)
       PROVE  AccountTypeOK'
  <2>1. NoMe \in MeState /\ me[m].asked \in Tokens
    BY DEF NoMe, MeState, Tokens
  <2> QED
    BY <1>15, <2>1 DEF MeAnswered, MeFails
<1>16. CASE UNCHANGED vars
  BY <1>16 DEF vars
<1> QED
  BY <1>1, <1>2, <1>3, <1>4, <1>5, <1>6, <1>7, <1>8, <1>9, <1>10, <1>11, <1>12, <1>13,
     <1>14, <1>15, <1>16 DEF Next, InfoStep
-----------------------------------------------------------------------------
\* Every step keeps what is known of the pages: a detached page is gone, a
\* user's page on the main screen and the profile mean that somebody is logged
\* in, and the profile has a user to show.
LEMMA PageStep ==
  AccountInv /\ [Next]_vars
    => /\ DetachedPage' /\ ProfileLoggedIn'
       /\ UserPageHasUser' /\ NoPageOfTheDeparted'
<1> DEFINE Pages == DetachedPage /\ ProfileLoggedIn /\ UserPageHasUser /\ NoPageOfTheDeparted
<1> SUFFICES ASSUME AccountInv, [Next]_vars
             PROVE  Pages'
  OBVIOUS
<1>0. /\ Pages /\ token \in Tokens /\ phone \in Tokens /\ me \in [MeIds -> MeState]
      /\ login \in [LoginIds -> LoginState] /\ OnlyLoginScreenOwns
      /\ Nobody \notin Tokens /\ Nobody \notin Setters
  BY AccountAssumption DEF AccountInv, AccountTypeOK, SessionTypeOK, SessionInv, Setters
<1> USE DEF DetachedPage, ProfileLoggedIn, UserPageHasUser, NoPageOfTheDeparted,
    Attached, UIIdle
<1>1. CASE StartApp
  BY <1>0, <1>1 DEF StartApp, Launch, identityVars, pageVars
<1>2. CASE ChooseAccount \/ ComeBack
  BY <1>0, <1>2, RefreshPageType DEF ChooseAccount, ComeBack, Resume, sessionVars,
     identityVars, IsLogin
<1>3. CASE Browse
  BY <1>0, <1>3 DEF Browse, OpenLogin, OpenSettings, CloseLogin, CloseScreen, Logout,
     SendLogin, accountVars, identityVars, pageVars, IsLogin
<1>4. CASE ShowUserInfo
  BY <1>0, <1>4 DEF ShowUserInfo, OpenUserInfo, BeginGetSelfUser, identityVars, pageVars,
     IsLogin
<1>5. CASE Feedback \/ EditProfile
  BY <1>0, <1>5 DEF Feedback, EditProfile, BeginGetSelfUser, sessionVars, identityVars,
     pageVars, IsLogin
<1>6. CASE DestroyMain
  BY <1>0, <1>6 DEF DestroyMain, Leave
<1>7. CASE AssignBlank \/ SetLoadedPhone
  BY <1>0, <1>7 DEF AssignBlank, SetLoadedPhone, sessionVars, pageVars, IsLogin
<1>8. CASE ProcessEnds
  BY <1>8 DEF ProcessEnds, ProcessDies
<1>9. ASSUME NEW l \in LoginIds, RejectLogin(l) \/ EndLogin(l)
      PROVE  Pages'
  BY <1>0, <1>9 DEF RejectLogin, LoginRejected, EndLogin, FinishLogin, OnlyLoginScreenOwns,
     accountVars, identityVars, pageVars, IsLogin
<1>10. ASSUME NEW l \in LoginIds, NEW a \in LoginAnswers, StoreLogin(l, a)
       PROVE  Pages'
  BY <1>0, <1>10 DEF StoreLogin, SaveLogin, Answered, pageVars, IsLogin, LoginState
<1>11. ASSUME NEW t \in Setters, NEW u \in Tokens,
              AssignSelf(t, u) \/ CommitPhone(t),
              UNCHANGED <<sessionVars, loading, pageVars>>
       PROVE  Pages'
  <2>1. selfUser' = Nobody => selfUser = Nobody
    BY <1>0, <1>11 DEF AssignSelf, CommitPhone, AccountInv, AccountTypeOK
  <2> QED
    BY <1>0, <1>11, <2>1 DEF sessionVars, pageVars, IsLogin
<1>12. ASSUME NEW l \in LoginIds, NameCached(l) \/ NameCommitted(l)
       PROVE  Pages'
  BY <1>0, <1>11, <1>12 DEF NameCached, NameCommitted, Setters, LoginState
<1>13. ASSUME NEW i \in InfoIds, InfoCached(i) \/ InfoCommitted(i)
       PROVE  Pages'
  BY <1>0, <1>11, <1>13 DEF InfoCached, InfoCommitted, Setters, InfoState, AccountInv,
     AccountTypeOK
<1>14. ASSUME NEW i \in InfoIds, InfoSend(i) \/ InfoAnswered(i) \/ InfoFails(i)
       PROVE  Pages'
  BY <1>0, <1>14 DEF InfoSend, InfoAnswered, InfoFails, sessionVars, identityVars, pageVars,
     IsLogin
<1>15. ASSUME NEW m \in MeIds, MeAnswered(m) \/ MeFails(m)
       PROVE  Pages'
  BY <1>0, <1>15 DEF MeAnswered, MeFails, sessionVars, identityVars, IsLogin
<1>16. CASE UNCHANGED vars
  BY <1>0, <1>16 DEF vars, sessionVars, accountVars, identityVars, pageVars, IsLogin
<1> QED
  BY <1>1, <1>2, <1>3, <1>4, <1>5, <1>6, <1>7, <1>8, <1>9, <1>10, <1>12, <1>13,
     <1>14, <1>15, <1>16 DEF Next, InfoStep

\* Only the handler of an answer with code 0 is in its setSelfUser.
LEMMA NamesStep == AccountInv /\ [Next]_vars => NamesAtZero'
<1> SUFFICES ASSUME AccountInv, [Next]_vars
             PROVE  NamesAtZero'
  OBVIOUS
<1> USE DEF AccountInv, AccountTypeOK, SessionTypeOK, NamesAtZero
<1>1. CASE UNCHANGED <<login, naming>>
  BY <1>1
<1>2. CASE Browse
  BY <1>1, <1>2 DEF Browse, OpenLogin, OpenSettings, CloseLogin, Orphaned, CloseScreen,
     Logout, SendLogin, NoLogin, LoginState, accountVars, identityVars
<1>3. CASE StartApp \/ ChooseAccount \/ ShowUserInfo \/ Feedback \/ EditProfile \/ ComeBack
           \/ DestroyMain \/ AssignBlank \/ SetLoadedPhone
  BY <1>1, <1>3 DEF StartApp, Launch, ChooseAccount, ShowUserInfo, OpenUserInfo, Feedback,
     EditProfile, ComeBack, Resume, DestroyMain, Leave, AssignBlank, SetLoadedPhone,
     sessionVars, identityVars
<1>4. CASE ProcessEnds
  BY <1>4 DEF ProcessEnds
<1>5. ASSUME NEW l \in LoginIds, RejectLogin(l)
      PROVE  NamesAtZero'
  BY <1>5 DEF RejectLogin, LoginRejected, accountVars, identityVars
<1>6. ASSUME NEW l \in LoginIds, EndLogin(l)
      PROVE  NamesAtZero'
  BY <1>6 DEF EndLogin, FinishLogin, Orphaned, LoginState
<1>7. ASSUME NEW l \in LoginIds, NEW a \in LoginAnswers, StoreLogin(l, a)
      PROVE  NamesAtZero'
  BY <1>7 DEF StoreLogin, SaveLogin, Answered
<1>8. ASSUME NEW l \in LoginIds, NameCached(l) \/ NameCommitted(l)
      PROVE  NamesAtZero'
  BY <1>8 DEF NameCached, NameCommitted, sessionVars
<1>9. ASSUME NEW i \in InfoIds, InfoStep(i)
      PROVE  NamesAtZero'
  BY <1>1, <1>9 DEF InfoStep, InfoSend, InfoAnswered, InfoFails, InfoCached, InfoCommitted,
     sessionVars, identityVars
<1>10. ASSUME NEW m \in MeIds, MeAnswered(m) \/ MeFails(m)
       PROVE  NamesAtZero'
  BY <1>1, <1>10 DEF MeAnswered, MeFails, sessionVars, identityVars
<1>11. CASE UNCHANGED vars
  BY <1>1, <1>11 DEF vars, sessionVars, accountVars, identityVars
<1> QED
  BY <1>2, <1>3, <1>4, <1>5, <1>6, <1>7, <1>8, <1>9, <1>10, <1>11 DEF Next

\* The first half of setSelfUser(u) on thread t makes the cache agree, or is
\* marked as a mix of accounts.
LEMMA AssignSelfIdentity ==
  ASSUME AccountInv, NEW t \in Setters, NEW u \in Tokens, AssignSelf(t, u),
         UNCHANGED <<token, login, loading>>,
         \/ t \in InfoIds /\ UNCHANGED naming
         \/ t \in LoginIds /\ naming' = [naming EXCEPT ![t] = "cached"]
  PROVE  Identity'
<1> SUFFICES ASSUME ~mixed', IsLogin', ~Pending'
             PROVE  CacheAgrees' /\ PhoneAgrees'
  BY DEF Identity
<1>1. u = token /\ ~mixed /\ IsLogin
  BY DEF AssignSelf, OtherThan, IsLogin
<1>2. CachedUser' = token'
  BY <1>1 DEF AssignSelf, CachedUser, AccountInv, AccountTypeOK
<1>3. CASE t \in LoginIds /\ LoggingIn(t)
  <2>1. naming'[t] = "cached" /\ userOf'[t] = token' /\ LoggingIn(t)'
    BY <1>1, <1>3, AccountAssumption DEF AssignSelf, AccountInv, AccountTypeOK, LoggingIn
  <2> QED
    BY <1>2, <1>3, <2>1 DEF CacheAgrees, PhoneAgrees
<1>4. CASE ~(t \in LoginIds /\ LoggingIn(t))
  <2>1. \A l \in LoginIds :
          /\ LoggingIn(l)' = LoggingIn(l)
          /\ LoggingIn(l) => naming'[l] = naming[l] /\ userOf'[l] = userOf[l]
    BY <1>4, AccountAssumption DEF LoggingIn, AssignSelf, AccountInv, AccountTypeOK, Setters
  <2>2. ~Pending
    BY <2>1 DEF Pending
  <2>3. PhoneAgrees
    BY <1>1, <2>2 DEF AccountInv, Identity
  <2> QED
    BY <1>2, <2>1, <2>3 DEF CacheAgrees, PhoneAgrees, AssignSelf
<1> QED
  BY <1>3, <1>4

\* The second half makes the phone agree, or is marked.
LEMMA CommitPhoneIdentity ==
  ASSUME AccountInv, NEW t \in Setters, CommitPhone(t),
         UNCHANGED <<token, login, loading>>,
         \/ t \in InfoIds /\ UNCHANGED naming
         \/ t \in LoginIds /\ naming[t] # "no" /\ naming' = [naming EXCEPT ![t] = "named"]
  PROVE  Identity'
<1> SUFFICES ASSUME ~mixed', IsLogin', ~Pending'
             PROVE  CacheAgrees' /\ PhoneAgrees'
  BY DEF Identity
<1>1. userOf[t] = token /\ phone' = token' /\ ~mixed /\ IsLogin
  BY DEF CommitPhone, OtherThan, IsLogin
<1>2. ~Pending
  BY DEF Pending, LoggingIn, AccountInv, AccountTypeOK
<1>3. CacheAgrees
  BY <1>1, <1>2 DEF AccountInv, Identity
<1>4. token \in Tokens /\ token \notin Setters /\ Nobody \notin Setters /\ NoUser \notin Setters
  BY AccountAssumption DEF Setters, Tokens, AccountInv, AccountTypeOK, SessionTypeOK
<1>5. CASE selfUser = t
  BY <1>1, <1>4, <1>5 DEF CommitPhone, CacheAgrees, PhoneAgrees, CachedUser
<1>6. CASE selfUser # t
  <2>1. selfUser' = selfUser /\ CachedUser' = CachedUser
    BY <1>6 DEF CommitPhone, CachedUser, AccountInv, AccountTypeOK
  <2> QED
    BY <1>1, <1>3, <2>1 DEF CacheAgrees, PhoneAgrees
<1> QED
  BY <1>5, <1>6

\* Every step keeps the identity.
LEMMA IdentityStep == AccountInv /\ [Next]_vars => Identity'
<1> SUFFICES ASSUME AccountInv, [Next]_vars
             PROVE  Identity'
  OBVIOUS
<1>0. /\ Identity /\ NamesAtZero /\ token \in Tokens /\ phone \in Tokens
      /\ login \in [LoginIds -> LoginState] /\ naming \in [LoginIds -> {"no", "cached", "named"}]
      /\ userOf \in [Setters -> Tokens]
      /\ \A u \in Tokens \cup {Nobody} : u \notin Setters
      /\ NoUser \in Tokens
  BY AccountAssumption DEF AccountInv, AccountTypeOK, SessionTypeOK, Setters, Tokens
<1>1. ASSUME UNCHANGED <<token, identityVars>>,
             loading = "blank" => loading' = "blank",
             Pending => Pending',
             \A l \in LoginIds : LoggingIn(l) => LoggingIn(l)'
      PROVE  Identity'
  BY <1>0, <1>1 DEF Identity, CacheAgrees, PhoneAgrees, CachedUser, IsLogin, identityVars
<1>2. CASE StartApp \/ ChooseAccount \/ EditProfile \/ ComeBack \/ DestroyMain
  BY <1>1, <1>2 DEF StartApp, Launch, ChooseAccount, EditProfile, ComeBack, Resume,
     DestroyMain, Leave, sessionVars, Pending, LoggingIn, identityVars
<1>3. CASE ShowUserInfo \/ Feedback
  BY <1>1, <1>3 DEF ShowUserInfo, OpenUserInfo, Feedback, UIIdle, sessionVars, Pending, LoggingIn,
     identityVars
<1>4. CASE Browse
  <2>1. CASE Logout
    BY <2>1 DEF Logout, Identity, IsLogin
  <2>2. CASE OpenLogin \/ OpenSettings \/ CloseScreen
    BY <1>1, <1>4, <2>2 DEF Browse, OpenLogin, OpenSettings, CloseScreen, accountVars,
       identityVars, Pending, LoggingIn
  <2>3. CASE CloseLogin
    BY <1>0, <1>1, <1>4, <2>3 DEF Browse, CloseLogin, Orphaned, accountVars, identityVars,
       Pending, LoggingIn, LoginState
  <2>4. ASSUME NEW l \in LoginIds, NEW u \in Users, SendLogin(l, u)
        PROVE  Identity'
    BY <1>0, <1>1, <1>4, <2>4 DEF Browse, SendLogin, NoLogin, accountVars, identityVars,
       Pending, LoggingIn
  <2> QED
    BY <1>4, <2>1, <2>2, <2>3, <2>4 DEF Browse
<1>5. CASE AssignBlank
  BY <1>0, <1>5 DEF AssignBlank, Identity, CacheAgrees, PhoneAgrees, Pending, LoggingIn, IsLogin,
     sessionVars
<1>6. CASE SetLoadedPhone
  <2> SUFFICES ASSUME ~mixed', IsLogin', ~Pending'
               PROVE  CacheAgrees' /\ PhoneAgrees'
    BY DEF Identity
  <2>1. phone = token /\ phone' = token'
    BY <1>6 DEF SetLoadedPhone, OtherThan, sessionVars
  <2>2. CachedUser' = token'
    BY <1>0, <1>6, <2>1 DEF SetLoadedPhone, CachedUser, sessionVars
  <2> QED
    BY <2>1, <2>2 DEF CacheAgrees, PhoneAgrees
<1>7. CASE ProcessEnds
  <2> SUFFICES ASSUME ~mixed', IsLogin'
               PROVE  CacheAgrees' /\ PhoneAgrees'
    BY DEF Identity
  <2>1. /\ ~mixed /\ IsLogin /\ token' = token /\ phone' = phone /\ selfUser' = Nobody
        /\ \A l \in LoginIds :
             LoggingIn(l) => naming[l] = "named"
    BY <1>7 DEF ProcessEnds, ProcessDies, IsLogin
  <2>2. ~Pending /\ \A l \in LoginIds : LoggingIn(l) => naming[l] # "cached"
    BY <1>0, <2>1 DEF Pending, LoggingIn, NamesAtZero
  <2>3. phone = token
    BY <1>0, <2>1, <2>2 DEF Identity, PhoneAgrees
  <2> QED
    BY <1>0, <2>1, <2>3 DEF CacheAgrees, PhoneAgrees, CachedUser
<1>8. ASSUME NEW l \in LoginIds, RejectLogin(l)
      PROVE  Identity'
  BY <1>0, <1>1, <1>8 DEF RejectLogin, LoginRejected, accountVars, identityVars, Pending, LoggingIn
<1>9. ASSUME NEW l \in LoginIds, EndLogin(l)
      PROVE  Identity'
  <2>1. /\ UNCHANGED <<token, selfUser, userOf, phone, mixed, loading>>
        /\ login[l].pc = "saved" /\ (login[l].code = "zero" => naming[l] = "named")
        /\ naming' = [naming EXCEPT ![l] = "no"]
    BY <1>9 DEF EndLogin, FinishLogin
  <2>2. \A k \in LoginIds : k # l => /\ login'[k].pc = login[k].pc
                                    /\ login'[k].stored = login[k].stored
                                    /\ login'[k].code = login[k].code
                                    /\ login'[k].phone = login[k].phone
                                    /\ naming'[k] = naming[k]
    BY <1>0, <1>9 DEF EndLogin, FinishLogin, Orphaned, LoginState
  <2>3. Pending => Pending'
    BY <2>1, <2>2 DEF Pending, LoggingIn
  <2>4. PhoneAgrees => PhoneAgrees'
    BY <1>0, <2>1, <2>2 DEF PhoneAgrees, LoggingIn
  <2> QED
    BY <1>0, <2>1, <2>3, <2>4 DEF Identity, CacheAgrees, CachedUser, IsLogin
<1>10. ASSUME NEW l \in LoginIds, NEW a \in LoginAnswers, StoreLogin(l, a)
       PROVE  Identity'
  <2>1. \A k \in LoginIds : k # l => login'[k] = login[k]
    BY <1>0, <1>10 DEF StoreLogin, SaveLogin, Answered
  <2>2. ~LoggingIn(l) /\ naming[l] = "no"
    BY <1>0, <1>10 DEF StoreLogin, SaveLogin, LoggingIn, NamesAtZero
  <2>3. CASE a.stored /\ a.code = "zero"
    <3>1. login'[l].pc = "saved" /\ login'[l].stored /\ login'[l].code = "zero"
      BY <1>0, <1>10, <2>3 DEF StoreLogin, SaveLogin, Answered, LoginState
    <3>2. login'[l].phone = token' /\ naming'[l] = "no"
      BY <1>0, <1>10, <2>2, <2>3 DEF StoreLogin, SaveLogin, Answered, LoginState
    <3>3. Pending'
      BY <3>1, <3>2 DEF Pending, LoggingIn
    <3> QED
      BY <3>3 DEF Identity
  <2>4. CASE ~(a.stored /\ a.code = "zero")
    <3> SUFFICES ASSUME ~mixed'
                 PROVE  Identity'
      BY DEF Identity
    <3>1. UNCHANGED <<token, identityVars, loading>>
      BY <1>10, <2>4 DEF StoreLogin, identityVars, AccountInv, AccountTypeOK
    <3>2. \A k \in LoginIds : LoggingIn(k) => LoggingIn(k)' /\ login'[k] = login[k]
      BY <2>1, <2>2 DEF LoggingIn
    <3>3. Pending => Pending'
      BY <3>1, <3>2 DEF Pending, identityVars
    <3> QED
      BY <1>1, <3>1, <3>2, <3>3
  <2> QED
    BY <2>3, <2>4
<1>11. ASSUME NEW l \in LoginIds, NameCached(l)
       PROVE  Identity'
  BY <1>0, <1>11, AssignSelfIdentity DEF NameCached, sessionVars, Setters, LoginState
<1>12. ASSUME NEW l \in LoginIds, NameCommitted(l)
       PROVE  Identity'
  BY <1>12, CommitPhoneIdentity DEF NameCommitted, sessionVars, Setters
<1>13. ASSUME NEW i \in InfoIds, InfoSend(i) \/ InfoAnswered(i) \/ InfoFails(i)
       PROVE  Identity'
  BY <1>1, <1>13 DEF InfoSend, InfoAnswered, InfoFails, sessionVars, Pending, LoggingIn, identityVars
<1>14. ASSUME NEW i \in InfoIds, InfoCached(i)
       PROVE  Identity'
  BY <1>14, AssignSelfIdentity DEF InfoCached, sessionVars, Setters, InfoState, AccountInv,
     AccountTypeOK
<1>15. ASSUME NEW i \in InfoIds, InfoCommitted(i)
       PROVE  Identity'
  BY <1>15, CommitPhoneIdentity DEF InfoCommitted, sessionVars, Setters
<1>16. ASSUME NEW m \in MeIds, MeAnswered(m) \/ MeFails(m)
       PROVE  Identity'
  BY <1>1, <1>16 DEF MeAnswered, MeFails, sessionVars, Pending, LoggingIn, identityVars
<1>17. CASE UNCHANGED vars
  BY <1>1, <1>17 DEF vars, sessionVars, accountVars, identityVars, Pending, LoggingIn
<1> QED
  BY <1>2, <1>3, <1>4, <1>5, <1>6, <1>7, <1>8, <1>9, <1>10, <1>11, <1>12, <1>13, <1>14,
     <1>15, <1>16, <1>17 DEF Next, InfoStep
-----------------------------------------------------------------------------
\* The invariant of the session, the app's user and the account page holds in
\* every state.
LEMMA AccountAlways == Spec => []AccountInv
<1>1. AccountInv /\ [Next]_vars => AccountInv'
  <2> SUFFICES ASSUME AccountInv, [Next]_vars
               PROVE  AccountInv'
    OBVIOUS
  <2>1. SessionInv'
    BY AccountStepsSession, SessionStepInv DEF AccountInv
  <2>2. AccountTypeOK' /\ NamesAtZero' /\ Identity'
    BY AccountTypeStep, NamesStep, IdentityStep
  <2>3. DetachedPage' /\ ProfileLoggedIn' /\ UserPageHasUser' /\ NoPageOfTheDeparted'
    BY PageStep
  <2> QED
    BY <2>1, <2>2, <2>3 DEF AccountInv
<1> QED
  BY <1>1, AccountInitInv, PTL DEF Spec

\* Every variable of the app's user and the account page has its type.
THEOREM AccountTypeCorrect == Spec => []AccountTypeOK
<1>1. AccountInv => AccountTypeOK
  BY DEF AccountInv
<1> QED
  BY <1>1, AccountAlways, PTL

\* With no handler of a login with token and code 0 at work the app's user and
\* phone are those of the account whose token is stored, unless another
\* account's were stored or loaded, or a token without its user, since such a
\* login (saveLoginContent, setSelfUser and getSelfUser of AppStore, on any
\* number of threads, with every answer the login handler tells apart, across
\* logouts, crashes and restarts).
THEOREM UserIsTheOneLoggedIn == Spec => []UserIsLoggedIn
<1>1. AccountInv => UserIsLoggedIn
  <2> SUFFICES ASSUME AccountInv, IsLogin, ~mixed, UIIdle,
                      \A l \in LoginIds : ~LoggingIn(l)
               PROVE  phone = token /\ CachedUser \in {Nobody, token}
    BY DEF UserIsLoggedIn
  <2>1. ~Pending
    BY DEF Pending
  <2> QED
    BY <2>1 DEF AccountInv, Identity, CacheAgrees, PhoneAgrees, UIIdle
<1> QED
  BY <1>1, AccountAlways, PTL

\* UserInfoActivity always finds a user to show and to copy (getSelfUser is
\* dereferenced unchecked).
THEOREM ProfileHasUser == Spec => []UserPageHasUser
<1>1. AccountInv => UserPageHasUser
  BY DEF AccountInv
<1> QED
  BY <1>1, AccountAlways, PTL

\* No user's page is left standing on the main screen after a logout
\* (FragmentAccount.refreshPage, run by onResume only).
THEOREM PageOfSomebody == Spec => []NoPageOfTheDeparted
<1>1. AccountInv => NoPageOfTheDeparted
  BY DEF AccountInv
<1> QED
  BY <1>1, AccountAlways, PTL
=============================================================================
