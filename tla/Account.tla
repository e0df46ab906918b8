------------------------------ MODULE Account ------------------------------
(***************************************************************************)
(* Who the app takes the user for: the User object cached in a static      *)
(* field and the phone number kept beside the token (storage/AppStore.java)*)
(* the calls whose answers replace them (engine/SelfUserInfoFetcher.java,  *)
(* UserInfoActivity.updateSelfUser, the login handler), and the account    *)
(* page (fragment/FragmentAccount.java), which asks for what it shows each *)
(* time it resumes.  setSelfUser assigns the cache and then commits the    *)
(* phone; getSelfUser fills an empty cache in three steps on the UI thread.*)
(***************************************************************************)
EXTENDS Session

CONSTANTS
  Nobody,    \* AppStore.selfUser is null
  InfoIds,   \* bound: getUserInfo and changeUserInfo calls in flight together
  MeIds      \* bound: getMe calls in flight together

ASSUME AccountAssumption ==
  /\ Nobody \notin Tokens
  /\ LoginIds \cap InfoIds = {}
  /\ (LoginIds \cup InfoIds) \cap (Tokens \cup {Nobody}) = {}

VARIABLES
  selfUser,  \* AppStore.selfUser: Nobody, the phone of the User it holds, or the
             \* thread that is in setSelfUser with that very object
  userOf,    \* userOf[t]: the phone of the User thread t has passed to setSelfUser
  phone,     \* SELF_USER_PHONE_KEY, persistent
  naming,    \* naming[l]: how far login handler l is in its setSelfUser
  loading,   \* how far the UI thread is in filling an empty cache
  info,      \* info[i]: a call whose answer goes to setSelfUser
  page,      \* FragmentAccount: "none", or the page for a "guest" or a "user"
  me,        \* me[m]: a getMe call of the account page
  shownMe,   \* whose name, balance and mileage the account page's views hold
  mixed      \* history: since a login with a token and code 0, a user other than
             \* the token's owner was stored or loaded into the cache, a token was
             \* stored without its user, or the process died before the login
             \* handler had stored its own

identityVars == <<selfUser, userOf, phone, naming, mixed>>
pageVars == <<page, me, shownMe>>
accountVars == <<identityVars, loading, info, pageVars>>
vars == <<sessionVars, accountVars>>
-----------------------------------------------------------------------------
\* spawned: a SelfUserInfoFetcher that has not read the token yet.  sent and
\* answered: as the call goes.  cached: setSelfUser has assigned the cache and
\* not committed the phone.  A successful answer is the user of the token sent.
InfoState == [pc : {"idle", "spawned", "sent", "answered", "cached"}, asked : Tokens]
NoInfo == [pc |-> "idle", asked |-> NoUser]

\* asked is NoUser in a free slot.  host: the fragment that asks is attached.
MeState == [asked : Tokens, host : BOOLEAN]
NoMe == [asked |-> NoUser, host |-> FALSE]

UIIdle == loading = "no"

\* The threads that run setSelfUser.
Setters == LoginIds \cup InfoIds

\* The phone of the cached user, Nobody if there is none.
CachedUser == IF selfUser \in Setters THEN userOf[selfUser] ELSE selfUser

OtherThan(u) == u # token

\* The handler has stored a token and code 0 makes it name its user.
LoggingIn(l) == login[l].pc = "saved" /\ login[l].stored /\ login[l].code = "zero"

Init ==
  /\ SessionInit
  /\ selfUser = Nobody /\ phone = NoUser
  /\ userOf = [t \in Setters |-> NoUser]
  /\ naming = [l \in LoginIds |-> "no"]
  /\ loading = "no"
  /\ info = [i \in InfoIds |-> NoInfo]
  /\ page = "none" /\ shownMe = NoUser
  /\ me = [m \in MeIds |-> NoMe]
  /\ mixed = FALSE

\* Begin a call that ends in setSelfUser, in a free slot.
BeginInfo(state) ==
  \E i \in InfoIds : info[i] = NoInfo /\ info' = [info EXCEPT ![i] = state]

SpawnInfo == BeginInfo([pc |-> "spawned", asked |-> NoUser])

\* Faulty variant of BeginGetSelfUser: the empty cache is returned as it is.
GetSelfUserAsItIs == loading' = "no"

\* getSelfUser on the UI thread: nothing to do, or an empty cache to fill.
BeginGetSelfUser ==
  loading' = IF selfUser = Nobody /\ IsLogin THEN "nullSeen" ELSE "no"

\* selfUser = new User()
AssignBlank ==
  /\ loading = "nullSeen"
  /\ selfUser' = NoUser
  /\ loading' = "blank"
  /\ UNCHANGED <<sessionVars, userOf, phone, naming, mixed, info, pageVars>>

\* selfUser.setPhone(...), on whatever object the field holds by now: the one
\* another thread has cached meanwhile, and is about to commit, changes too.
SetLoadedPhone ==
  /\ loading = "blank"
  /\ IF selfUser \in Setters
       THEN userOf' = [userOf EXCEPT ![selfUser] = phone] /\ UNCHANGED selfUser
       ELSE selfUser' = phone /\ UNCHANGED userOf
  /\ mixed' = (mixed \/ OtherThan(phone))
  /\ loading' = "no"
  /\ UNCHANGED <<sessionVars, phone, naming, info, pageVars>>
-----------------------------------------------------------------------------
\* FragmentAccount.refreshPage
RefreshPage ==
  IF IsLogin
    THEN /\ page' = "user"
         /\ \E m \in MeIds :
              /\ me[m] = NoMe
              /\ me' = [me EXCEPT ![m] = [asked |-> token, host |-> TRUE]]
    ELSE page' = "guest" /\ UNCHANGED me

\* SplashActivity.onCreate; MainActivity's fragments are new.
StartApp ==
  /\ UIIdle
  /\ Launch
  /\ IF IsLogin THEN SpawnInfo ELSE UNCHANGED info
  /\ UNCHANGED <<identityVars, loading, pageVars>>

\* The account tab is chosen for the first time.
ChooseAccount ==
  /\ UIIdle /\ screen = "main" /\ page = "none"
  /\ RefreshPage
  /\ UNCHANGED <<sessionVars, identityVars, loading, info, shownMe>>

\* The screens above MainActivity are opened from the account page; the login
\* button is on the guest's page only, the profile on the user's.
Browse ==
  /\ UIIdle
  /\ \/ page = "guest" /\ OpenLogin
     \/ page # "none" /\ OpenSettings
     \/ CloseLogin \/ CloseScreen \/ Logout
     \/ \E l \in LoginIds, u \in Users : SendLogin(l, u)
  /\ UNCHANGED accountVars

\* UserInfoActivity.onCreate reads the user it shows.
ShowUserInfo ==
  /\ UIIdle /\ page = "user"
  /\ OpenUserInfo
  /\ BeginGetSelfUser
  /\ UNCHANGED <<identityVars, info, pageVars>>

\* SystemSettingActivity.feedback hands the phone on to the feedback library.
Feedback ==
  /\ UIIdle /\ screen = "settings" /\ IsLogin
  /\ BeginGetSelfUser
  /\ UNCHANGED <<sessionVars, identityVars, info, pageVars>>

\* UserInfoActivity.updateSelfUser: a copy of the cached user with one field
\* changed is sent with the current token.
EditProfile ==
  /\ UIIdle /\ screen = "userinfo"
  /\ BeginInfo([pc |-> "sent", asked |-> token])
  /\ UNCHANGED <<sessionVars, identityVars, loading, pageVars>>

\* Faulty variant of ComeBack: the account page is not refreshed.
ComeBackStale ==
  /\ UIIdle
  /\ Resume
  /\ UNCHANGED <<identityVars, loading, info, pageVars>>

ComeBack ==
  /\ UIIdle
  /\ Resume
  /\ RefreshPage
  /\ UNCHANGED <<identityVars, loading, info, shownMe>>

\* MainActivity is destroyed with its views; the calls go on.
DestroyMain ==
  /\ UIIdle
  /\ Leave
  /\ page' = "none" /\ shownMe' = NoUser
  /\ me' = [m \in MeIds |-> [me[m] EXCEPT !.host = FALSE]]
  /\ UNCHANGED <<identityVars, loading, info>>
-----------------------------------------------------------------------------
RejectLogin(l) == LoginRejected(l) /\ UNCHANGED accountVars

\* A token is stored whatever the code; only code 0 names its user as well.
StoreLogin(l, a) ==
  /\ SaveLogin(l, a)
  /\ mixed' = IF a.stored /\ a.code = "zero"
                THEN FALSE
                ELSE mixed \/ token' # token
  /\ UNCHANGED <<selfUser, userOf, phone, naming, loading, info, pageVars>>

\* Faulty variant of AssignSelf: a cached user is not replaced.
AssignSelfOnce(t, u) ==
  /\ selfUser' = IF selfUser = Nobody THEN t ELSE selfUser
  /\ userOf' = [userOf EXCEPT ![t] = u]
  /\ mixed' = (mixed \/ OtherThan(u))
  /\ UNCHANGED phone

\* The first half of setSelfUser, on thread t with a user whose phone is u.
AssignSelf(t, u) ==
  /\ selfUser' = t
  /\ userOf' = [userOf EXCEPT ![t] = u]
  /\ mixed' = (mixed \/ OtherThan(u))
  /\ UNCHANGED phone

\* The second half commits the phone that user has by now.
CommitPhone(t) ==
  /\ phone' = userOf[t]
  /\ selfUser' = IF selfUser = t THEN userOf[t] ELSE selfUser
  /\ userOf' = [userOf EXCEPT ![t] = NoUser]
  /\ mixed' = (mixed \/ OtherThan(userOf[t]))

\* Code 0: the handler makes the account that asked to log in the app's user,
\* whether or not the answer had a token for it.
NameCached(l) ==
  /\ login[l].pc = "saved" /\ login[l].code = "zero" /\ naming[l] = "no"
  /\ AssignSelf(l, login[l].phone)
  /\ naming' = [naming EXCEPT ![l] = "cached"]
  /\ UNCHANGED <<sessionVars, loading, info, pageVars>>

NameCommitted(l) ==
  /\ naming[l] = "cached"
  /\ CommitPhone(l)
  /\ naming' = [naming EXCEPT ![l] = "named"]
  /\ UNCHANGED <<sessionVars, loading, info, pageVars>>

\* Once it has read the code the handler starts a SelfUserInfoFetcher.
StartInfo(l) == IF login[l].code = "unread" THEN UNCHANGED info ELSE SpawnInfo

\* Faulty variant of EndLogin: the handler does not wait for its setSelfUser.
EndLoginUnnamed(l) ==
  /\ FinishLogin(l)
  /\ StartInfo(l)
  /\ naming' = [naming EXCEPT ![l] = "no"]
  /\ UNCHANGED <<selfUser, userOf, phone, mixed, loading, pageVars>>

EndLogin(l) ==
  /\ login[l].code = "zero" => naming[l] = "named"
  /\ FinishLogin(l)
  /\ StartInfo(l)
  /\ naming' = [naming EXCEPT ![l] = "no"]
  /\ UNCHANGED <<selfUser, userOf, phone, mixed, loading, pageVars>>

InfoSend(i) ==
  /\ info[i].pc = "spawned"
  /\ info' = [info EXCEPT ![i] = [pc |-> "sent", asked |-> token]]
  /\ UNCHANGED <<sessionVars, identityVars, loading, pageVars>>

InfoAnswered(i) ==
  /\ info[i].pc = "sent" /\ info[i].asked # NoUser
  /\ info' = [info EXCEPT ![i].pc = "answered"]
  /\ UNCHANGED <<sessionVars, identityVars, loading, pageVars>>

\* Faulty variant of InfoFails: the failed call is never done with.
InfoFailsForGood(i) ==
  /\ info[i].pc = "sent"
  /\ info' = [info EXCEPT ![i].pc = "failed"]
  /\ UNCHANGED <<sessionVars, identityVars, loading, pageVars>>

\* onFailure, or an answer that is unsuccessful or not what it should be.
InfoFails(i) ==
  /\ info[i].pc = "sent"
  /\ info' = [info EXCEPT ![i] = NoInfo]
  /\ UNCHANGED <<sessionVars, identityVars, loading, pageVars>>

InfoCached(i) ==
  /\ info[i].pc = "answered"
  /\ AssignSelf(i, info[i].asked)
  /\ info' = [info EXCEPT ![i].pc = "cached"]
  /\ UNCHANGED <<sessionVars, naming, loading, pageVars>>

InfoCommitted(i) ==
  /\ info[i].pc = "cached"
  /\ CommitPhone(i)
  /\ info' = [info EXCEPT ![i] = NoInfo]
  /\ UNCHANGED <<sessionVars, naming, loading, pageVars>>

InfoStep(i) ==
  InfoSend(i) \/ InfoAnswered(i) \/ InfoFails(i) \/ InfoCached(i) \/ InfoCommitted(i)

\* getMe's answer fills the views, whoever is logged in by now.
MeAnswered(m) ==
  /\ me[m].asked # NoUser /\ me[m].host
  /\ shownMe' = me[m].asked
  /\ me' = [me EXCEPT ![m] = NoMe]
  /\ UNCHANGED <<sessionVars, identityVars, loading, info, page>>

MeFails(m) ==
  /\ me[m].asked # NoUser
  /\ me' = [me EXCEPT ![m] = NoMe]
  /\ UNCHANGED <<sessionVars, identityVars, loading, info, page, shownMe>>

\* The process is killed, or ends by an exception that nothing catches: off
\* line in a SelfUserInfoFetcher, in a getMe answer to a detached fragment, in
\* an answer without the user it should hold.
ProcessEnds ==
  /\ ProcessDies
  /\ selfUser' = Nobody /\ userOf' = [t \in Setters |-> NoUser]
  /\ mixed' = (mixed \/ \E l \in LoginIds : LoggingIn(l) /\ naming[l] # "named")
  /\ naming' = [l \in LoginIds |-> "no"]
  /\ loading' = "no"
  /\ info' = [i \in InfoIds |-> NoInfo]
  /\ page' = "none" /\ shownMe' = NoUser
  /\ me' = [m \in MeIds |-> NoMe]
  /\ UNCHANGED phone

Next ==
  \/ StartApp \/ ChooseAccount \/ Browse \/ ShowUserInfo \/ Feedback \/ EditProfile
  \/ ComeBack \/ DestroyMain \/ AssignBlank \/ SetLoadedPhone \/ ProcessEnds
  \/ \E l \in LoginIds : RejectLogin(l) \/ NameCached(l) \/ NameCommitted(l) \/ EndLogin(l)
  \/ \E l \in LoginIds, a \in LoginAnswers : StoreLogin(l, a)
  \/ \E i \in InfoIds : InfoStep(i)
  \/ \E m \in MeIds : MeAnswered(m) \/ MeFails(m)

Spec == Init /\ [][Next]_vars

\* Callbacks run to their end, OkHttp answers or times out every call, and the
\* UI thread finishes what it has begun.
Fairness ==
  /\ WF_vars(AssignBlank) /\ WF_vars(SetLoadedPhone)
  /\ \A l \in LoginIds : WF_vars(NameCached(l)) /\ WF_vars(NameCommitted(l))
  /\ \A i \in InfoIds : WF_vars(InfoStep(i))
  /\ \A m \in MeIds : WF_vars(MeAnswered(m) \/ MeFails(m))

FairSpec == Spec /\ Fairness
-----------------------------------------------------------------------------
AccountTypeOK ==
  /\ SessionTypeOK
  /\ selfUser \in Tokens \cup {Nobody} \cup Setters /\ phone \in Tokens
  /\ userOf \in [Setters -> Tokens]
  /\ naming \in [LoginIds -> {"no", "cached", "named"}]
  /\ loading \in {"no", "nullSeen", "blank"}
  /\ info \in [InfoIds -> InfoState]
  /\ page \in {"none", "guest", "user"}
  /\ me \in [MeIds -> MeState]
  /\ shownMe \in Tokens /\ mixed \in BOOLEAN

\* The profile screen always has a user to show and to copy (getSelfUser is
\* dereferenced unchecked in UserInfoActivity.onCreate and updateSelfUser):
\* the login check that opened the screen, or the cache, outlives whatever
\* happens on other threads.
UserPageHasUser ==
  screen = "userinfo" /\ UIIdle => selfUser # Nobody

\* Once the handler of a login with a token and code 0 is done, the app acts as
\* the account it logged in, in this process and in the ones after it, whatever
\* else is answered, fails or dies, unless since then a late answer or a code 0
\* without a token stored another account's user, a code other than 0 came with
\* another account's token, the process died in the middle of the handler, or
\* the UI thread was filling the empty cache from the phone stored before
\* and overwrote the handler's user or its phone (AppStore.setSelfUser asks
\* neither whose token is stored nor how old its answer is; getSelfUser takes
\* no lock; LoginActivity reads token and code independently).
UserIsLoggedIn ==
  /\ IsLogin /\ ~mixed /\ UIIdle
  /\ \A l \in LoginIds : ~LoggingIn(l)
  => phone = token /\ CachedUser \in {Nobody, token}

\* A page for a user is never left standing after a logout: on the main screen
\* it means somebody is logged in (refreshPage is run by onResume only).
NoPageOfTheDeparted ==
  screen = "main" /\ page = "user" => IsLogin

\* Answers for accounts logged in before may replace the user, the phone and
\* what the page shows, but not for ever: while one account stays logged in
\* and a call made for it is answered again and again, the app's user becomes
\* that account and stays it, and the page ends up never showing another's.
AccountConverges ==
  \A u \in Users :
    /\ <>[](token = u /\ screen # "dead")
    /\ []<>(\E i \in InfoIds : info[i] = [pc |-> "cached", asked |-> u])
    /\ []<>(shownMe = u /\ \A m \in MeIds : me[m] = NoMe)
    => <>[](CachedUser = u /\ phone = u /\ shownMe \in {u, NoUser})
=============================================================================
