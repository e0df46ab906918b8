------------------------- MODULE TicketCodeProofs -------------------------
(***************************************************************************)
(* What holds of the stored pair (SeedStore) and of the code on display    *)
(* (TicketCode) for every set of accounts and any number of requests, of   *)
(* threads that fetch a pair and of waiting messages.                      *)
(*                                                                         *)
(* PairMatches speaks of moments when no thread is between its commits.    *)
(* It is kept by what holds in between (Undisturbed): as long as no store  *)
(* overlapped another, at most one thread is between its commits, and the  *)
(* key stored is the key of that thread's answer.  StoredWasAskedFor needs *)
(* AnswersBelong: a thread holds a pair of the account it asked for.       *)
(*                                                                         *)
(* LoggedOutShowsDefault is about the screen after a logout, yet it rests  *)
(* on the whole life of the tab: a tab not added yet has shown nothing     *)
(* (FreshTab), because messages and threads that could make it show        *)
(* something exist only for a tab that was added (UpdatesHaveTab,          *)
(* HostsHaveTab), and no logout comes between the two reads of a code      *)
(* (GenLoggedIn).                                                          *)
(***************************************************************************)
EXTENDS TicketCode, SessionProofs
-----------------------------------------------------------------------------
(* The pair *)

\* What is true of the pair while a thread is between its two commits.
Undisturbed ==
  ~torn => /\ \A f, g \in Storing : f = g
           /\ \A f \in Storing : ticketKey = fetch[f].pair

\* A thread with an answer holds a pair of the account it asked for.
AnswersBelong ==
  \A f \in FetchIds :
    fetch[f].pc \in {"answered", "keyStored"} => fetch[f].pair.owner = fetch[f].asked

SeedTypeOK ==
  /\ ticketKey \in Pairs /\ ticketSeed \in Pairs
  /\ fetch \in [FetchIds -> FetchState]
  /\ torn \in BOOLEAN

SeedInv == SeedTypeOK /\ Undisturbed /\ PairMatches /\ AnswersBelong

IInv == SessionInv /\ SeedInv
-----------------------------------------------------------------------------
\* Every step of the app as SeedStore describes it is a step of the session.
LEMMA SeedStoreStepsSession == [SeedStoreNext]_seedStoreVars => [SessionNext]_sessionVars
<1> SUFFICES ASSUME [SeedStoreNext]_seedStoreVars
             PROVE  [SessionNext]_sessionVars
  OBVIOUS
<1> USE DEF SessionNext, seedStoreVars
<1>1. CASE StartApp \/ Browse \/ ComeBack \/ TabFetch \/ DestroyMain
  BY <1>1 DEF StartApp, Browse, ComeBack, TabFetch, DestroyMain, Tokens
<1>2. ASSUME NEW l \in LoginIds, RejectLogin(l) \/ EndLogin(l)
      PROVE  SessionNext
  BY <1>2 DEF RejectLogin, EndLogin
<1>3. ASSUME NEW l \in LoginIds, NEW a \in LoginAnswers, StoreLogin(l, a)
      PROVE  SessionNext
  BY <1>3 DEF StoreLogin
<1>4. ASSUME NEW f \in FetchIds, FetchStep(f)
      PROVE  UNCHANGED sessionVars
  BY <1>4 DEF FetchStep, FetchSend, FetchAnswered, FetchFails, StoreKey, StoreSeed
<1>5. CASE CrashOffLine \/ CrashOnNullContext \/ Crash
  BY <1>5 DEF CrashOffLine, CrashOnNullContext, Crash
<1>6. CASE UNCHANGED seedStoreVars
  BY <1>6
<1> QED
  BY <1>1, <1>2, <1>3, <1>4, <1>5, <1>6 DEF SeedStoreNext

\* The stored pair and its threads do not change what the session does: the
\* app with them still behaves as Session describes.
THEOREM SeedStoreImplementsSession == SeedStoreSpec => SessionSpec
<1>1. SeedStoreInit => SessionInit
  BY DEF SeedStoreInit
<1> QED
  BY <1>1, SeedStoreStepsSession, PTL DEF SeedStoreSpec, SessionSpec
-----------------------------------------------------------------------------
\* The initial state satisfies the invariant of the pair.
LEMMA SeedInitInv == SeedInit => SeedInv
<1> SUFFICES ASSUME SeedInit
             PROVE  SeedInv
  OBVIOUS
<1>1. DefaultPair \in Pairs /\ NoFetch \in FetchState
  BY DEF Pairs, NoFetch, FetchState, Tokens
<1>2. SeedTypeOK
  BY <1>1 DEF SeedInit, SeedTypeOK
<1>3. \A f \in FetchIds : fetch[f].pc = "idle"
  BY DEF SeedInit, NoFetch
<1>4. Undisturbed /\ PairMatches /\ AnswersBelong
  BY <1>3 DEF SeedInit, Undisturbed, PairMatches, AnswersBelong, Storing
<1> QED
  BY <1>2, <1>4 DEF SeedInv

\* A step keeps the invariant if it stores nothing and no thread enters or
\* leaves the commits by it, whatever it does to the threads before them.
LEMMA Bystander ==
  ASSUME SeedInv,
         UNCHANGED storeVars,
         fetch' \in [FetchIds -> FetchState],
         \A f \in FetchIds : fetch'[f].pc = "keyStored" <=> fetch[f].pc = "keyStored",
         \A f \in FetchIds : fetch[f].pc = "keyStored" => fetch'[f].pair = fetch[f].pair,
         AnswersBelong'
  PROVE  SeedInv'
<1>1. Storing' = Storing
  BY DEF Storing
<1>2. \A f \in Storing : fetch'[f].pair = fetch[f].pair
  BY DEF Storing
<1>3. SeedTypeOK' /\ PairMatches'
  BY <1>1 DEF SeedInv, SeedTypeOK, PairMatches, storeVars
<1>4. Undisturbed'
  BY <1>1, <1>2 DEF SeedInv, Undisturbed, storeVars
<1> QED
  BY <1>3, <1>4 DEF SeedInv

\* Starting a thread keeps the invariant.
LEMMA SpawnInv ==
  ASSUME SeedInv, UNCHANGED storeVars, NEW forTab \in BOOLEAN, Spawn(forTab)
  PROVE  SeedInv'
<1> PICK f \in FetchIds :
      /\ fetch[f] = NoFetch
      /\ fetch' = [fetch EXCEPT ![f] =
                     [pc |-> "spawned", forTab |-> forTab, host |-> forTab,
                      asked |-> NoUser, pair |-> DefaultPair]]
  BY DEF Spawn
<1>1. fetch' \in [FetchIds -> FetchState]
  BY DEF SeedInv, SeedTypeOK, FetchState, Tokens, Pairs
<1>2. \A g \in FetchIds : fetch'[g].pc = "keyStored" <=> fetch[g].pc = "keyStored"
  BY DEF SeedInv, SeedTypeOK, NoFetch
<1>3. \A g \in FetchIds : fetch[g].pc = "keyStored" => fetch'[g].pair = fetch[g].pair
  BY DEF SeedInv, SeedTypeOK, NoFetch
<1>4. AnswersBelong'
  BY DEF SeedInv, SeedTypeOK, AnswersBelong
<1> QED
  BY <1>1, <1>2, <1>3, <1>4, Bystander

\* A thread on its way to an answer keeps the invariant: only the pair of its
\* own request may reach it.
LEMMA CallInv ==
  ASSUME SeedInv, token \in Tokens, NEW f \in FetchIds,
         FetchSend(f) \/ FetchAnswered(f) \/ FetchFails(f)
  PROVE  SeedInv'
<1>1. fetch[f].pc \in {"spawned", "sent"}
  BY DEF FetchSend, FetchAnswered, FetchFails
<1>2. \A g \in FetchIds : g # f => fetch'[g] = fetch[g]
  BY DEF FetchSend, FetchAnswered, FetchFails, SeedInv, SeedTypeOK
<1>3. /\ fetch' \in [FetchIds -> FetchState]
      /\ fetch'[f].pc # "keyStored"
      /\ fetch'[f].pc = "answered" => fetch'[f].pair.owner = fetch'[f].asked
  <2>1. CASE FetchSend(f)
    BY <2>1 DEF FetchSend, SeedInv, SeedTypeOK, FetchState
  <2>2. CASE FetchAnswered(f)
    <3>1. PICK n \in Serials :
            fetch' = [fetch EXCEPT ![f].pc = "answered",
                                   ![f].pair = [owner |-> fetch[f].asked, serial |-> n]]
      BY <2>2 DEF FetchAnswered
    <3>2. fetch[f].asked \in Users
      BY <2>2 DEF FetchAnswered, SeedInv, SeedTypeOK, FetchState, Tokens
    <3>3. [owner |-> fetch[f].asked, serial |-> n] \in Pairs
      BY <3>2 DEF Pairs, Issued
    <3> QED
      BY <3>1, <3>3 DEF SeedInv, SeedTypeOK, FetchState
  <2>3. CASE FetchFails(f)
    BY <2>3 DEF FetchFails, SeedInv, SeedTypeOK, FetchState, NoFetch, Tokens, Pairs
  <2> QED
    BY <2>1, <2>2, <2>3
<1>4. AnswersBelong'
  BY <1>2, <1>3 DEF SeedInv, AnswersBelong
<1>5. UNCHANGED storeVars
  BY DEF FetchSend, FetchAnswered, FetchFails
<1>6. \A g \in FetchIds : fetch'[g].pc = "keyStored" <=> fetch[g].pc = "keyStored"
  BY <1>1, <1>2, <1>3
<1>7. \A g \in FetchIds : fetch[g].pc = "keyStored" => fetch'[g].pair = fetch[g].pair
  BY <1>1, <1>2
<1> QED
  BY <1>3, <1>4, <1>5, <1>6, <1>7, Bystander

\* The first commit: torn afterwards says exactly whether another thread was
\* between its own two, so an undisturbed store starts alone.
LEMMA StoreKeyInv ==
  ASSUME SeedInv, NEW f \in FetchIds, StoreKey(f)
  PROVE  SeedInv'
<1> USE DEF SeedInv, SeedTypeOK, StoreKey
<1>1. /\ fetch' \in [FetchIds -> FetchState]
      /\ fetch'[f].pc = "keyStored"
      /\ fetch'[f].pair = fetch[f].pair /\ fetch'[f].asked = fetch[f].asked
      /\ \A g \in FetchIds : g # f => fetch'[g] = fetch[g]
  BY DEF FetchState
<1>2. SeedTypeOK'
  BY <1>1 DEF FetchState
<1>3. Storing' = Storing \cup {f}
  BY <1>1 DEF Storing
<1>4. Undisturbed'
  BY <1>1, <1>3 DEF Undisturbed
<1>5. PairMatches'
  BY <1>3 DEF PairMatches
<1>6. AnswersBelong'
  BY <1>1 DEF AnswersBelong
<1> QED
  BY <1>2, <1>4, <1>5, <1>6

\* The second commit completes the pair whose key is stored, or, after stores
\* that overlapped, leaves torn as it is.
LEMMA StoreSeedInv ==
  ASSUME SeedInv, NEW f \in FetchIds, StoreSeed(f)
  PROVE  SeedInv'
<1> USE DEF SeedInv, SeedTypeOK, StoreSeed
<1>1. /\ fetch' \in [FetchIds -> FetchState]
      /\ fetch'[f].pc = "idle"
      /\ \A g \in FetchIds : g # f => fetch'[g] = fetch[g]
  BY DEF FetchState, NoFetch, Tokens, Pairs
<1>2. SeedTypeOK'
  BY <1>1 DEF FetchState
<1>3. f \in Storing /\ Storing' = Storing \ {f}
  BY <1>1 DEF Storing
<1>4. Undisturbed'
  BY <1>1, <1>3 DEF Undisturbed
<1>5. PairMatches'
  BY <1>3 DEF PairMatches, Undisturbed
<1>6. AnswersBelong'
  BY <1>1 DEF AnswersBelong
<1> QED
  BY <1>2, <1>4, <1>5, <1>6

\* A process that dies between the two commits leaves torn behind.
LEMMA CrashInv ==
  ASSUME SeedInv, Crash
  PROVE  SeedInv'
<1> USE DEF SeedInv, SeedTypeOK, Crash
<1>1. /\ fetch' \in [FetchIds -> FetchState]
      /\ \A g \in FetchIds : fetch'[g].pc = "idle"
  BY DEF FetchState, NoFetch, Tokens, Pairs
<1>2. Storing' = {}
  BY <1>1 DEF Storing
<1>3. Undisturbed' /\ PairMatches' /\ AnswersBelong'
  BY <1>1, <1>2 DEF Undisturbed, PairMatches, AnswersBelong
<1> QED
  BY <1>1, <1>3
-----------------------------------------------------------------------------
\* Every step of the app keeps the invariant of the session and of the pair.
LEMMA SeedStoreStepInv == IInv /\ [SeedStoreNext]_seedStoreVars => IInv'
<1> SUFFICES ASSUME IInv, [SeedStoreNext]_seedStoreVars
             PROVE  IInv'
  OBVIOUS
<1>1. SessionInv'
  BY SeedStoreStepsSession, SessionStepInv DEF IInv
<1> SUFFICES SeedInv'
  BY <1>1 DEF IInv
<1> USE DEF IInv
<1>2. ASSUME UNCHANGED seedVars
      PROVE  SeedInv'
  BY <1>2 DEF seedVars, SeedInv, SeedTypeOK, Undisturbed, PairMatches, AnswersBelong, Storing
<1>3. CASE StartApp
  BY <1>2, <1>3, SpawnInv DEF StartApp, seedVars, storeVars
<1>4. CASE Browse \/ ComeBack
  BY <1>2, <1>4 DEF Browse, ComeBack
<1>5. CASE TabFetch
  BY <1>5, SpawnInv DEF TabFetch
<1>6. CASE DestroyMain
  <2>1. /\ fetch' \in [FetchIds -> FetchState]
        /\ \A f \in FetchIds : /\ fetch'[f].pc = fetch[f].pc
                               /\ fetch'[f].pair = fetch[f].pair
                               /\ fetch'[f].asked = fetch[f].asked
    BY <1>6 DEF DestroyMain, SeedInv, SeedTypeOK, FetchState
  <2>2. AnswersBelong'
    BY <2>1 DEF SeedInv, AnswersBelong
  <2> QED
    BY <1>6, <2>1, <2>2, Bystander DEF DestroyMain
<1>7. ASSUME NEW l \in LoginIds, RejectLogin(l)
      PROVE  SeedInv'
  BY <1>2, <1>7 DEF RejectLogin
<1>8. ASSUME NEW l \in LoginIds, EndLogin(l)
      PROVE  SeedInv'
  BY <1>2, <1>8, SpawnInv DEF EndLogin, seedVars, storeVars
<1>9. ASSUME NEW l \in LoginIds, NEW a \in LoginAnswers, StoreLogin(l, a)
      PROVE  SeedInv'
  BY <1>2, <1>9 DEF StoreLogin
<1>10. ASSUME NEW f \in FetchIds, FetchStep(f)
       PROVE  SeedInv'
  BY <1>10, CallInv, StoreKeyInv, StoreSeedInv DEF FetchStep, SessionInv, SessionTypeOK
<1>11. CASE CrashOffLine \/ CrashOnNullContext \/ Crash
  BY <1>11, CrashInv DEF CrashOffLine, CrashOnNullContext
<1>12. CASE UNCHANGED seedStoreVars
  BY <1>2, <1>12 DEF seedStoreVars
<1> QED
  BY <1>3, <1>4, <1>5, <1>6, <1>7, <1>8, <1>9, <1>10, <1>11, <1>12 DEF SeedStoreNext

\* The invariant holds in every state of the app.
LEMMA SeedStoreInv == SeedStoreSpec => []IInv
<1>1. SeedStoreInit => IInv
  BY SessionInitInv, SeedInitInv DEF SeedStoreInit, IInv
<1> QED
  BY <1>1, SeedStoreStepInv, PTL DEF SeedStoreSpec

\* The variables have their types, for any number of accounts and threads.
THEOREM SeedStoreTypeCorrect == SeedStoreSpec => []SeedStoreTypeOK
<1>1. IInv => SeedStoreTypeOK
  BY DEF IInv, SessionInv, SeedInv, SeedTypeOK, SeedStoreTypeOK
<1> QED
  BY <1>1, SeedStoreInv, PTL

\* The key and the seed in the preferences come from one answer whenever no
\* store is under way, unless stores overlapped or were cut short: however
\* many threads QrSeedFetcher and Fragment3 have in flight, for any accounts,
\* across logins, logouts, crashes and restarts.
THEOREM StoredPairMatches == SeedStoreSpec => []PairMatches
<1>1. IInv => PairMatches
  BY DEF IInv, SeedInv
<1> QED
  BY <1>1, SeedStoreInv, PTL

\* No thread stores one account's half of a pair in the name of another: what
\* enters the preferences was asked for with the token of its owner.
THEOREM StoresOnlyAskedFor == SeedStoreSpec => StoredWasAskedFor
<1>1. ASSUME IInv, [SeedStoreNext]_seedStoreVars
      PROVE  [/\ ticketKey' # ticketKey => AskedFor(ticketKey')
              /\ ticketSeed' # ticketSeed => AskedFor(ticketSeed')]_<<ticketKey, ticketSeed>>
  <2>1. CASE UNCHANGED storeVars
    BY <2>1 DEF storeVars
  <2>2. ASSUME NEW f \in FetchIds, StoreKey(f) \/ StoreSeed(f)
        PROVE  AskedFor(fetch[f].pair)
    BY <1>1, <2>2 DEF IInv, SeedInv, AnswersBelong, AskedFor, StoreKey, StoreSeed
  <2>3. ASSUME NEW f \in FetchIds, FetchStep(f)
        PROVE  \/ ticketKey' = fetch[f].pair /\ UNCHANGED ticketSeed /\ StoreKey(f)
               \/ ticketSeed' = fetch[f].pair /\ UNCHANGED ticketKey /\ StoreSeed(f)
               \/ UNCHANGED storeVars
    BY <2>3 DEF FetchStep, FetchSend, FetchAnswered, FetchFails, StoreKey, StoreSeed
  <2>4. \/ UNCHANGED <<ticketKey, ticketSeed>>
        \/ \E f \in FetchIds : FetchStep(f)
    BY <1>1 DEF SeedStoreNext, StartApp, Browse, ComeBack, TabFetch, DestroyMain,
         RejectLogin, EndLogin, StoreLogin, CrashOffLine, CrashOnNullContext, Crash,
         seedVars, storeVars, seedStoreVars
  <2> QED
    BY <2>1, <2>2, <2>3, <2>4
<1> QED
  BY <1>1, SeedStoreInv, PTL DEF SeedStoreSpec, StoredWasAskedFor
-----------------------------------------------------------------------------
(* The code on display *)

DisplayTypeOK ==
  /\ tab \in {"none", "shown", "hidden"}
  /\ updates \in 0 .. MaxUpdates
  /\ gen \in [pc : {"idle", "keyRead"}, key : Pairs]
  /\ shown \in Code
  /\ unseen \in BOOLEAN

\* A code is being made from the preferences for somebody logged in, in a tab.
GenLoggedIn == gen.pc = "keyRead" => IsLogin /\ tab # "none"

FreshTab == tab = "none" /\ Attached => shown = DefaultCode

HostsHaveTab == \A f \in FetchIds : fetch[f].host => Attached /\ tab # "none"

UpdatesHaveTab == updates > 0 /\ Attached => tab # "none"

\* CodeUpToDate on every screen, and while a code is being made.
UpToDate ==
  /\ tab # "none" /\ updates = 0 /\ ~unseen /\ IsLogin
  /\ ~ \E f \in Storing : fetch[f].forTab
  => IF UIIdle THEN shown = [key |-> ticketKey, seed |-> ticketSeed]
               ELSE gen.key = ticketKey

DisplayInv ==
  /\ DisplayTypeOK /\ GenLoggedIn /\ FreshTab /\ HostsHaveTab /\ UpdatesHaveTab
  /\ LoggedOutShowsDefault /\ UpToDate
-----------------------------------------------------------------------------
\* Every step of the display is a step of the store and its session, or leaves
\* both alone.
LEMMA TicketStepsStore == [Next]_vars => [SeedStoreNext]_seedStoreVars
<1> SUFFICES ASSUME [Next]_vars
             PROVE  [SeedStoreNext]_seedStoreVars
  OBVIOUS
<1> USE DEF SeedStoreNext
<1>1. CASE LaunchApp \/ BrowseAway \/ ResumeMain \/ LeaveMain
  BY <1>1 DEF LaunchApp, BrowseAway, ResumeMain, LeaveMain
<1>2. CASE AddTab \/ HideTab \/ RefreshCode \/ HandleUpdate \/ FinishCode
  BY <1>2 DEF AddTab, HideTab, RefreshCode, HandleUpdate, FinishCode
<1>3. CASE ShowTab
  BY <1>3 DEF ShowTab
<1>4. CASE Progress
  BY <1>4 DEF Progress, FetchStep
<1>5. ASSUME NEW l \in LoginIds, NEW a \in LoginAnswers, LoginStored(l, a)
      PROVE  SeedStoreNext
  BY <1>5 DEF LoginStored
<1>6. ASSUME NEW f \in FetchIds, KeyStored(f) \/ SeedStored(f)
      PROVE  SeedStoreNext
  BY <1>6 DEF KeyStored, SeedStored, FetchStep
<1>7. CASE NullContextCrash \/ ProcessEnds
  BY <1>7 DEF NullContextCrash, ProcessEnds
<1>8. CASE UNCHANGED vars
  BY <1>8 DEF vars
<1> QED
  BY <1>1, <1>2, <1>3, <1>4, <1>5, <1>6, <1>7, <1>8 DEF Next

\* The ticket tab, its handler and the way it makes codes do nothing to the
\* stored pair and the session that SeedStore does not describe.
THEOREM TicketCodeImplementsSeedStore == Spec => SeedStoreSpec
<1>1. Init => SeedStoreInit
  BY DEF Init
<1> QED
  BY <1>1, TicketStepsStore, PTL DEF Spec, SeedStoreSpec
-----------------------------------------------------------------------------
\* A display of a process that has just started has nothing to say yet.
LEMMA FreshDisplayInv ==
  ASSUME FreshDisplay(tab', updates', gen', shown', unseen'),
         \A f \in FetchIds : ~fetch'[f].host
  PROVE  DisplayInv'
<1>1. /\ tab' = "none" /\ updates' = 0 /\ gen' = NoCode /\ shown' = DefaultCode
      /\ unseen' = FALSE
  BY DEF FreshDisplay
<1>2. DefaultPair \in Pairs /\ 0 \in 0 .. MaxUpdates
  BY TicketAssumption DEF Pairs
<1>3. DisplayTypeOK'
  BY <1>1, <1>2 DEF DisplayTypeOK, NoCode, Code, DefaultCode
<1> QED
  BY <1>1, <1>3 DEF DisplayInv, GenLoggedIn, FreshTab, HostsHaveTab, UpdatesHaveTab,
     LoggedOutShowsDefault, UpToDate, NoCode

\* Beginning a code in a tab that was added keeps the invariant, when nothing
\* is stored by the same step: logged in, what will be shown starts from the
\* key stored now; logged out, the default code is there at once.
LEMMA BeginCodeInv ==
  ASSUME DisplayInv, IInv, UIIdle, BeginCode,
         tab' \in {"shown", "hidden"}, updates' \in 0 .. MaxUpdates,
         UNCHANGED <<token, storeVars>>,
         \A f \in FetchIds : fetch'[f].host => Attached' /\ tab' # "none"
  PROVE  DisplayInv'
<1> USE DEF DisplayInv, IInv, SeedInv, SeedTypeOK, storeVars
<1>1. CASE IsLogin
  <2>1. /\ gen' = [pc |-> "keyRead", key |-> ticketKey]
        /\ shown' = shown /\ unseen' = FALSE /\ IsLogin'
    BY <1>1 DEF BeginCode, IsLogin
  <2>2. DisplayTypeOK'
    BY <2>1 DEF DisplayTypeOK
  <2> QED
    BY <2>1, <2>2 DEF GenLoggedIn, FreshTab, HostsHaveTab, UpdatesHaveTab,
       LoggedOutShowsDefault, UpToDate, UIIdle
<1>2. CASE ~IsLogin
  <2>1. gen' = gen /\ shown' = DefaultCode /\ unseen' = FALSE /\ ~IsLogin'
    BY <1>2 DEF BeginCode, IsLogin
  <2>2. DisplayTypeOK'
    BY <2>1 DEF DisplayTypeOK, Code, DefaultCode, Pairs
  <2> QED
    BY <2>1, <2>2 DEF GenLoggedIn, FreshTab, HostsHaveTab, UpdatesHaveTab,
       LoggedOutShowsDefault, UpToDate, UIIdle
<1> QED
  BY <1>1, <1>2

\* A new thread has the fragment for a host only if the tab started it, and it
\* is not between any commits.
LEMMA SpawnHosts ==
  ASSUME fetch \in [FetchIds -> FetchState], NEW forTab \in BOOLEAN, Spawn(forTab)
  PROVE  /\ \A f \in FetchIds : fetch'[f].host => fetch[f].host \/ forTab
         /\ \A f \in FetchIds : fetch[f].pc = "keyStored" => fetch'[f] = fetch[f]
  BY DEF Spawn, NoFetch

\* A step that leaves the display and the stored pair alone keeps the
\* invariant, if it logs nobody in or out, does not come back to the main
\* screen, and attaches or detaches nothing.
LEMMA DisplayBystander ==
  ASSUME DisplayInv, IInv,
         UNCHANGED <<displayVars, token, storeVars>>,
         screen' = "main" => screen = "main",
         Attached' <=> Attached,
         \A f \in FetchIds : fetch'[f].host => fetch[f].host,
         \A f \in FetchIds : fetch[f].pc = "keyStored" => fetch'[f] = fetch[f]
  PROVE  DisplayInv'
<1> USE DEF DisplayInv, displayVars, codeVars, storeVars
<1>1. DisplayTypeOK' /\ GenLoggedIn' /\ FreshTab' /\ HostsHaveTab' /\ UpdatesHaveTab'
  BY DEF DisplayTypeOK, GenLoggedIn, FreshTab, HostsHaveTab, UpdatesHaveTab, IsLogin
<1>2. LoggedOutShowsDefault'
  BY DEF LoggedOutShowsDefault, OnMain, UIIdle, IsLogin
<1>3. (\E f \in Storing : fetch[f].forTab) => (\E f \in Storing : fetch[f].forTab)'
  BY DEF Storing
<1>4. UpToDate'
  BY <1>3 DEF UpToDate, UIIdle, IsLogin
<1> QED
  BY <1>1, <1>2, <1>4

\* Every step of the app keeps the invariant of the display.
LEMMA DisplayStepInv == IInv /\ DisplayInv /\ [Next]_vars => DisplayInv'
<1> SUFFICES ASSUME IInv, DisplayInv, [Next]_vars
             PROVE  DisplayInv'
  OBVIOUS
<1>0. /\ fetch \in [FetchIds -> FetchState] /\ token \in Tokens /\ screen \in Screens
      /\ ticketKey \in Pairs /\ ticketSeed \in Pairs
      /\ login \in [LoginIds -> LoginState] /\ OnlyLoginScreenOwns
      /\ updates \in 0 .. MaxUpdates /\ MaxUpdates \in Nat
  BY TicketAssumption DEF IInv, SessionInv, SessionTypeOK, SeedInv, SeedTypeOK,
     DisplayInv, DisplayTypeOK
<1>1. CASE LaunchApp
  <2>1. \A f \in FetchIds : ~fetch[f].host
    BY <1>1 DEF LaunchApp, StartApp, Launch, DisplayInv, HostsHaveTab, Attached
  <2>2. \A f \in FetchIds : ~fetch'[f].host
    BY <1>0, <1>1, <2>1, SpawnHosts DEF LaunchApp, StartApp
  <2> QED
    BY <1>1, <2>2, FreshDisplayInv DEF LaunchApp
<1>2. CASE BrowseAway
  <2>1. /\ UIIdle /\ UNCHANGED <<displayVars, seedVars>>
        /\ Attached /\ Attached' /\ screen' # "main"
        /\ token' = token \/ token' = NoUser
    BY <1>2 DEF BrowseAway, Browse, OpenLogin, OpenSettings, OpenUserInfo, CloseLogin,
       CloseScreen, Logout, SendLogin, Attached
  <2>2. /\ DisplayTypeOK' /\ GenLoggedIn' /\ FreshTab' /\ HostsHaveTab'
        /\ UpdatesHaveTab' /\ LoggedOutShowsDefault'
    BY <2>1 DEF DisplayInv, DisplayTypeOK, GenLoggedIn, FreshTab, HostsHaveTab,
       UpdatesHaveTab, LoggedOutShowsDefault, OnMain, UIIdle, displayVars, codeVars, seedVars
  <2>3. UpToDate'
    BY <2>1 DEF DisplayInv, UpToDate, UIIdle, IsLogin, Storing, displayVars, codeVars, seedVars
  <2> QED
    BY <2>2, <2>3 DEF DisplayInv
<1>3. CASE AddTab \/ RefreshCode
  BY <1>0, <1>3, BeginCodeInv DEF AddTab, RefreshCode, OnMain, Attached, seedStoreVars,
     sessionVars, seedVars, storeVars, DisplayInv, HostsHaveTab
<1>4. CASE ShowTab
  <2>1. /\ UIIdle /\ BeginCode /\ tab' = "shown" /\ tab = "hidden" /\ updates' = updates
        /\ UNCHANGED <<token, screen, storeVars>> /\ Attached
    BY <1>4 DEF ShowTab, OnMain, TabFetch, Attached, seedStoreVars, sessionVars,
       seedVars, storeVars
  <2> QED
    BY <1>0, <2>1, BeginCodeInv DEF Attached
<1>5. CASE HideTab
  BY <1>5 DEF HideTab, OnMain, seedStoreVars, sessionVars, seedVars, storeVars, codeVars,
     DisplayInv, DisplayTypeOK, GenLoggedIn, FreshTab, HostsHaveTab, UpdatesHaveTab,
     LoggedOutShowsDefault, UpToDate, UIIdle, IsLogin, Attached, Storing
<1>6. CASE ResumeMain
  <2>1. /\ UIIdle /\ screen = "closing" /\ screen' = "main" /\ Attached /\ Attached'
        /\ UNCHANGED <<tab, updates, token, seedVars, storeVars>>
    BY <1>6 DEF ResumeMain, ComeBack, Resume, Attached, seedVars, storeVars
  <2>2. CASE tab = "none"
    BY <1>6, <2>1, <2>2 DEF ResumeMain, codeVars, seedVars, DisplayInv, DisplayTypeOK,
       GenLoggedIn, FreshTab, HostsHaveTab, UpdatesHaveTab, LoggedOutShowsDefault,
       UpToDate, UIIdle
  <2>3. CASE tab # "none"
    BY <1>0, <1>6, <2>1, <2>3, BeginCodeInv DEF ResumeMain, seedVars, DisplayInv,
       DisplayTypeOK, HostsHaveTab
  <2> QED
    BY <2>2, <2>3
<1>7. CASE LeaveMain
  <2>1. /\ UIIdle /\ tab' = "none" /\ UNCHANGED <<updates, codeVars>> /\ screen' = "home"
        /\ ~Attached' /\ \A f \in FetchIds : ~fetch'[f].host
    BY <1>0, <1>7 DEF LeaveMain, DestroyMain, Leave, Attached, FetchState
  <2> QED
    BY <2>1 DEF codeVars, DisplayInv, DisplayTypeOK, GenLoggedIn, FreshTab, HostsHaveTab,
       UpdatesHaveTab, LoggedOutShowsDefault, OnMain, UpToDate, UIIdle
<1>8. CASE HandleUpdate
  <2>1. /\ UIIdle /\ BeginCode /\ tab \in {"shown", "hidden"} /\ tab' = tab
        /\ updates' \in 0 .. MaxUpdates /\ Attached
        /\ UNCHANGED <<token, screen, fetch, storeVars>>
    BY <1>0, <1>8 DEF HandleUpdate, DisplayInv, DisplayTypeOK, UpdatesHaveTab,
       seedStoreVars, sessionVars, seedVars, storeVars
  <2> QED
    BY <2>1, BeginCodeInv DEF Attached, DisplayInv, HostsHaveTab
<1>9. CASE FinishCode
  <2>1. IsLogin /\ tab # "none" /\ gen.pc = "keyRead" /\ gen' = NoCode
    BY <1>9 DEF FinishCode, DisplayInv, GenLoggedIn
  <2>2. UNCHANGED <<token, screen, ticketKey, ticketSeed, fetch, tab, updates, unseen>>
    BY <1>9 DEF FinishCode, seedStoreVars, sessionVars, seedVars
  <2>3. DisplayTypeOK'
    BY <1>0, <1>9, <2>1, <2>2 DEF FinishCode, DisplayInv, DisplayTypeOK, NoCode, Code, Pairs
  <2>4. UpToDate'
    BY <1>9, <2>1, <2>2 DEF FinishCode, DisplayInv, UpToDate, UIIdle, IsLogin, Storing, NoCode
  <2> QED
    BY <2>1, <2>2, <2>3, <2>4 DEF DisplayInv, GenLoggedIn, FreshTab, HostsHaveTab,
       UpdatesHaveTab, LoggedOutShowsDefault, OnMain, IsLogin, Attached, NoCode
<1>10. CASE Progress
  <2>1. /\ UNCHANGED <<displayVars, token, storeVars>>
        /\ screen' = "main" => screen = "main"
        /\ Attached' <=> Attached
    <3>1. ASSUME NEW l \in LoginIds, RejectLogin(l) \/ EndLogin(l)
          PROVE  /\ UNCHANGED <<token, storeVars>>
                 /\ screen' = screen \/ (screen = "login" /\ screen' = "closing")
      BY <1>0, <3>1 DEF RejectLogin, LoginRejected, EndLogin, FinishLogin,
         OnlyLoginScreenOwns, seedVars, storeVars
    <3>2. ASSUME NEW f \in FetchIds, FetchSend(f) \/ FetchAnswered(f) \/ FetchFails(f)
          PROVE  UNCHANGED <<token, screen, storeVars>>
      BY <3>2 DEF FetchSend, FetchAnswered, FetchFails, sessionVars
    <3> QED
      BY <1>10, <3>1, <3>2 DEF Progress, Attached
  <2> DEFINE Quiet == /\ \A f \in FetchIds : fetch'[f].host => fetch[f].host
                      /\ \A f \in FetchIds : fetch[f].pc = "keyStored" => fetch'[f] = fetch[f]
  <2>2. Quiet
    <3>1. ASSUME NEW l \in LoginIds, RejectLogin(l) \/ EndLogin(l)
          PROVE  Quiet
      BY <1>0, <3>1, SpawnHosts DEF RejectLogin, EndLogin, seedVars
    <3>2. ASSUME NEW f \in FetchIds, FetchSend(f) \/ FetchAnswered(f) \/ FetchFails(f)
          PROVE  Quiet
      BY <1>0, <3>2 DEF FetchSend, FetchAnswered, FetchFails, FetchState, NoFetch
    <3> QED
      BY <1>10, <3>1, <3>2 DEF Progress
  <2> QED
    BY <2>1, <2>2, DisplayBystander
<1>11. ASSUME NEW l \in LoginIds, NEW a \in LoginAnswers, LoginStored(l, a)
       PROVE  DisplayInv'
  <2>1. /\ UNCHANGED <<screen, seedVars, tab, updates, gen, shown>>
        /\ unseen' = (unseen \/ a.stored)
        /\ token' = token \/ (a.stored /\ IsLogin')
    BY <1>0, <1>11 DEF LoginStored, StoreLogin, SaveLogin, LoginState, IsLogin
  <2>2. /\ DisplayTypeOK' /\ GenLoggedIn' /\ FreshTab' /\ HostsHaveTab'
        /\ UpdatesHaveTab' /\ LoggedOutShowsDefault'
    BY <2>1 DEF DisplayInv, DisplayTypeOK, GenLoggedIn, FreshTab, HostsHaveTab,
       UpdatesHaveTab, LoggedOutShowsDefault, OnMain, UIIdle, Attached, IsLogin, seedVars
  <2>3. UpToDate'
    BY <2>1 DEF DisplayInv, UpToDate, UIIdle, IsLogin, Storing, seedVars
  <2> QED
    BY <2>2, <2>3 DEF DisplayInv
<1>12. ASSUME NEW f \in FetchIds, KeyStored(f)
       PROVE  DisplayInv'
  <2>1. /\ UNCHANGED <<token, screen, ticketSeed, tab, updates, gen, shown>>
        /\ unseen' = (unseen \/ ~fetch[f].forTab)
        /\ fetch' = [fetch EXCEPT ![f].pc = "keyStored"]
    BY <1>12 DEF KeyStored, StoreKey, sessionVars
  <2>2. /\ \A g \in FetchIds : fetch'[g].host = fetch[g].host
        /\ f \in Storing' /\ fetch'[f].forTab = fetch[f].forTab
    BY <1>0, <2>1 DEF FetchState, Storing
  <2>3. /\ DisplayTypeOK' /\ GenLoggedIn' /\ FreshTab' /\ HostsHaveTab'
        /\ UpdatesHaveTab' /\ LoggedOutShowsDefault'
    BY <1>0, <2>1, <2>2 DEF DisplayInv, DisplayTypeOK, GenLoggedIn, FreshTab, HostsHaveTab,
       UpdatesHaveTab, LoggedOutShowsDefault, OnMain, UIIdle, Attached, IsLogin, FetchState
  <2>4. UpToDate'
    BY <2>1, <2>2 DEF DisplayInv, UpToDate, DisplayTypeOK
  <2> QED
    BY <2>3, <2>4 DEF DisplayInv
<1>13. ASSUME NEW f \in FetchIds, SeedStored(f)
       PROVE  DisplayInv'
  <2>1. /\ UNCHANGED <<token, screen, ticketKey, tab, gen, shown>>
        /\ unseen' = (unseen \/ ~fetch[f].forTab)
        /\ fetch' = [fetch EXCEPT ![f] = NoFetch]
        /\ updates' = IF fetch[f].forTab THEN updates + 1 ELSE updates
        /\ fetch[f].forTab => updates < MaxUpdates /\ fetch[f].host
    BY <1>13 DEF SeedStored, StoreSeed, HasContext, sessionVars
  <2>2. updates' \in 0 .. MaxUpdates /\ (fetch[f].forTab => updates' # 0)
    BY <1>0, <2>1
  <2>3. \A g \in FetchIds : fetch'[g].host => fetch[g].host
    BY <1>0, <2>1 DEF NoFetch
  <2>4. /\ DisplayTypeOK' /\ GenLoggedIn' /\ FreshTab' /\ HostsHaveTab'
        /\ UpdatesHaveTab' /\ LoggedOutShowsDefault'
    BY <1>0, <2>1, <2>2, <2>3 DEF DisplayInv, DisplayTypeOK, GenLoggedIn, FreshTab,
       HostsHaveTab, UpdatesHaveTab, LoggedOutShowsDefault, OnMain, UIIdle, Attached,
       IsLogin, FetchState
  <2>5. UpToDate'
    BY <1>0, <2>1, <2>2 DEF UpToDate, DisplayInv, DisplayTypeOK, FetchState
  <2> QED
    BY <2>4, <2>5 DEF DisplayInv
<1>14. CASE NullContextCrash \/ ProcessEnds
  <2>1. \A f \in FetchIds : ~fetch'[f].host
    BY <1>14 DEF NullContextCrash, ProcessEnds, Crash, NoFetch
  <2> QED
    BY <1>14, <2>1, FreshDisplayInv DEF NullContextCrash, ProcessEnds
<1>15. CASE UNCHANGED vars
  BY <1>15, DisplayBystander DEF vars, seedStoreVars, sessionVars, seedVars, storeVars, Attached
<1> QED
  BY <1>1, <1>2, <1>3, <1>4, <1>5, <1>6, <1>7, <1>8, <1>9, <1>10, <1>11, <1>12, <1>13,
     <1>14, <1>15 DEF Next

\* The invariants of the session, the pair and the display hold in every state.
LEMMA TicketCodeInv == Spec => [](IInv /\ DisplayInv)
<1>1. Init => IInv
  BY SessionInitInv, SeedInitInv DEF Init, SeedStoreInit, IInv
<1>2. Init => DisplayInv
  <2> SUFFICES ASSUME Init
               PROVE  DisplayInv
    OBVIOUS
  <2>1. /\ tab = "none" /\ updates = 0 /\ gen = NoCode /\ shown = DefaultCode
        /\ unseen = FALSE /\ \A f \in FetchIds : ~fetch[f].host
    BY DEF Init, FreshDisplay, SeedStoreInit, SeedInit, NoFetch
  <2>2. DefaultPair \in Pairs /\ 0 \in 0 .. MaxUpdates
    BY TicketAssumption DEF Pairs
  <2>3. DisplayTypeOK
    BY <2>1, <2>2 DEF DisplayTypeOK, NoCode, Code, DefaultCode
  <2> QED
    BY <2>1, <2>3 DEF DisplayInv, GenLoggedIn, FreshTab, HostsHaveTab, UpdatesHaveTab,
       LoggedOutShowsDefault, UpToDate, NoCode
<1>3. IInv /\ [Next]_vars => IInv'
  BY TicketStepsStore, SeedStoreStepInv
<1> QED
  BY <1>1, <1>2, <1>3, DisplayStepInv, PTL DEF Spec

\* Every variable of the ticket tab, the pair and the session has its type.
THEOREM TicketCodeTypeCorrect == Spec => []TypeOK
<1>1. IInv /\ DisplayInv => TypeOK
  BY DEF IInv, SessionInv, SeedInv, SeedTypeOK, SeedStoreTypeOK, DisplayInv,
     DisplayTypeOK, TypeOK
<1> QED
  BY <1>1, TicketCodeInv, PTL

\* Logged out, the main screen never shows a code of the account that has left
\* (SystemSettingActivity.logout keeps key and seed; Fragment3.onResume makes
\* the code again), whatever threads, messages and late answers there are.
THEOREM NoCodeAfterLogout == Spec => []LoggedOutShowsDefault
<1>1. DisplayInv => LoggedOutShowsDefault
  BY DEF DisplayInv
<1> QED
  BY <1>1, TicketCodeInv, PTL

\* The tab's own fetch never leaves an outdated code on display once its
\* message was handled (Fragment3's callback and mUpdateQrHandler), for any
\* number of fetches in flight and messages waiting.
THEOREM OwnFetchIsShown == Spec => []CodeUpToDate
<1>1. DisplayInv => CodeUpToDate
  BY DEF DisplayInv, LoggedOutShowsDefault, UpToDate, CodeUpToDate, OnMain, CurrentCode,
     IsLogin
<1> QED
  BY <1>1, TicketCodeInv, PTL
=============================================================================
