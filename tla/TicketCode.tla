---------------------------- MODULE TicketCode ----------------------------
(***************************************************************************)
(* The ticket QR code on display (fragment/Fragment3.java), composed with  *)
(* the stored pair it is made from (SeedStore) and the session that        *)
(* decides whether it is used (Session).  generateQrCode reads the key and *)
(* the seed one after the other on the UI thread, while the threads of     *)
(* SeedStore commit them one after the other on theirs.                    *)
(*                                                                         *)
(* The UI thread does one thing at a time: each of its other steps waits   *)
(* until the code it is making is finished (UIIdle).                       *)
(***************************************************************************)
EXTENDS SeedStore, Naturals

CONSTANT
  MaxUpdates   \* bound: messages waiting in mUpdateQrHandler's queue

ASSUME TicketAssumption == MaxUpdates \in Nat \ {0}

VARIABLES
  tab,         \* Fragment3: "none", or "shown" or "hidden" since it was added
  updates,     \* messages posted to mUpdateQrHandler and not handled yet
  gen,         \* generateQrCode, between its reading of the key and of the seed
  shown,       \* the key and the seed the code on display was made from
  unseen       \* history: a thread that tells the tab nothing has stored
               \* something since the last code was begun

codeVars == <<gen, shown, unseen>>
displayVars == <<tab, updates, codeVars>>
vars == <<seedStoreVars, displayVars>>
-----------------------------------------------------------------------------
Code == [key : Pairs, seed : Pairs]
DefaultCode == [key |-> DefaultPair, seed |-> DefaultPair]

NoCode == [pc |-> "idle", key |-> DefaultPair]

UIIdle == gen.pc = "idle"

\* The user's hands are on the main screen, and the UI thread is free.
OnMain == screen = "main" /\ UIIdle

\* What generateQrCode would show if it ran now and nothing else did.
CurrentCode == IF IsLogin THEN [key |-> ticketKey, seed |-> ticketSeed] ELSE DefaultCode
-----------------------------------------------------------------------------

\* generateQrCode up to the read of the key: logged out, the code is made
\* from the default pair at once; logged in, the seed is read in a later step.
BeginCode ==
  /\ unseen' = FALSE
  /\ IF IsLogin
       THEN gen' = [pc |-> "keyRead", key |-> ticketKey] /\ UNCHANGED shown
       ELSE shown' = DefaultCode /\ UNCHANGED gen

\* The rest of generateQrCode; the UI thread goes back to its queue.
FinishCode ==
  /\ gen.pc = "keyRead"
  /\ shown' = [key |-> gen.key, seed |-> ticketSeed]
  /\ gen' = NoCode
  /\ UNCHANGED <<seedStoreVars, tab, updates, unseen>>
-----------------------------------------------------------------------------
\* The display of a process that has just started.
FreshDisplay(t, n, g, c, u) ==
  t = "none" /\ n = 0 /\ g = NoCode /\ c = DefaultCode /\ u = FALSE

Init == SeedStoreInit /\ FreshDisplay(tab, updates, gen, shown, unseen)

\* A new MainActivity has new fragments.
LaunchApp ==
  /\ UIIdle /\ updates = 0
  /\ StartApp
  /\ FreshDisplay(tab', updates', gen', shown', unseen')

BrowseAway == UIIdle /\ Browse /\ UNCHANGED displayVars

\* The ticket tab is chosen for the first time: switchFragment adds the
\* fragment, and its onResume makes a code from what is stored.
AddTab ==
  /\ OnMain /\ tab = "none"
  /\ tab' = "shown"
  /\ BeginCode
  /\ UNCHANGED <<seedStoreVars, updates>>

\* Chosen again: onHiddenChanged(false) starts a fetch if logged in, and
\* makes a code without waiting for it.
ShowTab ==
  /\ OnMain /\ tab = "hidden"
  /\ tab' = "shown"
  /\ IF IsLogin THEN TabFetch ELSE UNCHANGED seedStoreVars
  /\ BeginCode
  /\ UNCHANGED updates

HideTab ==
  /\ OnMain /\ tab = "shown"
  /\ tab' = "hidden"
  /\ UNCHANGED <<seedStoreVars, updates, codeVars>>

\* The button that refreshes the code only makes it again.
RefreshCode ==
  /\ OnMain /\ tab = "shown"
  /\ BeginCode
  /\ UNCHANGED <<seedStoreVars, tab, updates>>

\* Faulty variant of ResumeMain: only a tab in view makes a new code.
ResumeInView ==
  /\ UIIdle
  /\ ComeBack
  /\ IF tab = "shown" THEN BeginCode ELSE UNCHANGED codeVars
  /\ UNCHANGED <<tab, updates>>

\* MainActivity resumes, and with it Fragment3 once it was added, shown or not.
ResumeMain ==
  /\ UIIdle
  /\ ComeBack
  /\ IF tab = "none" THEN UNCHANGED codeVars ELSE BeginCode
  /\ UNCHANGED <<tab, updates>>

\* Faulty variant of LeaveMain: the tab's threads keep their context.
LeaveAttached ==
  /\ UIIdle
  /\ Leave /\ UNCHANGED seedVars
  /\ tab' = "none"
  /\ UNCHANGED <<updates, codeVars>>

LeaveMain ==
  /\ UIIdle
  /\ DestroyMain
  /\ tab' = "none"
  /\ UNCHANGED <<updates, codeVars>>

\* Faulty variant of HandleUpdate: it runs without a message.
HandleNothing ==
  /\ UIIdle /\ Attached
  /\ updates' = updates - 1
  /\ BeginCode
  /\ UNCHANGED <<seedStoreVars, tab>>

\* mUpdateQrHandler.handleMessage
HandleUpdate ==
  /\ UIIdle /\ updates > 0 /\ Attached
  /\ updates' = updates - 1
  /\ BeginCode
  /\ UNCHANGED <<seedStoreVars, tab>>
-----------------------------------------------------------------------------
\* A token that is stored changes what CurrentCode is without telling the tab.
LoginStored(l, a) ==
  /\ StoreLogin(l, a)
  /\ unseen' = (unseen \/ a.stored)
  /\ UNCHANGED <<tab, updates, gen, shown>>

\* Steps of the login requests and of the fetches that store nothing.
Progress ==
  /\ \/ \E l \in LoginIds : RejectLogin(l) \/ EndLogin(l)
     \/ \E f \in FetchIds : FetchSend(f) \/ FetchAnswered(f) \/ FetchFails(f)
  /\ UNCHANGED displayVars

\* A QrSeedFetcher tells nobody what it stores.
KeyStored(f) ==
  /\ StoreKey(f)
  /\ unseen' = (unseen \/ ~fetch[f].forTab)
  /\ UNCHANGED <<tab, updates, gen, shown>>

\* Faulty variant of SeedStored: Fragment3's callback posts no message.
SeedStoredSilently(f) ==
  /\ StoreSeed(f)
  /\ unseen' = (unseen \/ ~fetch[f].forTab)
  /\ UNCHANGED <<tab, updates, gen, shown>>

\* Fragment3's own callback posts a message to its handler.
SeedStored(f) ==
  /\ fetch[f].forTab => updates < MaxUpdates
  /\ StoreSeed(f)
  /\ updates' = IF fetch[f].forTab THEN updates + 1 ELSE updates
  /\ unseen' = (unseen \/ ~fetch[f].forTab)
  /\ UNCHANGED <<tab, gen, shown>>

ProcessEnds == Crash /\ FreshDisplay(tab', updates', gen', shown', unseen')

\* A thread of a fragment that is gone, or a message to its handler, uses the
\* fragment's null context.
NullContextCrash ==
  /\ Stranded \/ (updates > 0 /\ UIIdle /\ ~Attached)
  /\ ProcessEnds

Next ==
  \/ LaunchApp \/ BrowseAway \/ AddTab \/ ShowTab \/ HideTab \/ RefreshCode
  \/ ResumeMain \/ LeaveMain \/ HandleUpdate \/ FinishCode \/ Progress
  \/ \E l \in LoginIds, a \in LoginAnswers : LoginStored(l, a)
  \/ \E f \in FetchIds : KeyStored(f) \/ SeedStored(f)
  \/ NullContextCrash \/ ProcessEnds

Spec == Init /\ [][Next]_vars

\* Threads and callbacks run to their end, OkHttp answers or times out every
\* call, and the UI thread works off its queue in order: a message posted to
\* it is dispatched however often the user keeps it busy.  (Strong fairness of
\* SeedStored only makes up for the bound MaxUpdates, which the code has not.)
Fairness ==
  /\ \A f \in FetchIds :
       /\ WF_vars((FetchSend(f) \/ FetchAnswered(f) \/ FetchFails(f)) /\ UNCHANGED displayVars)
       /\ WF_vars(KeyStored(f))
       /\ SF_vars(SeedStored(f))
  /\ WF_vars(FinishCode) /\ WF_vars(NullContextCrash)
  /\ SF_vars(HandleUpdate)

FairSpec == Spec /\ Fairness
-----------------------------------------------------------------------------
TypeOK ==
  /\ SeedStoreTypeOK
  /\ tab \in {"none", "shown", "hidden"}
  /\ updates \in 0 .. MaxUpdates
  /\ gen \in [pc : {"idle", "keyRead"}, key : Pairs]
  /\ shown \in Code
  /\ unseen \in BOOLEAN

\* After a logout nobody comes back to a code of the account that has left: on
\* the main screen, logged out, the ticket tab shows the default code
\* (SystemSettingActivity.logout leaves key and seed stored; what replaces the
\* code is Fragment3.onResume).
LoggedOutShowsDefault ==
  OnMain /\ ~IsLogin => shown = DefaultCode

\* The ticket tab never lags behind the preferences because of its own fetch:
\* if the code on display is not the one generateQrCode would make now, a code
\* is on its way, or something was stored by a thread that does not tell the
\* tab (QrSeedFetcher, or the answer to a late login).
CodeUpToDate ==
  /\ OnMain /\ tab # "none" /\ updates = 0 /\ ~unseen
  /\ ~ \E f \in Storing : fetch[f].forTab
  => shown = CurrentCode

Personal(pair) == pair.owner # NoUser

\* An answer to the ticket tab's own fetch gets on display, unless the user
\* logs out or the activity goes: the tab does not stay at the default code
\* (the message posted to mUpdateQrHandler).
FetchedCodeIsShown ==
  \A f \in FetchIds :
    fetch[f].pc = "answered" /\ fetch[f].forTab /\ fetch[f].host
      ~> \/ Personal(shown.key) /\ Personal(shown.seed)
         \/ ~Attached \/ ~IsLogin
=============================================================================
