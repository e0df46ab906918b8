----------------------------- MODULE SeedStore -----------------------------
(***************************************************************************)
(* The key and the seed the ticket QR code is made from, in the shared     *)
(* preferences, and the threads that fetch them: engine/QrSeedFetcher.java *)
(* (started by SplashActivity and after every login answer) and the thread *)
(* fragment/Fragment3.java starts when the ticket tab is shown again.  The *)
(* two halves of an answer are committed one after the other on an OkHttp  *)
(* thread; nothing excludes another thread in between, and nothing asks    *)
(* whether the account the answer is for is still logged in.               *)
(***************************************************************************)
EXTENDS Session

CONSTANTS
  FetchIds,    \* bound: getQrSeed calls that can be in flight together
  Serials,     \* what tells one pair issued to an account from another
  NoSerial     \* the serial of the default pair

VARIABLES
  ticketKey,   \* TICKET_CODE_CREATE_KEY, persistent: the pair whose key it is
  ticketSeed,  \* TICKET_CODE_CREATE_SEED, persistent: the pair whose seed it is
  fetch,       \* fetch[f]: a thread that asks for a pair and stores the answer
  torn         \* history: since a store was last begun with no other under way,
               \* two stores overlapped or the process died between two commits

storeVars == <<ticketKey, ticketSeed, torn>>
seedVars == <<ticketKey, ticketSeed, torn, fetch>>
seedStoreVars == <<sessionVars, seedVars>>
-----------------------------------------------------------------------------
\* A pair is known by the account it was issued to and a serial; the pair in
\* the source of Fragment3, which getTicketCodeCreateKey and -Seed fall back
\* on, belongs to nobody.
Issued == [owner : Users, serial : Serials]
DefaultPair == [owner |-> NoUser, serial |-> NoSerial]
Pairs == Issued \cup {DefaultPair}

\* spawned: the thread exists.  sent: it has read the token and called the
\* server.  answered: the answer is parsed.  keyStored: its key is committed,
\* its seed is not.  forTab: started by Fragment3 and not a QrSeedFetcher.
\* host: the fragment that started it is still attached to its activity.
FetchState == [pc : {"idle", "spawned", "sent", "answered", "keyStored"},
               forTab : BOOLEAN, host : BOOLEAN, asked : Tokens, pair : Pairs]

NoFetch == [pc |-> "idle", forTab |-> FALSE, host |-> FALSE,
            asked |-> NoUser, pair |-> DefaultPair]

\* The threads between their two commits.
Storing == {f \in FetchIds : fetch[f].pc = "keyStored"}

\* A thread of Fragment3 uses getContext(), which is null once it is detached.
HasContext(f) == fetch[f].forTab => fetch[f].host

\* Start a thread in a free slot.
Spawn(forTab) ==
  \E f \in FetchIds :
    /\ fetch[f] = NoFetch
    /\ fetch' = [fetch EXCEPT ![f] =
                   [pc |-> "spawned", forTab |-> forTab, host |-> forTab,
                    asked |-> NoUser, pair |-> DefaultPair]]
-----------------------------------------------------------------------------
SeedInit ==
  /\ ticketKey = DefaultPair
  /\ ticketSeed = DefaultPair
  /\ fetch = [f \in FetchIds |-> NoFetch]
  /\ torn = FALSE

SeedStoreInit == SessionInit /\ SeedInit

\* SplashActivity.onCreate: with a token in the preferences a QrSeedFetcher
\* starts beside MainActivity.
StartApp ==
  /\ Launch
  /\ IF IsLogin THEN Spawn(FALSE) ELSE UNCHANGED fetch
  /\ UNCHANGED storeVars

\* Steps of the user that leave the pair alone; Logout does too.  (A request
\* for no account only fails, and is left out.)
Browse ==
  /\ \/ OpenLogin \/ OpenSettings \/ OpenUserInfo
     \/ CloseLogin \/ CloseScreen \/ Logout
     \/ \E l \in LoginIds, u \in Users : SendLogin(l, u)
  /\ UNCHANGED seedVars

ComeBack == Resume /\ UNCHANGED seedVars

\* Fragment3.onHiddenChanged(false): a thread to fetch the pair, if logged in.
TabFetch ==
  /\ screen = "main"
  /\ IsLogin
  /\ Spawn(TRUE)
  /\ UNCHANGED <<sessionVars, storeVars>>

\* MainActivity is destroyed: the threads its Fragment3 started keep running.
DestroyMain ==
  /\ Leave
  /\ fetch' = [f \in FetchIds |-> [fetch[f] EXCEPT !.host = FALSE]]
  /\ UNCHANGED storeVars

RejectLogin(l) == LoginRejected(l) /\ UNCHANGED seedVars

StoreLogin(l, a) == SaveLogin(l, a) /\ UNCHANGED seedVars

\* onResponse goes on to start a QrSeedFetcher whatever the answer's code is,
\* unless there is none to read.
EndLogin(l) ==
  /\ FinishLogin(l)
  /\ IF login[l].code = "unread" THEN UNCHANGED fetch ELSE Spawn(FALSE)
  /\ UNCHANGED storeVars
-----------------------------------------------------------------------------
\* The thread reads the token and calls the server.
FetchSend(f) ==
  /\ fetch[f].pc = "spawned"
  /\ HasContext(f)
  /\ fetch' = [fetch EXCEPT ![f].pc = "sent", ![f].asked = token]
  /\ UNCHANGED <<sessionVars, storeVars>>

\* The server issues a pair to the account whose token it was sent.
FetchAnswered(f) ==
  /\ fetch[f].pc = "sent"
  /\ fetch[f].asked # NoUser
  /\ \E n \in Serials :
       fetch' = [fetch EXCEPT ![f].pc = "answered",
                              ![f].pair = [owner |-> fetch[f].asked, serial |-> n]]
  /\ UNCHANGED <<sessionVars, storeVars>>

\* onFailure, or an answer that is not successful (as to a call without a
\* token), or one that mapper.readValue rejects.
FetchFails(f) ==
  /\ fetch[f].pc = "sent"
  /\ fetch' = [fetch EXCEPT ![f] = NoFetch]
  /\ UNCHANGED <<sessionVars, storeVars>>

\* setTicketCodeCreateKey
StoreKey(f) ==
  /\ fetch[f].pc = "answered"
  /\ HasContext(f)
  /\ ticketKey' = fetch[f].pair
  /\ fetch' = [fetch EXCEPT ![f].pc = "keyStored"]
  /\ torn' = (Storing # {})
  /\ UNCHANGED <<sessionVars, ticketSeed>>

\* Faulty variant of StoreSeed: a seed, once stored, is not replaced.
StoreSeedOnce(f) ==
  /\ fetch[f].pc = "keyStored"
  /\ HasContext(f)
  /\ ticketSeed' = IF ticketSeed = DefaultPair THEN fetch[f].pair ELSE ticketSeed
  /\ fetch' = [fetch EXCEPT ![f] = NoFetch]
  /\ UNCHANGED <<sessionVars, ticketKey, torn>>

\* setTicketCodeCreateSeed
StoreSeed(f) ==
  /\ fetch[f].pc = "keyStored"
  /\ HasContext(f)
  /\ ticketSeed' = fetch[f].pair
  /\ fetch' = [fetch EXCEPT ![f] = NoFetch]
  /\ UNCHANGED <<sessionVars, ticketKey, torn>>

FetchStep(f) ==
  \/ FetchSend(f) \/ FetchAnswered(f) \/ FetchFails(f) \/ StoreKey(f) \/ StoreSeed(f)
-----------------------------------------------------------------------------
\* The process ends, at any moment: the threads with it, the commits stay.
Crash ==
  /\ ProcessDies
  /\ fetch' = [f \in FetchIds |-> NoFetch]
  /\ torn' = (torn \/ Storing # {})
  /\ UNCHANGED <<ticketKey, ticketSeed>>

\* Off line, createService shows a Toast from a thread that has no Looper,
\* which throws, and would return null to its caller: nothing catches either.
CrashOffLine == (\E f \in FetchIds : fetch[f].pc = "spawned") /\ Crash

\* The thread of a detached Fragment3 passes its null context on, and nothing
\* catches the exception.
Stranded == \E f \in FetchIds : ~HasContext(f) /\ fetch[f].pc # "sent"

CrashOnNullContext == Stranded /\ Crash

SeedStoreNext ==
  \/ StartApp \/ Browse \/ ComeBack \/ TabFetch \/ DestroyMain
  \/ \E l \in LoginIds : RejectLogin(l) \/ EndLogin(l)
  \/ \E l \in LoginIds, a \in LoginAnswers : StoreLogin(l, a)
  \/ \E f \in FetchIds : FetchStep(f)
  \/ CrashOffLine \/ CrashOnNullContext \/ Crash

SeedStoreSpec == SeedStoreInit /\ [][SeedStoreNext]_seedStoreVars

\* Threads and callbacks run to their end, or to the exception that ends the
\* process, and OkHttp answers or times out every call.
SeedStoreFairness ==
  /\ \A f \in FetchIds : WF_seedStoreVars(FetchStep(f))
  /\ WF_seedStoreVars(CrashOnNullContext)

SeedStoreFairSpec == SeedStoreSpec /\ SeedStoreFairness
-----------------------------------------------------------------------------
SeedStoreTypeOK ==
  /\ SessionTypeOK
  /\ ticketKey \in Pairs /\ ticketSeed \in Pairs
  /\ fetch \in [FetchIds -> FetchState]
  /\ torn \in BOOLEAN

\* The key and the seed in the preferences come from one answer, unless a
\* store is under way, or stores overlapped or were cut short and none has run
\* undisturbed since (QrSeedFetcher and Fragment3 commit the two separately).
PairMatches ==
  ~torn /\ Storing = {} => ticketKey = ticketSeed

AskedFor(pair) ==
  \E f \in FetchIds : fetch[f].pair = pair /\ fetch[f].asked = pair.owner

\* Half of a pair enters the preferences only through a call that was made
\* with the token of the account it belongs to, however late it is answered:
\* no thread stores one account's half in the name of another.
StoredWasAskedFor ==
  [][/\ ticketKey' # ticketKey => AskedFor(ticketKey')
     /\ ticketSeed' # ticketSeed => AskedFor(ticketSeed')]_<<ticketKey, ticketSeed>>

\* Answers meant for an account that was logged in before may overwrite the
\* current account's pair, but not for ever: while one account stays logged in
\* and its fetches keep succeeding, key and seed become its own and stay so.
PairConverges ==
  \A u \in Users :
    <>[](token = u /\ screen # "dead") /\ []<>(Storing # {})
      => <>[](ticketKey.owner = u /\ ticketSeed.owner = u)
=============================================================================
