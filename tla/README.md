# A model of the e-ticket app

The app (package `com.funenc.eticket`) logs a passenger in by SMS code, shows a
QR ticket code made from a key and a seed that the server issues, and lists
journeys, messages, headlines and the profile. It is small, but almost every
answer of the server is handled on a thread of OkHttp, straight into shared
preferences, static fields and views, while the user goes on pressing buttons
on the UI thread, logs out, logs in as somebody else, or leaves. There are no
locks, no request is ever cancelled, and no answer is compared with the state
it arrives in. That is what these modules are about.

Paths below are relative to `src/app/src/main/java/com/funenc/eticket/`, unless
they begin with `cpp/`, which is `src/app/src/main/cpp/`.

## 1. Inventory

| component | state it keeps | operations | what makes it correct |
|---|---|---|---|
| Login session (`LoginActivity`, `storage/AppStore`, `SystemSettingActivity`, `SplashActivity`, `MainActivity`) | the token in the preferences; requests in flight; which activity is in front | open and close screens, send login, answers, logout, death of the process | an answer closes only the screen that asked, and takes away no token that another one brought |
| Ticket pair store (`engine/QrSeedFetcher`, `fragment/Fragment3`, `AppStore`) | key and seed, two preferences committed one after the other; threads fetching a pair | start a fetcher (at start-up, after a login answer, when the ticket tab is shown again), read the token, be answered, commit the key, commit the seed | key and seed belong together; a pair is stored for the account it was asked for; late answers do not win for ever |
| Ticket code display (`Fragment3`, `BottomBar`) | the image, the handler's queue, whether the tab was added, is shown, is hidden | make a code (two reads), add, show, hide, refresh, resume, handle a message | nobody sees the code of an account that has left; what the tab fetched gets on display |
| Account identity and page (`engine/SelfUserInfoFetcher`, `AppStore`, `FragmentAccount`, `UserInfoActivity`, `SystemSettingActivity`) | the static `selfUser`, the stored phone, the page and what its views hold | fill an empty cache lazily, `setSelfUser` from three kinds of callback, `refreshPage`, `getMe` answers | the app's user is the one logged in; a user's page is never left standing; the profile has a user to show |
| Login form (`LoginActivity`) | two fields, two buttons, countdown timers, `UserLoginTask` | edit, ask for an SMS, tick, press login, press Done | the SMS button comes back; a request carries a code |
| API layer (`okhttp/ApiFactory`, `okhttp/HttpUtils`, `api/*Service`) | none | turn an annotated call into an OkHttp call | every call is answered or fails once; throws on a worker thread when off line |
| Station list and order remedy (`engine/StationListFetcher`, `AppStore`, `fragment/FragmentStationList`, `OrderRemedyActivity`) | a static list and a static map of lists | fetchers append, screens read by position, confirm and pay | lines are complete; a position goes on naming the same station; the station paid for is the one chosen |
| Journey history (`FragmentJourneyHistory`, `JourneyHistoryItem`, its adapter) | a list shared by the adapter and two callbacks | clear and refill off the UI thread, convert, notify | the view is told the size the list has; the list is one request's answer |
| Profile editing (`UserInfoActivity`, `InputActivity`, `model/User`) | copies of the cached user, the texts of the screen | upload an avatar, send a copy with one field changed, cache the answer, redraw | an acknowledged edit stands and is shown; an edit changes its own item only |
| Navigation (`BottomBar`, `MainActivity`, `GuideActivity`) | current tab, fragments added, the flag of the double click | choose a tab, leave | one tab in view; a double click leaves |
| Home page, headlines (`Fragment1`, `FragmentHeadlineList`) | the list of categories, which the pager's adapter counts by; the tabs, the page, the tab selected, the listeners | a request at each `onStart`, a callback that replaces the list, a runnable that makes the tabs, a message that notifies the pager, choices of tabs and pages | at rest the tabs are the pages and the tab of the page shown is selected |
| Messages (`MessageActivity`, `FragmentMessageList`) | unread counts, tabs | answers, a handler | the counts shown are the ones answered |
| Native codecs (`cpp/native-lib.cpp`, `cpp/sm4.cpp`, `cpp/utils.cpp`) | two key files and a static path to them | AES and SM4 blocks and padding, hex, SM2 signature, key files | decoding inverts encoding, on ABIs of both word sizes; a signature let out verifies; a process uses a pair of keys |
| JAX-RS helpers (`api/util`) | none | query maps, URI templates | derived from Apache CXF |

`Top-up` is a form without a call; the cryptography under `cpp/crypto` and
`cpp/include` is third-party.

**How they interact.** Everything meets in the preferences and the static
fields of `AppStore`. `SplashActivity` starts a `QrSeedFetcher` and a
`SelfUserInfoFetcher` when a token is stored; the login answer starts both,
whatever its code is, after storing the token, the user and (another commit)
the phone. `Fragment3` starts a fetch of its own, which differs from
`QrSeedFetcher` in three ways that matter: it uses the fragment's context, which
is null once the activity is gone; it catches `IOException` only; and it posts a
message to the fragment's handler afterwards. Logout is one statement: it
removes the token and leaves pair, user and phone.

**What is hard.** Two commits for one answer; answers for an account that has
left; a context checked on one thread and gone on another; a cache filled in
three steps on the UI thread while callbacks replace it; a code made by two
reads while two writes are under way; lists filled by several threads and drawn by
a third; edits that send a copy of what was cached before the last one was
answered; exceptions nothing catches (a `Toast`
from a worker thread, a null context) that end the process between two commits.
The list, with a line for each, is `hazards` in `PROJECT.json`.

## 2. Modules

```
Session ----+---- SeedStore ---- TicketCode       StationStore ---- JourneyHistory ---- OrderRemedy
            +---- Account                         LineCatalogue <== StationStore
            +---- LoginScreen                     CipherChannel <== Sm4      ProfileUpdate      NativeLib
                                                  HomePager

proofs:  SessionProofs, TicketCodeProofs, AccountProofs, ScreenProofs,
         ProfileUpdateProofs, OrderRemedyProofs, Sm4Proofs, NativeLibProofs
TLC:     MCSeedStore, MCTicketCode, MCAccount, MCLoginScreen, MCProfileUpdate,
         MCOrderRemedy, MCHomePager, MCSm4, MCNativeLib
```

A line means that the module on the right extends the one on the left; `<==` is
a refinement.

**Session** is the abstract behaviour the others build on: the token, the login
requests, the screens. A token is identified with the account it authenticates.
The other modules *conjoin* to its actions what the same handler does to their
own state, so a handler is one action everywhere and never two that could be
taken apart. A login answer takes two steps, since other threads run between:
`SaveLogin` (the token is committed) and `FinishLogin` (`finish()` and the
fetchers). The code tests two things of an answer and never asks whether they go
together: a token is stored when there is one, and the screen is finished when the
code is 0. So an answer is a pair of the two (`LoginAnswers`), the odd ones included: a
token with another code or with none, and a code 0 without a token, which finishes the
screen with nobody logged in. Without a code the handler ends there and starts no
fetchers. A login screen that goes away leaves its requests running without it
(`Orphaned`).

**SeedStore** adds the stored pair and the fetching threads. A pair is its
owner and a serial; `ticketKey` and `ticketSeed` say which pair each stored half
comes from. A thread goes `spawned`, `sent` (token read), `answered`,
`keyStored` and back to `idle`. `host` says whether the fragment that started
it is still attached: without it a thread of `Fragment3` can only throw
(`Stranded`, `CrashOnNullContext`). `torn` is a history variable: it says that
since a store was last begun alone two of them overlapped or the process died
between commits.

**TicketCode** adds the tab. `BeginCode` is `generateQrCode` up to the read of
the key and `FinishCode` the rest, because threads commit in between; all other
UI actions wait for it (`UIIdle`), the UI thread being one. `ShowTab` is a
choice of a tab that was there before, and the only one that fetches
(`FragmentTransaction.add` calls no `onHiddenChanged`). `unseen` is history: a
thread that tells the tab nothing has stored something since the last code was
begun.

**Account** adds `selfUser` and the phone. `setSelfUser` is two steps on a
callback's thread (`AssignSelf`, `CommitPhone`), `getSelfUser` on an empty cache
three on the UI thread (`BeginGetSelfUser`, `AssignBlank`, `SetLoadedPhone`).
Users are objects: while a thread is in `setSelfUser`, `selfUser` may name that
thread, so that `SetLoadedPhone` changes the very object whose phone the thread
commits next. (The field read and the phone read of `getSelfUser`'s last
statement are one step.) An answer
names its user only if its code is 0 (`NameCached`), whether or not it has stored a
token; `LoggingIn` says that a handler has stored one and is about to name its user.
`mixed` is history: since the last answer with a token and code 0 was stored, a user
other than the token's owner was stored or loaded, a handler was cut short, or an
answer with another code has changed the token.

**LoginScreen** adds the form. Its texts are reduced to what the watchers and
`attemptLogin` tell apart: no phone or an account's, a code that is empty, short
or full.

**HomePager** is the headlines' part of `Fragment1`. A request goes `sent`, `assigned`
(the field `headlineCateItems` is replaced, on a thread of OkHttp, and the adapter counts
by it from then on), `posted`, `running` (`BeginRun`, then two steps for each turn of the
loop, `TestTurn` and `AddTab`, since the list may be replaced between the test and the
`get`), `message` and, when the pager was notified, `done`. A list is the request it
answers and its size; a tab is the list its title is from and its place in it. The UI
thread is in one runnable at a time (`UIIdle`). The support library is modelled by what
it does here: a `TabLayout` selects the first tab it is given and tells its listeners,
which are there from the first answer on (`listening`); a `ViewPager` throws when it is
asked for a page while its adapter's count is not the one it was told (`Shows`), and
such an end of the process is `HomeDies`. `fresh` is history: the tabs were made since
the last `onStart`.

**ProfileUpdate** is the screen that edits the profile. An edit is a call with a
form, the copy of the cached user with one item changed (`Form`), of which
`handleForm` leaves out what is null (`Merge`); an avatar is uploaded first. A name or
an address is whatever the field of `InputActivity` holds, nothing included: an empty
text (`Empty`) is not null, is sent, and empties the item. A
call is sent, applied by the server, answered; or refused, given up (its request
may still get to the server), or lost. The answer is the whole profile and becomes
`selfUser`; the message that follows redraws one item, on the screen that is there
or on one that is gone. Three history variables: `promised` is the value of each
item's last acknowledged edit, as long as no call overlapped that edit; `missed`
the items a screen could not have heard of; `behind` says that the server has dealt with
a change that no answer to a call made alone has brought to the app yet. The account is the same throughout;
whose user is cached is Account's matter.

**StationStore** is `AppStore.stationList` and `stationLineInfo` with the threads
that fill them. `lists[<<o, l>>]` is the `ArrayList` fetcher `o` made for line
`l`, an array and a size; an `add` reads the size in one step (`ReadSize`) and
writes the array and the size it has read plus one in another (`WriteStation`).
That an `ArrayList` moves to a larger array, and so may lose more, is left out.
`MainActivity` may be created in a process that has no context yet. `mixed` is
history: two fetchers have been in `setStationList` at a time.

**LineCatalogue** is what `setStationList` would be if each turn of its loop were one
step: a station comes to the end of its line, the next one follows, and after the last
the first again. `ImplementsCatalogue` is that specification with `lines` replaced by
what the lists of the map hold and `next` by the place of the fetcher at work; the steps
of a turn but for the last do not show. Once two fetchers overlap (`mixed`) the
catalogue is spoilt until the process ends, and nothing is promised.

**JourneyHistory** is the tab on top of it: two requests at each `onResume`, whose
callbacks clear the list (`ClearData`), convert the answer (`Convert`, whose row may
be blank: a date that does not parse, or a station looked up before there are any, is
caught, and null is added), add it in two steps
(`CopyRow`, `Grow`) and send a message (`Notify`). A row is the request it answers.
Two history variables: `clash` says that two callbacks were at work at a time, `last`
which request's callback has cleared the list last.

**OrderRemedy** is what a click on a row opens: a line's stations as they were
drawn, the dialog that asks about one, and the `changeOrder` calls, whose message
looks the station up by its position again. It takes the steps of JourneyHistory
with it (`JourneyStep`); a page on top only keeps `MainActivity` from being left.

The two abstract specifications, LineCatalogue and CipherChannel, translate no lines
of the code: `map` has no entries for them.

**Sm4** runs `cpp/sm4.cpp` one loop iteration at a time: key schedule, swap, and the
32 rounds of each block, in both modes, once to encrypt a message and once to decrypt
it. A long is the set of the positions of its bits, so that `width` can be 32 or 64;
with 64, `ROTL` leaves bits above the 31st behind. **CipherChannel** says what the
two ends promise: the blocks of the message come out in their order, once each.
`ImplementsChannel` is that specification with `sent` and `received` replaced by
the message and what was decrypted. ECB is the mode of the device: there the message is
decrypted by `native-lib`'s `sm4Dec`, into an array of 32 bytes whose end nothing looks
at. A third block is written behind it (`Overrun`, after which nothing is said), and
what is returned is always the whole array (`Returned`). CBC has no caller; its output is
taken to have room. `ek` and `trace` are history variables.

**NativeLib** is the rest of `cpp/native-lib.cpp`: the signature with the rejection loop
of `crypto/sm2/sm2_sign.c` and the bytes of a number of `crypto/bn/bn_lib.c` (the only
vendored code that is modelled, over a cyclic group given by its x coordinates), the
padding of AES, hex both ways, and the two files of a key pair, written one after the
other without a look at what the writes return. An inverse is called on what the last
call has returned.

Names ending in words such as `Silently`, `Once`, `ForGood` are faulty variants
of the action or operator that follows them. No next-state relation uses them: they state a
plausible mistake that the property named in `mutants` of `PROJECT.json` finds.

## 3. What the runs show

| run | instance | question |
|---|---|---|
| `seed_store` | 2 accounts, 1 login request, 2 fetches, 1 serial; 900 k states | Does the stored pair belong together (`PairMatches`), and does the pair become the current account's for good (`PairConverges`)? |
| `ticket_code` | 1 account, 1 request, 2 fetches, 2 serials, 2 messages; 1.58 M states | `LoggedOutShowsDefault`, `CodeUpToDate`, and that TicketCode implements SeedStore (`SeedStoreSpec`) |
| `ticket_code_live` | 2 accounts, 1 fetch, 1 message; 324 k states | Does the answer to the tab's own fetch get on display (`FetchedCodeIsShown`)? |
| `account` | 2 accounts, 1 request, 1 user call, 1 `getMe`; 406 k states | `UserIsLoggedIn`, `UserPageHasUser`, `NoPageOfTheDeparted`, `AccountConverges` |
| `login_screen` | 1 account, 2 requests, 2 countdowns from 2; 1.04 M states | `SmsButtonComesBack`, `RequestHasCode`, and of the session's two requests: is the token one of them brought still there when the other one's code 0 finishes the screen (`ClosesLoggedIn`)? |
| `profile_update` | 2 edits, 1 fetch of the own user, 2 items of 2 values, one of which may be emptied; 4.18 M states | Does an acknowledged edit stand (`AcknowledgedEditStands`) and get on display (`EditIsShown`)? Does an edit change its own item only (`EditKeepsToItsItem`)? |
| `order_remedy` | 2 fetchers, 2 stations on one of 2 lines, 1 `onResume`, 1 payment; 1.03 M states | `LinesAreComplete`, `PositionsStay`, `ContextIsThere`, and that the store is filled like a catalogue (`ImplementsCatalogue`); `RowsAreNotified`, `RowsAreOneAnswer` of the history; `StationIsTheOneClicked` of the page on top |
| `home_pager` | 3 `onStart`s, answers of up to 3 categories; 43 k states | Are the tabs the pages when all has come to rest (`TabsAreThePages`), and is the selected tab the one of the page shown (`SelectedIsShown`)? |
| `sm4` | 2 keys, messages of 1, 2 and 3 blocks, both modes, longs of 32 and 64 bits; 5 k states | Does the program compute the test vector in its own comment (`MatchesTestVector`), does decryption walk back through encryption's rounds (`Unwinds`), are the two ends a channel (`ImplementsChannel`), and what is in the 32 bytes that `sm4Dec` returns (`ReturnsMessage`)? |
| `native_lib` | a curve of 13 points, bytes of 4 values, blocks of 3; 179 k states | `SignatureVerifies`, `DecodesEncoded`, `DecryptsOwn` |
| `countdown_blocks_sms` | as above | violated: see section 6 |
| `attempt_has_fields` | as above | violated: see section 6 |

**Bounds.** Slots (`LoginIds`, `FetchIds`, `InfoIds`, `MeIds`, `TimerIds`) bound
what is in flight *together*; a slot is used again, so the number of requests
over time is not bounded. An overlap of two commits, or an answer for an account
that has left arriving during the next one's, takes two threads and two
accounts: `seed_store` has both. Two serials let one account hold two different
pairs, which is what `CodeUpToDate` has to tell apart; one account suffices
there, because what can be wrong is a code of *another pair*, and a departed
account's code is told by the token. `AccountConverges` needs an answer of one
account to come late in the session of another: the handler and one call do it. The
race of two login requests of one screen is `login_screen`'s, whose session is the same;
`account` has one request, and the proof of `UserIsLoggedIn` any number.
The proofs of section 5 remove the bounds for all safety properties but not for
the liveness properties. A full slot disables the action that would start
another call; `MaxUpdates` disables a message, in the model only.

Edits, fetchers, `onResume`s and payments are each used once in a process (edits and
fetches once altogether), so these bounds are on what happens over time as well.
`profile_update` has what its hazards take: an edit overlapped by another and by a
fetch, answers in the other order, an edit after a restart that finds nothing
cached, an item emptied and filled again. `order_remedy` has a line that a fetcher makes at its first station and finds at
its second, and one without stations; a second fetch after a first (every station twice,
under a page that was drawn before) and one that overlaps it; and two callbacks that
clash with each other and with the fetchers, all beneath a page and its payment.
`home_pager` has a second answer that overlaps the first one's runnable at every point of
its loop, longer or shorter than the first, and a third that comes to a page that has
been at rest, been left and been shown again. The curve of
`native_lib` is y^2 = x^3 + 6x + 8 modulo 17: small enough for every nonce, with keys
and digests that make each of the loop's rejections happen and numbers that need fewer
bytes than `Width`. Symmetry is used where only safety is checked and the elements are
interchangeable: the edits of `profile_update`, the fetchers of `order_remedy`, the
`onStart`s of `home_pager`.

**Deadlock** is checked in every run but `sm4`, whose computation ends; the app
can always be killed or started.

## 4. Fairness

* A thread that runs goes on to its end, and OkHttp answers or times out every
  call: weak fairness of each fetch, call, handler and countdown. The choice
  between an answer and a failure is free; properties that need answers say so
  in their premise (`[]<>(Storing # {})`: stores keep happening).
* `CrashOnNullContext` is weakly fair: a thread with a null context throws.
* `HandleUpdate` is strongly fair. It is disabled whenever the UI thread is busy
  with a code, but the queue of a `Looper` is first in, first out, so a posted
  message is dispatched however busy the user keeps the thread.
* `SeedStored` is strongly fair only to make up for `MaxUpdates`, which the code
  does not have.
* The user and the system that kills processes owe nothing.
* ProfileUpdate, StationStore and what is built on it, HomePager, Sm4 and NativeLib state no
  fairness and claim no liveness: the code retries nothing there, so that nothing
  need ever arrive.

## 5. What is proved

Every theorem is for all sets of accounts, requests, threads, serials and calls.
The assumptions are on constants only: `SessionAssumption` (no token is not an
account), `TicketAssumption` (the queue's bound is positive), `AccountAssumption`
(names of threads, accounts and "nobody" differ), `CountAssumption`,
`ProfileAssumption` (null is neither a value nor the empty text, an avatar is not typed), `StationAssumption` (there are stations, each on
a line), `HistoryAssumption` (finitely many `onResume`s), `Sm4Assumption` (a long has
at least 32 bits, a block four words), `HomeAssumption` (an answer may have a category,
and a new fragment's list is no request's answer), `NativeAssumption` (the order of the group is a
prime other than 2 that fits the width of a number, a block of AES has 1 to 255 bytes).
Every invariant that a passing run checks is proved, but for `MatchesTestVector`, which
is about two given values.

* `SessionProofs`: `ClosesLoggedIn` is not inductive. `TokenOutlives` says more: a token that
  an answer of the login screen has stored is there as long as that answer is being
  handled. It is inductive with the types and `OnlyLoginScreenOwns`, because no logout is
  possible while the login screen is in front, and no other answer, with a token or
  without, clears the preference.
* `TicketCodeProofs`, first part: SeedStore implements Session
  (`SeedStoreImplementsSession`), so the session's invariant is inherited. `PairMatches`
  is not inductive, since it says nothing of a store under way; `IInv` adds
  `Undisturbed` (without overlaps at most one thread is between its commits, and the
  stored key is its answer's) and `AnswersBelong` (a thread holds a pair of the account
  it asked for), from which `StoredWasAskedFor` follows step by step: a thread stores
  only what its own account's token asked for, however late. (This property and the
  session's `OnlyLoginScreenOwns` are proved and in no run; the proofs cover them for
  every instance.)
* `TicketCodeProofs`, second part: TicketCode implements SeedStore
  (`TicketCodeImplementsSeedStore`), so both invariants above are inherited.
  `LoggedOutShowsDefault` needs the life of the tab: `FreshTab`, `HostsHaveTab`,
  `UpdatesHaveTab` and `GenLoggedIn`. `CodeUpToDate` is proved by carrying it to
  all screens and into a code being made (`UpToDate`).
* `AccountProofs`: Account implements Session. `UserIsLoggedIn` needs `Identity`,
  which says what is true while a login handler is at work (it has not named its
  user yet, or has cached it and will commit its phone), and `NamesAtZero` (only an
  answer of code 0 names a user). The
  pages need `DetachedPage` and `ProfileLoggedIn`.
* `ScreenProofs`, first part: `RequestHasCode` from `ButtonKnowsCode`, the types for any
  number of seconds.
* `ScreenProofs`, second part: the home page. Its properties speak of a page at rest and
  are not inductive. `HomeInv` says what is true on the way there: once every list that
  was assigned has a runnable that is run or was (`Settled`), the tabs there are are the
  first of the list, and all of it when the runnable is through (`TabsFollow`), because
  the runnable that comes last begins with no tabs and reads the list of the callback
  that came last, whichever posted it; what the pager was not notified of, a message that
  waits will tell it (`NotifiedInTime`). An answer that replaces the list in the middle
  of a loop spoils the tabs, but its own runnable, still to come, makes them anew. For
  the selection, the first tab sends the pager to its first page if a listener is there,
  and where none is the pager was never anywhere else (`FirstWithoutListener`); so the
  tab that is selected is the page from then on (`TabIsPage`), whatever is chosen.
* `ProfileUpdateProofs`: the three properties of ProfileUpdate. `AcknowledgedEditStands`
  needs to know that of the calls under way one at most is alone (`Single`,
  `Overlaps`), that the form of such a call agrees with what was promised
  (`FormAgrees`), and so does its answer when it has one (`AnswerAgrees`);
  `EditIsShown` that a message under way is for a value still cached
  (`MessageAgrees`). `EditKeepsToItsItem` needs to know what is cached when the app is not
  behind the server (`CopyInv`): of every item the server's own text, or nothing.
* `Sm4Proofs`: the refinement `ImplementsChannel` and `ReturnsMessage`, for every key, iv,
  message and width from 32 on. Both ends compute the same schedule (`SameKeys`), the
  swap turns it around (`SwappedKeys`), and a round undoes the one it mirrors
  (`RoundBack`) because `sm4F` depends, in its low 32 bits, on nothing but the low
  bits of its arguments (`LtLow`): that is why the bits above the 31st do no harm.
  `Blocks` carries this from block to block, with CBC's ivs; `Fits` says that sm4Dec has
  written at most what its array has room for as long as it has not overrun it. That sm4F is *SM4's*
  function is not proved but checked, against the test vector.
* `OrderRemedyProofs`: the station store, the history and the remedy in one module.
  `LinesAreComplete` and `PositionsStay` follow from `StationInv`: a fetcher that works
  alone finds a line as it left it between its steps (`Undisturbed`), every station it
  has passed is in its line (`Stored`), none is in another's (`OnLine`), and whoever has
  found stations has a fetcher to thank that is at work or through (`Answered`). `Keeps`
  says of a step that a line's stations stay where they are; it holds of every step of
  both composed specifications (`StationStep`, `JourneyMove`), so
  `StationIsTheOneClicked` needs only that what was drawn, asked about and sent is at
  its position (`AtItsPosition`). `ContextIsThere` is inductive with the types: a tab
  that starts fetchers is on a `MainActivity` that has set the context. `StoreIsCatalogue` is the refinement of LineCatalogue:
  a write of a fetcher is the abstract `Store`, the start of a second pass `Spoil`, the
  end of the process `Restart`, and everything else stutters (`CatalogueStep`). It needs
  one more invariant, `NewListsEmpty`: a list that the map does not hold has nothing in
  it, so that a line shows no change when it is put. `RowsAreOneAnswer` needs to know
  where the one callback at work is, and that the list is that of the callback which
  cleared it last (`OneAnswer`); `RowsAreNotified` holds of clashing
  callbacks too. The types need more than types: that the list has at most a row per
  load is `Counted`, which bounds it by the callbacks that have added theirs (`Past`),
  whoever clears it in between; that a payment names a station is `SentIsStation`.
  `RemedyImplementsHistory`: the remedy does nothing to the lists and the history that
  JourneyHistory does not describe, not even when it ends the process; so all that was
  proved of them holds beneath it (`HistoryBeneathRemedy`).
* `NativeLibProofs`: the four properties of NativeLib.
  * *The signature.* `RoundVerifies` is the algebra of SM2 in congruences modulo the
    order (`Cong`, with its transitivity, sums and products): with `s = (1+d)^-1 (k - rd)`,
    `s + (r+s)d` is `k` again, and what the verification computes is `r`. It needs the
    inverse that sm2_do_sign asks for to exist (`InverseExists`, which is where the order
    has to be a prime), and that the sum `r + s` is not zero, which the loop does not
    test: it follows from `r + k # 0`, which it does.
  * *The code.* `NumberOfBytes`: the bytes of a number stand for that number, if it is
    below the order. `CutInTheMiddle`: two numbers of equal length written one behind the
    other are the halves of the code.
  * *AES and hex.* `AesInverse` (the last byte of the last block says how much of it is
    padding, a whole block included) and `HexInverse` (the two halves of a byte).
  * *The key files.* `DecryptsOwn` needs `FilesAgree` (once the path is set, the files
    agree except between the two writes of genSM2KeyPairs) and `Encrypted` (what sm2Enc
    gave is with the key that is in the file still).
  * *Induction.* The library's induction theorems take an operator as a parameter and
    cannot be cited. `SetInduction` states induction as a fact about *sets* of numbers,
    from `Less` being well-founded (`LeastElement`); with it the values of the recursive
    functions `Weight` and `NumberOf` and the existence of the inverse are proved.

**Model-checked only:** the liveness properties `PairConverges`,
`FetchedCodeIsShown`, `AccountConverges` and `SmsButtonComesBack`, which rest on
fairness, out of reach of the prover; and `MatchesTestVector`, a computation with the
tables of SM4 on given values. What is proved of the signature is proved of the model's
group: that the points of the curve form one of prime order, and that XOf is the curve's,
is assumed.

## 6. What the work has turned up

Two disagreements of the code with its own text, each shown by a run:

* The SMS button reads "s后重新获取" (again after so many seconds) while a
  countdown runs, but every edit of the phone field enables it
  (`LoginActivity` 126), so a second countdown can start and the two then write
  one label in turn.
* `attemptLogin` promises in its comment to make no attempt with missing fields,
  but lets an empty code pass (`LoginActivity` 322); its task then finishes the
  screen with nobody logged in.

Races that the properties have to step around, each named in the property's
comment instead of being assumed away:

* *Overlapping stores, or a crash between the commits*, leave the key of one
  pair with the seed of another until a store runs undisturbed (`torn`).
* *Late answers for an account that has left* replace the pair, the user, the
  phone and what the page shows (`mixed`; the two `Converges` properties say
  what still holds).
* *The lazy fill of the cache against a login handler:* `getSelfUser` assigns a
  blank user over the handler's, or sets the phone stored before on the handler's
  own object, which the handler then commits.
* *A crash between the token's commit and the phone's:* the app starts as logged
  in under one account with the phone of another.
* *`QrSeedFetcher` tells nobody:* a ticket tab in view keeps a code of the pair
  before (`unseen`).
* *Overlapping edits of the profile:* the second sends the first one's item as it was
  cached before, and undoes it on the server; answers in the other order leave the
  older profile cached (`promised` is given up then). An edit made with a cache that is
  behind the server undoes what it does not know of (`behind`).
* *An item that was emptied* is empty on the server, since an empty text is not null
  (`InputActivity` 44, `ApiFactory` 459); its view is empty too until the screen is
  opened again, and then shows the text of the layout.
* *The token of a login answer and its code are looked at separately* (`AppStore` 73-77,
  `LoginActivity` 251). A code 0 without a token finishes the screen with nobody logged
  in, and names a user all the same; a token with another code logs an account in whose
  user and phone are those of the account before, until its profile is fetched
  (`mixed`).
* *Two station fetchers at a time* (`MainActivity` and the history tab each start one)
  replace each other's line in the map or write over each other's stations (`mixed`);
  one after the other they leave every station twice.
* *Two callbacks of the history tab at a time* leave two answers, or half of one, in
  the list (`clash`). The view draws a list whose size it was not told until the
  message comes, and Android ends the process for that.
* *A row of the history that cannot be converted is null:* an order's whose stations were
  looked up before they came, a date that does not parse; the exception is caught and
  the row added without a value (`FragmentJourneyHistory` 117-120, 166-169). Drawing it
  ends the process.
* *The payment of a remedied order is reported as done* ("支付成功",
  `res/layout/layout_add_out_station_success.xml`) whatever the answer's status was:
  `FragmentStationList` 132 never looks at it. An answer that comes when the page is
  closed, and a page that was opened from a journey's row, which has no order, end the
  process (`ReportNowhere`, `ConfirmNothing`).
* *`MainActivity` restored without `SplashActivity`* starts a fetcher before it sets
  the context the fetcher needs; no later fetcher can be without it (`ContextIsThere`).
* *The tab selected and the page shown part at `onStart`:* setting the adapter again puts
  the pager back to its first page and tells the tabs nothing; they meet again when the
  next answer makes the tabs anew, not if it fails (`fresh`). Until then a click on the
  tab of the category one wants does nothing if that tab is the one selected.
* *Two answers to the home page at nearly the same time* may end the process: the
  listener of the tabs sends the pager to a page before the message that notifies it of
  its list is handled, and the list may get shorter between the loop's test and its `get`
  (`HomeDies`).
* *A page of headlines keeps the category it was made for:* `fragmentsUpdateFlag` is read
  and never filled (`Fragment1` 489, 532), so an answer with other categories changes the
  tabs and not the pages that were made before.
* *A signature's numbers are written without leading zeros,* one behind the other
  (`native-lib.cpp` 478): about one in 128 codes has a signature that cannot be cut in
  the middle. `SignatureVerifies` claims the cut only for full lengths.
* *`sm4Dec` always returns 32 bytes,* of a message of one block with 16 zeroes behind it,
  and writes a third block behind its array (`native-lib.cpp` 268). `ReturnsMessage` says
  what is returned if it returns.
* *A failed write of a key file is not noticed:* the two files may hold halves of
  different pairs (`writeFailed`).

## 7. What is not modelled

* The bytes of the code: CryptUtils, Base64 and the QR image are a function of
  the pair and the time; two codes of one pair count as one.
* Android restoring a screen above `MainActivity` without `SplashActivity`; the
  session's modules start the app from its launcher (StationStore has the restored
  `MainActivity`).
* Dates, amounts, the status of a journey and the grouping of rows by day; colours
  and names of lines; the photo an avatar edit shows before it is uploaded; views
  beyond the ones named.
* The move of an `ArrayList` to a larger array, and memory that one thread has
  written and another sees late: threads interleave, and a `HashMap`'s `get` and
  `put` are one step each.
* Of the home page, the banner, the list of offers and the lists behind the pages (answers
  that fill views); the messages (lists that are read only, and two counts), the guide's pages, the top-up form, and the JAX-RS
  helpers, which parse annotations and keep no state.
* Of the native code, `sha1`, `sm3` and `b64_op`, which are single calls of OpenSSL,
  and `sm2Verify`, which the app does not call.
* `cpp/crypto` and `cpp/include`, OpenSSL and GmSSL, but for the signing loop and the
  verification of `crypto/sm2/sm2_sign.c`. Nearly all lines of the repository are
  there; they are third-party code, which the app uses through a dozen calls, so that
  the modules cover a small share of the repository and most of the app's own logic.
* `AppEngine.login`, which nothing calls; the contacts loader of
  `LoginActivity`, which nothing starts.
* A server that grants a token for no account, or an empty one, or answers with another
  account's user.
* Messages for SM4 whose length is not a multiple of 16: `sm4_crypt_ecb` reads behind
  their end.
* The components marked `not_modelled` in `PROJECT.json`.

## 8. Plan

The modules of section 2 are done, and every safety property that a run checks is proved,
`MatchesTestVector` apart. What is left, in this order:

1. **TicketCode with Account** under one Session: the invariants are those of the parts;
   the new question is what a user who logs out and in again sees on the two tabs while
   answers to calls of the account before arrive.
2. **MessageBox** - counts written by a callback and read by a handler; the hazard of
   `MessageActivity`. The pages of the home page with their own lists.
3. **Navigation** - `BottomBar.switchFragment`, the guide, and the flag of the double
   click against its timers.
4. **MetadataMap, URITemplate** and the status conversion of `JourneyHistoryItem` - pure
   operators against reference definitions over bounded inputs.
