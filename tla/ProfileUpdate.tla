--------------------------- MODULE ProfileUpdate ---------------------------
(***************************************************************************)
(* Editing one's profile (ui/activity/UserInfoActivity.java): an edit      *)
(* sends a copy of the user AppStore has cached with one item changed, and *)
(* the answer, which is the server's whole profile, becomes the cached     *)
(* user.  Edits overlap each other and SelfUserInfoFetcher, their answers  *)
(* arrive in any order, late or never, the screen is closed and opened     *)
(* again meanwhile, and the process may end.                               *)
(*                                                                         *)
(* One account is logged in throughout; whose user is cached is the matter *)
(* of Account.  The photo an avatar edit shows before it is uploaded is    *)
(* left out: it is the view's background, under the avatar.                *)
(***************************************************************************)
CONSTANTS
  Items,     \* AVATAR, GENDER, NAME, EMAIL
  AVATAR,    \* the item that is uploaded first
  Typed,     \* NAME, EMAIL: the items InputActivity lets one type, or empty
  Values,    \* what an item can be set to
  Empty,     \* the empty text, which is not null
  Unset,     \* null: an item nobody has set, or not known to the app yet
  Edits,     \* edits made, each once
  Fetches    \* runs of SelfUserInfoFetcher

ASSUME ProfileAssumption ==
  /\ AVATAR \in Items /\ Typed \subseteq Items \ {AVATAR}
  /\ Empty \notin Values /\ Unset \notin Values \cup {Empty} /\ Edits \cap Fetches = {}

Calls == Edits \cup Fetches
Texts == Values \cup {Empty}
Profile == [Items -> Texts \cup {Unset}]
Blank == [it \in Items |-> Unset]

VARIABLES
  server,    \* the operator's profile of the account
  selfUser,  \* AppStore.selfUser
  call,      \* the edits and fetches
  open,      \* whether a UserInfoActivity is on display
  shown,     \* what its views say; Unset: the text of the layout
  promised,  \* history: for each item the value of the last edit that was
             \* acknowledged, Unset when another call may have interfered
  missed,    \* history: items that had no cached value when the screen was
             \* opened, or whose redraw went to a closed screen
  behind     \* history: the server has dealt with a change that the app may not
             \* have cached: no answer to a call that was alone followed it

vars == <<server, selfUser, call, open, shown, promised, missed, behind>>

CallState == [
  pc : {"none",       \* not made
        "uploading",  \* the avatar goes to the image store
        "sent",       \* the request is under way
        "given up",   \* so it is, but its callback has had a failure
        "applied",    \* the server has dealt with it
        "message",    \* the callback has sent the message for the item
        "done"},
  item : Items \cup {Unset}, value : Texts \cup {Unset},
  form : Profile,         \* the fields of the request; Unset: left out
  answer : Profile,       \* the user in the answer
  alone : BOOLEAN,        \* no other call was under way along with it
  mine : BOOLEAN]         \* made from the screen now on display

NoCall ==
  [pc |-> "none", item |-> Unset, value |-> Unset, form |-> Blank,
   answer |-> Blank, alone |-> FALSE, mine |-> FALSE]

UnderWay == {c \in Calls : call[c].pc \in {"sent", "given up", "applied"}}

Init ==
  /\ server \in Profile
  /\ selfUser = Blank
  /\ call = [c \in Calls |-> NoCall]
  /\ open = FALSE /\ shown = Blank
  /\ promised = Blank /\ missed = {} /\ behind = FALSE
-----------------------------------------------------------------------------
(* The screen *)

\* Faulty variant of OpenScreen: the views are not filled.
OpenScreenEmpty ==
  /\ ~open
  /\ open' = TRUE
  /\ missed' = {it \in Items : selfUser[it] = Unset}
  /\ UNCHANGED <<server, selfUser, call, shown, promised, behind>>

\* onCreate: items that are blank keep the layout's text.
OpenScreen ==
  /\ ~open
  /\ open' = TRUE
  /\ shown' = [it \in Items |-> IF selfUser[it] = Empty THEN Unset ELSE selfUser[it]]
  /\ missed' = {it \in Items : selfUser[it] = Unset}
  /\ UNCHANGED <<server, selfUser, call, promised, behind>>

\* The handler of a closed screen goes on redrawing that screen's views.
CloseScreen ==
  /\ open
  /\ open' = FALSE
  /\ call' = [c \in Calls |-> [call[c] EXCEPT !.mine = FALSE]]
  /\ UNCHANGED <<server, selfUser, shown, promised, missed, behind>>

\* A photo was picked; getQiniuToken and UploadManager.put follow.
PickAvatar(c, v) ==
  /\ open /\ call[c].pc = "none"
  /\ call' = [call EXCEPT ![c] = [NoCall EXCEPT !.pc = "uploading", !.item = AVATAR,
                                                 !.value = v, !.mine = TRUE]]
  /\ UNCHANGED <<server, selfUser, open, shown, promised, missed, behind>>

\* No token, or the upload failed: only the log says so.
UploadFails(c) ==
  /\ call[c].pc = "uploading"
  /\ call' = [call EXCEPT ![c].pc = "done"]
  /\ UNCHANGED <<server, selfUser, open, shown, promised, missed, behind>>
-----------------------------------------------------------------------------
(* Requests *)

\* The request c is sent; it is alone unless another is under way, which then
\* is not alone either.  What was promised of its item is open again.
Begin(c, state, it) ==
  LET alone == UnderWay = {}
  IN  /\ call' = [d \in Calls |->
                    IF d = c THEN [state EXCEPT !.pc = "sent", !.alone = alone]
                    ELSE IF d \in UnderWay THEN [call[d] EXCEPT !.alone = FALSE]
                    ELSE call[d]]
      /\ promised' = IF alone THEN [promised EXCEPT ![it] = Unset] ELSE Blank

\* Faulty variant of Form: the copy is made of what the views say.
FormOfViews(it, v) == [shown EXCEPT ![it] = v]

\* The copy of the cached user with one item changed.  handleForm leaves out
\* the items that are null, and no others.
Form(it, v) == [selfUser EXCEPT ![it] = v]

\* updateSelfUser
UpdateSelfUser(c, it, v, mine) ==
  /\ Begin(c, [NoCall EXCEPT !.item = it, !.value = v, !.form = Form(it, v),
                             !.mine = mine], it)
  /\ UNCHANGED <<server, selfUser, open, shown, missed, behind>>

\* The gender was chosen, or InputActivity has returned a name or an address,
\* with whatever its field held: nothing, for all it asks.
Edit(c, it, v) ==
  /\ open /\ it # AVATAR /\ call[c].pc = "none"
  /\ v = Empty => it \in Typed
  /\ UpdateSelfUser(c, it, v, TRUE)

UploadDone(c) ==
  /\ call[c].pc = "uploading"
  /\ UpdateSelfUser(c, AVATAR, call[c].value, call[c].mine)

\* SelfUserInfoFetcher.run; a request without fields is applied by its answer.
Fetch(f) ==
  /\ call[f].pc = "none"
  /\ LET alone == UnderWay = {}
     IN  /\ call' = [d \in Calls |->
                       IF d = f THEN [NoCall EXCEPT !.pc = "sent", !.alone = alone]
                       ELSE IF d \in UnderWay THEN [call[d] EXCEPT !.alone = FALSE]
                       ELSE call[d]]
         /\ promised' = IF alone THEN promised ELSE Blank
  /\ UNCHANGED <<server, selfUser, open, shown, missed, behind>>

\* Faulty variant of Merge: the form has every item, set or not.
MergeAll(profile, form) == form

\* The server changes the fields a form has, to an empty text too, and leaves the
\* others.
Merge(profile, form) ==
  [it \in Items |-> IF form[it] = Unset THEN profile[it] ELSE form[it]]

Apply(c) ==
  /\ call[c].pc \in {"sent", "given up"}
  /\ server' = Merge(server, call[c].form)
  /\ call' = [call EXCEPT ![c].pc = IF call[c].pc = "sent" THEN "applied" ELSE "done",
                          ![c].answer = server']
  /\ behind' = (behind \/ server' # server)
  /\ UNCHANGED <<selfUser, open, shown, promised, missed>>

\* The answer is not successful, or is one that cannot be read.  An edit sends
\* its message all the same.
Refused(c) ==
  /\ call[c].pc \in {"sent", "applied"}
  /\ call' = [call EXCEPT ![c].pc = IF c \in Edits THEN "message" ELSE "done"]
  /\ UNCHANGED <<server, selfUser, open, shown, promised, missed, behind>>

\* Faulty variant of GiveUp: a call that has failed stays as it is.
GiveUpForGood(c) ==
  /\ call[c].pc \in {"sent", "applied"}
  /\ call' = [call EXCEPT ![c].pc = "failed"]
  /\ UNCHANGED <<server, selfUser, open, shown, promised, missed, behind>>

\* onFailure writes to the log: the request, or its answer, was lost or late.
\* The server may get a request yet that was given up.
GiveUp(c) ==
  /\ call[c].pc \in {"sent", "applied"}
  /\ call' = [call EXCEPT ![c].pc = IF call[c].pc = "sent" THEN "given up" ELSE "done"]
  /\ UNCHANGED <<server, selfUser, open, shown, promised, missed, behind>>

Lost(c) ==
  /\ call[c].pc = "given up"
  /\ call' = [call EXCEPT ![c].pc = "done"]
  /\ UNCHANGED <<server, selfUser, open, shown, promised, missed, behind>>

\* onResponse: the answer's user is cached, and an edit sends its message.
Answer(c) ==
  /\ call[c].pc = "applied"
  /\ selfUser' = call[c].answer
  /\ call' = [call EXCEPT ![c].pc = IF c \in Edits THEN "message" ELSE "done"]
  /\ promised' = IF c \in Edits /\ call[c].alone
                   THEN [promised EXCEPT ![call[c].item] = call[c].value]
                   ELSE promised
  /\ behind' = (behind /\ ~call[c].alone)
  /\ UNCHANGED <<server, open, shown, missed>>

\* viewUpdateHandler shows the item as it is cached now.
HandleMessage(c) ==
  /\ call[c].pc = "message"
  /\ call' = [call EXCEPT ![c].pc = "done"]
  /\ LET it == call[c].item
     IN  IF call[c].mine
           THEN shown' = [shown EXCEPT ![it] = selfUser[it]] /\ missed' = missed \ {it}
           ELSE missed' = missed \cup {it} /\ UNCHANGED shown
  /\ UNCHANGED <<server, selfUser, open, promised, behind>>

\* The process ends, and getSelfUser of the next one starts from a blank user.
\* What is under way reaches the server or does not.
ProcessDies ==
  /\ selfUser' = Blank /\ open' = FALSE
  /\ call' = [c \in Calls |->
                [call[c] EXCEPT !.mine = FALSE,
                   !.pc = CASE @ = "none" -> "none"
                            [] @ \in {"sent", "given up"} -> "given up"
                            [] OTHER -> "done"]]
  /\ behind' = (behind /\ UnderWay # {})
  /\ UNCHANGED <<server, shown, promised, missed>>

Next ==
  \/ OpenScreen \/ CloseScreen \/ ProcessDies
  \/ \E c \in Edits, v \in Values : PickAvatar(c, v)
  \/ \E c \in Edits, it \in Items, v \in Texts : Edit(c, it, v)
  \/ \E c \in Edits : UploadFails(c) \/ UploadDone(c) \/ HandleMessage(c)
  \/ \E f \in Fetches : Fetch(f)
  \/ \E c \in Calls : Apply(c) \/ Refused(c) \/ GiveUp(c) \/ Lost(c) \/ Answer(c)

Spec == Init /\ [][Next]_vars
-----------------------------------------------------------------------------
ProfileTypeOK ==
  /\ server \in Profile /\ selfUser \in Profile /\ shown \in Profile
  /\ promised \in Profile
  /\ call \in [Calls -> CallState]
  /\ open \in BOOLEAN /\ missed \subseteq Items /\ behind \in BOOLEAN

\* An edit that was acknowledged and overlapped no other call stands: the server
\* keeps its value through the edits of other items that follow, whatever the
\* app had cached when it sent them, after a restart too; and the app has cached
\* that value, or nothing (UserInfoActivity.updateSelfUser, handleForm).
AcknowledgedEditStands ==
  \A it \in Items :
    promised[it] # Unset =>
      /\ server[it] = promised[it]
      /\ selfUser[it] \in {promised[it], Unset}

\* A view shows v; an item emptied before the screen was opened has the text of
\* the layout.
Shows(it, v) == shown[it] = v \/ (v = Empty /\ shown[it] = Unset)

\* A screen on display shows the value of such an edit as soon as the edit's
\* message is handled, unless that message went to a screen closed meanwhile or
\* the app did not know the value yet when it opened the screen.
EditIsShown ==
  \A it \in Items :
    /\ open /\ promised[it] # Unset /\ it \notin missed
    /\ ~ \E c \in Edits : call[c].item = it /\ call[c].pc = "message"
    => Shows(it, promised[it])

\* An edit changes nothing on the server but its own item, although its form has
\* the whole copy of the cached user: with an empty or a fresh cache, after a
\* restart, after an upload that outlived its screen.  What it takes to undo
\* another edit, or to empty an item again that was filled since, is a copy
\* that is behind the server or a call that another overlaps (updateSelfUser,
\* handleForm).
EditKeepsToItsItem ==
  [][~behind /\ (\A c \in UnderWay : call[c].alone)
       => \A it \in Items :
            server'[it] # server[it] => \E c \in UnderWay : call[c].item = it]_vars
=============================================================================
