------------------------- MODULE ProfileUpdateProofs -------------------------
(***************************************************************************)
(* What holds of edits of a profile (ProfileUpdate) for every set of items *)
(* and values and any number of edits and fetches.                         *)
(*                                                                         *)
(* That an acknowledged edit stands cannot be told from what is promised   *)
(* alone: a call under way may overwrite it.  One that is not alone leaves *)
(* nothing promised (Overlaps); one that is alone is the only one (Single) *)
(* and its form and its answer agree with what is promised (FormAgrees,    *)
(* AnswerAgrees).  That an edit keeps to its item rests on the copy being  *)
(* of the server's profile whenever it is not behind it (CopyInv), for the *)
(* cached user and for whatever is under way.                              *)
(***************************************************************************)
EXTENDS ProfileUpdate, TLAPS

\* An edit that was made has an item and a value, and a fetch no form.
Kinds ==
  /\ \A c \in Edits : call[c].pc # "none" => call[c].item \in Items /\ call[c].value \in Texts
  /\ \A c \in Fetches : call[c].pc \notin {"uploading", "message"} /\ call[c].form = Blank

Single ==
  \A c \in UnderWay : call[c].alone => UnderWay = {c}

Overlaps ==
  \A c \in UnderWay : ~call[c].alone => promised = Blank

FormAgrees ==
  \A c \in UnderWay :
    /\ c \in Edits => /\ call[c].form[call[c].item] = call[c].value
                      /\ promised[call[c].item] = Unset
    /\ \A it \in Items : promised[it] # Unset => call[c].form[it] \in {promised[it], Unset}

AnswerAgrees ==
  \A c \in Calls : call[c].pc = "applied" /\ call[c].alone =>
    /\ call[c].answer = server
    /\ c \in Edits => server[call[c].item] = call[c].value

\* An edit whose message is on its way is cached, as far as it was promised.
MessageAgrees ==
  \A c \in Edits :
    LET it == call[c].item
    IN  call[c].pc = "message" /\ promised[it] # Unset => selfUser[it] = promised[it]

ProfileInv ==
  /\ ProfileTypeOK /\ Kinds /\ Single /\ Overlaps /\ FormAgrees /\ AnswerAgrees
  /\ AcknowledgedEditStands /\ MessageAgrees /\ EditIsShown
-----------------------------------------------------------------------------
(* Types *)

LEMMA BlankType == Blank \in Profile /\ NoCall \in CallState
BY DEF Blank, Profile, NoCall, CallState

LEMMA FormType ==
  ASSUME ProfileTypeOK, NEW it \in Items, NEW v \in Texts \cup {Unset}
  PROVE  Form(it, v) \in Profile
BY DEF ProfileTypeOK, Form, Profile

LEMMA MergeType ==
  ASSUME NEW p \in Profile, NEW f \in Profile
  PROVE  Merge(p, f) \in Profile
BY DEF Merge, Profile

\* A call that changes its pc and its answer keeps its type.
LEMMA CallType ==
  ASSUME NEW s \in CallState, NEW q, NEW a \in Profile, NEW m \in BOOLEAN, NEW n \in BOOLEAN,
         q \in {"none", "uploading", "sent", "given up", "applied", "message", "done"}
  PROVE  /\ [s EXCEPT !.pc = q] \in CallState
         /\ [s EXCEPT !.pc = q, !.answer = a] \in CallState
         /\ [s EXCEPT !.mine = m] \in CallState
         /\ [s EXCEPT !.alone = m] \in CallState
         /\ [s EXCEPT !.pc = q, !.alone = m] \in CallState
         /\ [s EXCEPT !.mine = m, !.pc = q] \in CallState
BY DEF CallState

LEMMA BeginType ==
  ASSUME ProfileTypeOK, NEW c \in Calls, NEW s \in CallState, NEW it \in Items, Begin(c, s, it)
  PROVE  call' \in [Calls -> CallState] /\ promised' \in Profile
<1>1. \A d \in Calls : call'[d] \in CallState
  BY CallType DEF Begin, ProfileTypeOK
<1> QED
  BY <1>1, BlankType DEF Begin, ProfileTypeOK, Profile

LEMMA UpdateType ==
  ASSUME ProfileTypeOK, NEW c \in Calls, NEW it \in Items, NEW v \in Texts \cup {Unset},
         NEW m \in BOOLEAN, UpdateSelfUser(c, it, v, m)
  PROVE  ProfileTypeOK'
<1> DEFINE s == [NoCall EXCEPT !.item = it, !.value = v, !.form = Form(it, v), !.mine = m]
<1>1. s \in CallState
  BY BlankType, FormType DEF CallState
<1>2. Begin(c, s, it)
  BY DEF UpdateSelfUser
<1>3. call' \in [Calls -> CallState] /\ promised' \in Profile
  BY <1>1, <1>2, BeginType
<1> QED
  BY <1>3 DEF UpdateSelfUser, ProfileTypeOK

LEMMA TypeStep == ProfileTypeOK /\ Kinds /\ [Next]_vars => ProfileTypeOK'
<1> SUFFICES ASSUME ProfileTypeOK, Kinds, [Next]_vars
             PROVE  ProfileTypeOK'
  OBVIOUS
<1>1. CASE OpenScreen
  <2>1. shown' \in Profile
    BY <1>1 DEF OpenScreen, ProfileTypeOK, Profile
  <2> QED
    BY <1>1, <2>1 DEF OpenScreen, ProfileTypeOK
<1>2. CASE CloseScreen
  <2>1. \A d \in Calls : call'[d] \in CallState
    BY <1>2, CallType DEF CloseScreen, ProfileTypeOK
  <2> QED
    BY <1>2, <2>1 DEF CloseScreen, ProfileTypeOK
<1>3. CASE ProcessDies
  <2>1. ASSUME NEW d \in Calls
        PROVE  call'[d] \in CallState
    <3>1. call[d] \in CallState
      BY DEF ProfileTypeOK
    <3>2. call'[d] = [call[d] EXCEPT !.mine = FALSE,
                        !.pc = CASE call[d].pc = "none" -> "none"
                                 [] call[d].pc \in {"sent", "given up"} -> "given up"
                                 [] OTHER -> "done"]
      BY <1>3, <3>1 DEF ProcessDies, CallState
    <3>3. (CASE call[d].pc = "none" -> "none"
             [] call[d].pc \in {"sent", "given up"} -> "given up"
             [] OTHER -> "done") \in {"none", "given up", "done"}
      OBVIOUS
    <3> QED
      BY <3>1, <3>2, <3>3 DEF CallState
  <2> QED
    BY <1>3, <2>1, BlankType DEF ProcessDies, ProfileTypeOK
<1>4. ASSUME NEW c \in Edits, NEW v \in Values, PickAvatar(c, v)
      PROVE  ProfileTypeOK'
  BY <1>4, BlankType, ProfileAssumption DEF PickAvatar, ProfileTypeOK, CallState, Calls, Texts
<1>5. ASSUME NEW c \in Edits, NEW it \in Items, NEW v \in Texts, Edit(c, it, v)
      PROVE  ProfileTypeOK'
  BY <1>5, UpdateType DEF Edit, Calls
<1>6. ASSUME NEW c \in Edits, UploadDone(c)
      PROVE  ProfileTypeOK'
  <2>1. call[c].value \in Texts \cup {Unset} /\ call[c].mine \in BOOLEAN /\ c \in Calls
    BY DEF ProfileTypeOK, Calls, CallState
  <2> QED
    BY <1>6, <2>1, UpdateType, ProfileAssumption DEF UploadDone
<1>7. ASSUME NEW f \in Fetches, Fetch(f)
      PROVE  ProfileTypeOK'
  <2>1. \A d \in Calls : call'[d] \in CallState
    BY <1>7, CallType, BlankType DEF Fetch, ProfileTypeOK
  <2> QED
    BY <1>7, <2>1, BlankType DEF Fetch, ProfileTypeOK
<1>8. ASSUME NEW c \in Calls, Apply(c)
      PROVE  ProfileTypeOK'
  <2>1. call[c].form \in Profile
    BY DEF ProfileTypeOK, CallState
  <2>2. server' \in Profile
    BY <1>8, <2>1, MergeType DEF Apply, ProfileTypeOK
  <2>3. \A d \in Calls : call'[d] \in CallState
    BY <1>8, <2>2, CallType DEF Apply, ProfileTypeOK
  <2> QED
    BY <1>8, <2>2, <2>3 DEF Apply, ProfileTypeOK
<1>9. ASSUME NEW c \in Calls, UploadFails(c) \/ Refused(c) \/ GiveUp(c) \/ Lost(c)
      PROVE  ProfileTypeOK'
  <2>1. PICK q \in {"given up", "message", "done"} : call' = [call EXCEPT ![c].pc = q]
    BY <1>9 DEF UploadFails, Refused, GiveUp, Lost
  <2>2. call' \in [Calls -> CallState]
    BY <2>1, CallType DEF ProfileTypeOK
  <2> QED
    BY <1>9, <2>2 DEF UploadFails, Refused, GiveUp, Lost, ProfileTypeOK
<1>10. ASSUME NEW c \in Calls, Answer(c)
       PROVE  ProfileTypeOK'
  <2>1. PICK q \in {"message", "done"} : call' = [call EXCEPT ![c].pc = q]
    BY <1>10 DEF Answer
  <2>3. call' \in [Calls -> CallState]
    BY <2>1, CallType DEF ProfileTypeOK
  <2>4. selfUser' \in Profile
    BY <1>10 DEF Answer, ProfileTypeOK, CallState
  <2>2. promised' \in Profile
    <3>1. call[c].value \in Texts \cup {Unset}
      BY DEF ProfileTypeOK, CallState
    <3>2. CASE c \in Edits /\ call[c].alone
      BY <1>10, <3>1, <3>2 DEF Answer, ProfileTypeOK, Profile
    <3>3. CASE ~(c \in Edits /\ call[c].alone)
      BY <1>10, <3>3 DEF Answer, ProfileTypeOK
    <3> QED
      BY <3>2, <3>3
  <2> QED
    BY <1>10, <2>2, <2>3, <2>4 DEF Answer, ProfileTypeOK
<1>11. ASSUME NEW c \in Edits, HandleMessage(c)
       PROVE  ProfileTypeOK'
  <2>1. call' \in [Calls -> CallState]
    BY ZenonT(60), <1>11 DEF HandleMessage, ProfileTypeOK, CallState, Calls
  <2>2. shown' \in Profile
    BY <1>11 DEF HandleMessage, ProfileTypeOK, Profile
  <2>3. missed' \subseteq Items
    BY <1>11 DEF HandleMessage, ProfileTypeOK, Kinds
  <2> QED
    BY <1>11, <2>1, <2>2, <2>3 DEF HandleMessage, ProfileTypeOK
<1>12. CASE UNCHANGED vars
  BY <1>12 DEF vars, ProfileTypeOK
<1> QED
  BY <1>1, <1>2, <1>3, <1>4, <1>5, <1>6, <1>7, <1>8, <1>9, <1>10, <1>11, <1>12
     DEF Next, Calls
-----------------------------------------------------------------------------
(* The first state *)

LEMMA InitInv == Init => ProfileInv
<1> SUFFICES ASSUME Init
             PROVE  ProfileInv
  OBVIOUS
<1>1. ProfileTypeOK
  BY BlankType DEF Init, ProfileTypeOK, Profile
<1>2. \A c \in Calls : call[c].pc = "none" /\ call[c].form = Blank
  BY DEF Init, NoCall
<1>3. UnderWay = {}
  BY <1>2 DEF UnderWay
<1>4. \A it \in Items : promised[it] = Unset
  BY DEF Init, Blank
<1>5. Kinds
  BY <1>2 DEF Kinds, Calls
<1>6. Single /\ Overlaps /\ FormAgrees /\ AnswerAgrees
  BY <1>2, <1>3 DEF Single, Overlaps, FormAgrees, AnswerAgrees
<1>7. AcknowledgedEditStands /\ MessageAgrees /\ EditIsShown
  BY <1>2, <1>4 DEF AcknowledgedEditStands, MessageAgrees, EditIsShown, Calls, Init
<1> QED
  BY <1>1, <1>5, <1>6, <1>7 DEF ProfileInv
-----------------------------------------------------------------------------
(* Steps that begin a call *)

\* The state of an edit's call when it begins.
Begun(c, it, v, m) ==
  [NoCall EXCEPT !.item = it, !.value = v, !.form = Form(it, v), !.mine = m]

LEMMA FewerUnderWay ==
  ASSUME Single, Overlaps, FormAgrees, promised' = promised, UnderWay' \subseteq UnderWay,
         \A d \in Calls : /\ call'[d].item = call[d].item /\ call'[d].value = call[d].value
                          /\ call'[d].form = call[d].form /\ call'[d].alone = call[d].alone
  PROVE  Single' /\ Overlaps' /\ FormAgrees'
<1>1. \A d \in UnderWay' : d \in UnderWay /\ d \in Calls
  BY DEF UnderWay
<1>2. Single'
  BY <1>1 DEF Single
<1>3. Overlaps'
  BY <1>1 DEF Overlaps
<1>4. FormAgrees'
  BY <1>1 DEF FormAgrees
<1> QED
  BY <1>2, <1>3, <1>4

\* A screen that is not drawn, while no message is taken away.
LEMMA ShownStays ==
  ASSUME EditIsShown, UNCHANGED <<open, shown, missed>>,
         \A it \in Items : promised'[it] # Unset => promised'[it] = promised[it],
         \A d \in Edits : call[d].pc = "message" =>
           call'[d].pc = "message" /\ call'[d].item = call[d].item
  PROVE  EditIsShown'
<1> SUFFICES ASSUME NEW it \in Items, open, promised'[it] # Unset, it \notin missed,
                    ~ \E d \in Edits : call'[d].item = it /\ call'[d].pc = "message"
             PROVE  Shows(it, promised[it])'
  BY DEF EditIsShown
<1>1. ~ \E d \in Edits : call[d].item = it /\ call[d].pc = "message"
  OBVIOUS
<1> QED
  BY <1>1 DEF EditIsShown, Shows

LEMMA UpdateStep ==
  ASSUME ProfileInv, NEW c \in Edits, NEW it \in Items, NEW v \in Texts,
         NEW m \in BOOLEAN, UpdateSelfUser(c, it, v, m),
         call[c].pc \in {"none", "uploading"}
  PROVE  ProfileInv'
<1> USE DEF ProfileInv
<1> DEFINE alone == UnderWay = {}
<1>1. c \in Calls /\ c \notin Fetches /\ c \notin UnderWay
  BY ProfileAssumption DEF Calls, UnderWay
<1>2. ProfileTypeOK'
  BY <1>1, UpdateType
<1>3. /\ call'[c].pc = "sent" /\ call'[c].alone = alone /\ call'[c].item = it
      /\ call'[c].value = v /\ call'[c].form = Form(it, v)
  BY <1>1 DEF UpdateSelfUser, Begin, NoCall
<1>4. \A d \in Calls \ {c} :
        /\ call'[d].pc = call[d].pc /\ call'[d].item = call[d].item
        /\ call'[d].value = call[d].value /\ call'[d].form = call[d].form
        /\ call'[d].answer = call[d].answer
        /\ call'[d].alone = IF d \in UnderWay THEN FALSE ELSE call[d].alone
  BY DEF UpdateSelfUser, Begin, ProfileTypeOK, CallState
<1>5. UnderWay' = UnderWay \cup {c}
  BY <1>1, <1>3, <1>4 DEF UnderWay
<1>6. promised' = IF alone THEN [promised EXCEPT ![it] = Unset] ELSE Blank
  BY DEF UpdateSelfUser, Begin
<1>7. /\ promised'[it] = Unset
      /\ \A x \in Items : promised'[x] # Unset => promised'[x] = promised[x] /\ x # it
  BY <1>6 DEF ProfileTypeOK, Profile, Blank
<1>8. Kinds'
  BY <1>1, <1>3, <1>4 DEF Kinds, Calls
<1>9. Single'
  BY <1>1, <1>3, <1>4, <1>5 DEF Single, UnderWay
<1>10. Overlaps'
  BY <1>1, <1>3, <1>4, <1>5, <1>6 DEF Overlaps, UnderWay
<1>11. FormAgrees'
  <2>1. CASE alone
    <3>1. UnderWay' = {c}
      BY <1>5, <2>1
    <3>2. \A x \in Items : promised'[x] # Unset => Form(it, v)[x] \in {promised'[x], Unset}
      <4> SUFFICES ASSUME NEW x \in Items, promised'[x] # Unset
                   PROVE  Form(it, v)[x] \in {promised'[x], Unset}
        OBVIOUS
      <4>1. promised'[x] = promised[x] /\ x # it
        BY <1>7
      <4>2. selfUser[x] \in {promised[x], Unset}
        BY <4>1 DEF AcknowledgedEditStands
      <4>3. Form(it, v)[x] = selfUser[x]
        BY <4>1 DEF Form, ProfileTypeOK, Profile
      <4> QED
        BY <4>1, <4>2, <4>3
    <3>3. call'[c].form[call'[c].item] = call'[c].value /\ promised'[call'[c].item] = Unset
      BY <1>3, <1>7 DEF Form, ProfileTypeOK, Profile
    <3> QED
      BY <1>3, <3>1, <3>2, <3>3 DEF FormAgrees
  <2>2. CASE ~alone
    <3>1. \A x \in Items : promised'[x] = Unset
      BY <1>6, <2>2 DEF Blank
    <3>2. \A d \in UnderWay' : d \in Edits =>
            call'[d].form[call'[d].item] = call'[d].value /\ call'[d].item \in Items
      <4> SUFFICES ASSUME NEW d \in UnderWay', d \in Edits
                   PROVE  call'[d].form[call'[d].item] = call'[d].value /\ call'[d].item \in Items
        OBVIOUS
      <4>1. CASE d = c
        BY <1>3, <4>1 DEF Form, ProfileTypeOK, Profile
      <4>2. CASE d # c
        <5>1. d \in UnderWay /\ d \in Calls /\ call[d].pc # "none"
          BY <1>5, <4>2 DEF UnderWay
        <5>2. /\ call'[d].form = call[d].form /\ call'[d].item = call[d].item
              /\ call'[d].value = call[d].value
          BY <1>4, <4>2, <5>1
        <5> QED
          BY <5>1, <5>2 DEF FormAgrees, Kinds
      <4> QED
        BY <4>1, <4>2
    <3> QED
      BY <3>1, <3>2 DEF FormAgrees
  <2> QED
    BY <2>1, <2>2
<1>12. AnswerAgrees'
  BY <1>3, <1>4, <1>5 DEF AnswerAgrees, UnderWay, UpdateSelfUser
<1>13. AcknowledgedEditStands'
  BY <1>7 DEF AcknowledgedEditStands, UpdateSelfUser
<1>14. MessageAgrees'
  <2> SUFFICES ASSUME NEW d \in Edits, call'[d].pc = "message",
                      promised'[call'[d].item] # Unset
               PROVE  selfUser'[call'[d].item] = promised'[call'[d].item]
    BY DEF MessageAgrees
  <2>1. d # c /\ d \in Calls
    BY <1>3 DEF Calls
  <2>2. call[d].pc = "message" /\ call'[d].item = call[d].item /\ call[d].item \in Items
    BY <1>4, <2>1 DEF Kinds
  <2>3. promised'[call[d].item] = promised[call[d].item]
    BY <1>7, <2>2
  <2>4. selfUser' = selfUser
    BY DEF UpdateSelfUser
  <2> QED
    BY <2>2, <2>3, <2>4 DEF MessageAgrees
<1>15. EditIsShown'
  <2>1. \A d \in Edits : call'[d].pc = "message" <=> call[d].pc = "message"
    BY <1>1, <1>3, <1>4 DEF Calls
  <2>2. \A d \in Edits : call[d].pc = "message" => call'[d].item = call[d].item
    BY <1>1, <1>4 DEF Calls
  <2>3. UNCHANGED <<open, shown, missed>>
    BY DEF UpdateSelfUser
  <2> QED
    BY <1>7, <2>1, <2>2, <2>3, ShownStays
<1> QED
  BY <1>2, <1>8, <1>9, <1>10, <1>11, <1>12, <1>13, <1>14, <1>15

LEMMA FetchStep ==
  ASSUME ProfileInv, NEW c \in Fetches, Fetch(c)
  PROVE  ProfileInv'
<1> USE DEF ProfileInv
<1> DEFINE alone == UnderWay = {}
<1>1. c \in Calls /\ c \notin Edits /\ c \notin UnderWay
  BY ProfileAssumption DEF Calls, UnderWay, Fetch
<1>2. ProfileTypeOK'
  BY TypeStep DEF Next
<1>3. call'[c].pc = "sent" /\ call'[c].alone = alone /\ call'[c].form = Blank
  BY <1>1 DEF Fetch, NoCall
<1>4. \A d \in Calls \ {c} :
        /\ call'[d].pc = call[d].pc /\ call'[d].item = call[d].item
        /\ call'[d].value = call[d].value /\ call'[d].form = call[d].form
        /\ call'[d].answer = call[d].answer
        /\ call'[d].alone = IF d \in UnderWay THEN FALSE ELSE call[d].alone
  BY DEF Fetch, ProfileTypeOK, CallState
<1>5. UnderWay' = UnderWay \cup {c}
  BY <1>1, <1>3, <1>4 DEF UnderWay
<1>6. promised' = IF alone THEN promised ELSE Blank
  BY DEF Fetch
<1>7. \A x \in Items : promised'[x] # Unset => promised'[x] = promised[x]
  BY <1>6 DEF Blank
<1>8. Kinds'
  BY <1>1, <1>3, <1>4 DEF Kinds, Calls
<1>9. Single'
  BY <1>1, <1>3, <1>4, <1>5 DEF Single, UnderWay
<1>10. Overlaps'
  BY <1>1, <1>3, <1>4, <1>5, <1>6 DEF Overlaps, UnderWay
<1>11. FormAgrees'
  <2>1. \A x \in Items : call'[c].form[x] = Unset
    BY <1>3 DEF Blank
  <2>2. ASSUME NEW d \in UnderWay
        PROVE  /\ d \in Edits => /\ call'[d].form[call'[d].item] = call'[d].value
                                 /\ promised'[call'[d].item] = Unset
               /\ \A x \in Items : promised'[x] = Unset
    <3>1. d # c /\ d \in Calls /\ promised' = Blank /\ call[d].pc # "none"
      BY <1>1, <1>6 DEF UnderWay
    <3>2. /\ call'[d].form = call[d].form /\ call'[d].item = call[d].item
          /\ call'[d].value = call[d].value
      BY <1>4, <3>1
    <3>3. \A x \in Items : promised'[x] = Unset
      BY <3>1 DEF Blank
    <3> QED
      BY <3>1, <3>2, <3>3 DEF FormAgrees, Kinds
  <2> QED
    BY <1>1, <1>5, <2>1, <2>2 DEF FormAgrees
<1>12. AnswerAgrees'
  BY <1>3, <1>4, <1>5 DEF AnswerAgrees, UnderWay, Fetch
<1>13. AcknowledgedEditStands'
  BY <1>7 DEF AcknowledgedEditStands, Fetch
<1>14. MessageAgrees'
  <2> SUFFICES ASSUME NEW d \in Edits, call'[d].pc = "message",
                      promised'[call'[d].item] # Unset
               PROVE  selfUser'[call'[d].item] = promised'[call'[d].item]
    BY DEF MessageAgrees
  <2>1. call[d].pc = "message" /\ call'[d].item = call[d].item /\ call[d].item \in Items
    BY <1>1, <1>4 DEF Kinds, Calls
  <2>2. promised'[call[d].item] = promised[call[d].item]
    BY <1>7, <2>1
  <2>3. selfUser' = selfUser
    BY DEF Fetch
  <2> QED
    BY <2>1, <2>2, <2>3 DEF MessageAgrees
<1>15. EditIsShown'
  <2>1. \A d \in Edits : call'[d].pc = call[d].pc /\ call'[d].item = call[d].item
    BY <1>1, <1>4 DEF Calls
  <2>2. UNCHANGED <<open, shown, missed>>
    BY DEF Fetch
  <2> QED
    BY <1>7, <2>1, <2>2, ShownStays
<1> QED
  BY <1>2, <1>8, <1>9, <1>10, <1>11, <1>12, <1>13, <1>14, <1>15
-----------------------------------------------------------------------------
(* Steps of one call *)

\* A call that ends without an answer, or is given up.
LEMMA EndStep ==
  ASSUME ProfileInv, ProfileTypeOK', NEW c \in Calls, NEW q \in {"given up", "message", "done"},
         call' = [call EXCEPT ![c].pc = q],
         UNCHANGED <<server, selfUser, open, shown, promised, missed>>,
         call[c].pc \notin {"none", "message"}, q = "given up" => call[c].pc = "sent",
         q = "message" => c \in Edits /\ c \in UnderWay
  PROVE  ProfileInv'
<1> USE DEF ProfileInv
<1>1. /\ call'[c].pc = q /\ call'[c].item = call[c].item /\ call'[c].value = call[c].value
      /\ call'[c].form = call[c].form /\ call'[c].alone = call[c].alone
  BY DEF ProfileTypeOK, CallState
<1>2. \A d \in Calls \ {c} : call'[d] = call[d]
  BY DEF ProfileTypeOK
<1>3. /\ \A d \in Calls : /\ call'[d].item = call[d].item /\ call'[d].value = call[d].value
                          /\ call'[d].form = call[d].form /\ call'[d].alone = call[d].alone
      /\ \A d \in Calls : call'[d].pc = "applied" => call'[d] = call[d]
      /\ UnderWay' \subseteq UnderWay
  BY <1>1, <1>2 DEF UnderWay
<1>4. Kinds'
  BY ZenonT(60), <1>1, <1>2, ProfileAssumption DEF Kinds, Calls
<1>5. Single' /\ Overlaps' /\ FormAgrees'
  BY <1>3, FewerUnderWay
<1>6. AnswerAgrees'
  BY ZenonT(60), <1>3 DEF AnswerAgrees
<1>7. AcknowledgedEditStands'
  BY DEF AcknowledgedEditStands
<1>8. MessageAgrees'
  <2> SUFFICES ASSUME NEW d \in Edits, call'[d].pc = "message",
                      promised'[call'[d].item] # Unset
               PROVE  selfUser'[call'[d].item] = promised'[call'[d].item]
    BY DEF MessageAgrees
  <2>1. promised[call[d].item] # Unset /\ d \in Calls /\ call'[d].item = call[d].item
    BY <1>3 DEF Calls
  <2>2. d # c
    BY <1>1, <2>1 DEF FormAgrees
  <2> QED
    BY <1>2, <2>1, <2>2 DEF MessageAgrees
<1>9. EditIsShown'
  <2>1. \A d \in Edits :
          call[d].pc = "message" => call'[d].pc = "message" /\ call'[d].item = call[d].item
    BY <1>2 DEF Calls
  <2> QED
    BY <2>1, ShownStays
<1> QED
  BY <1>4, <1>5, <1>6, <1>7, <1>8, <1>9
LEMMA ApplyStep ==
  ASSUME ProfileInv, ProfileTypeOK', NEW c \in Calls, Apply(c)
  PROVE  ProfileInv'
<1> USE DEF ProfileInv
<1>1. /\ c \in UnderWay /\ call[c].pc \in {"sent", "given up"}
      /\ call'[c].pc \in {"applied", "done"} /\ call'[c].answer = server'
      /\ call'[c].item = call[c].item /\ call'[c].value = call[c].value
      /\ call'[c].form = call[c].form /\ call'[c].alone = call[c].alone
  BY DEF Apply, ProfileTypeOK, CallState, UnderWay
<1>2. \A d \in Calls \ {c} : call'[d] = call[d]
  BY DEF Apply, ProfileTypeOK
<1>3. /\ UNCHANGED <<selfUser, open, shown, promised, missed>>
      /\ \A it \in Items : server'[it] = IF call[c].form[it] = Unset THEN server[it]
                                         ELSE call[c].form[it]
  BY DEF Apply, Merge
<1>4. /\ \A d \in Calls : /\ call'[d].item = call[d].item /\ call'[d].value = call[d].value
                          /\ call'[d].form = call[d].form /\ call'[d].alone = call[d].alone
      /\ \A d \in Calls : call'[d].pc = "message" <=> call[d].pc = "message"
      /\ UnderWay' \subseteq UnderWay
  BY <1>1, <1>2 DEF UnderWay
<1>5. Kinds'
  BY <1>1, <1>2, ProfileAssumption DEF Kinds, Calls
<1>6. Single' /\ Overlaps' /\ FormAgrees'
  BY <1>3, <1>4, FewerUnderWay
<1>7. AnswerAgrees'
  <2> SUFFICES ASSUME NEW d \in Calls, call'[d].pc = "applied", call'[d].alone
               PROVE  /\ call'[d].answer = server'
                      /\ d \in Edits => server'[call'[d].item] = call'[d].value
    BY DEF AnswerAgrees
  <2>1. d = c
    <3> SUFFICES ASSUME d # c
                 PROVE  FALSE
      OBVIOUS
    <3>1. d \in UnderWay /\ call[d].alone
      BY <1>2 DEF UnderWay
    <3> QED
      BY <3>1, <1>1 DEF Single
  <2>2. ASSUME c \in Edits
        PROVE  server'[call[c].item] = call[c].value
    <3>1. call[c].item \in Items /\ call[c].value \in Texts
      BY <1>1, <2>2 DEF Kinds
    <3>2. call[c].form[call[c].item] = call[c].value
      BY <1>1, <2>2 DEF FormAgrees
    <3> QED
      BY <1>3, <3>1, <3>2, ProfileAssumption DEF Texts
  <2> QED
    BY <1>1, <2>1, <2>2
<1>8. AcknowledgedEditStands'
  <2> SUFFICES ASSUME NEW it \in Items, promised[it] # Unset
               PROVE  server'[it] = promised[it] /\ selfUser[it] \in {promised[it], Unset}
    BY <1>3 DEF AcknowledgedEditStands
  <2>1. call[c].form[it] \in {promised[it], Unset}
    BY <1>1 DEF FormAgrees
  <2> QED
    BY <1>3, <2>1 DEF AcknowledgedEditStands
<1>9. MessageAgrees'
  BY <1>3, <1>4 DEF MessageAgrees, Calls
<1>10. EditIsShown'
  <2>1. \A d \in Edits : call[d].pc = "message" =>
          call'[d].pc = "message" /\ call'[d].item = call[d].item
    BY <1>1, <1>2 DEF UnderWay, Calls
  <2> QED
    BY <1>3, <2>1, ShownStays
<1> QED
  BY <1>5, <1>6, <1>7, <1>8, <1>9, <1>10

\* A call whose program counter moves to q keeps its other fields.
LEMMA CallFields ==
  ASSUME call \in [Calls -> CallState], NEW c \in Calls, NEW q,
         call' = [call EXCEPT ![c].pc = q]
  PROVE  /\ call'[c].pc = q
         /\ call'[c].item = call[c].item /\ call'[c].value = call[c].value
         /\ call'[c].form = call[c].form /\ call'[c].alone = call[c].alone
  BY ZenonT(60) DEF CallState

LEMMA AnswerStep ==
  ASSUME ProfileInv, ProfileTypeOK', NEW c \in Calls, Answer(c)
  PROVE  ProfileInv'
<1>0. ProfileTypeOK
  BY DEF ProfileInv
<1>1. /\ c \in UnderWay /\ call[c].pc = "applied"
      /\ call'[c].pc = (IF c \in Edits THEN "message" ELSE "done")
      /\ call'[c].item = call[c].item /\ call'[c].value = call[c].value
      /\ call'[c].form = call[c].form /\ call'[c].alone = call[c].alone
  <2>1. /\ call[c].pc = "applied"
        /\ call' = [call EXCEPT ![c].pc = IF c \in Edits THEN "message" ELSE "done"]
    BY DEF Answer
  <2>2. call \in [Calls -> CallState]
    BY <1>0 DEF ProfileTypeOK
  <2>3. c \in UnderWay
    BY <2>1 DEF UnderWay
  <2> QED
    BY <2>1, <2>2, <2>3, CallFields
<1> USE DEF ProfileInv
<1>2. \A d \in Calls \ {c} : call'[d] = call[d]
  BY DEF Answer, ProfileTypeOK
<1>3. UNCHANGED <<server, open, shown, missed>> /\ selfUser' = call[c].answer
  BY DEF Answer
<1>4. /\ \A d \in Calls : /\ call'[d].item = call[d].item /\ call'[d].value = call[d].value
                          /\ call'[d].form = call[d].form /\ call'[d].alone = call[d].alone
      /\ \A d \in Calls : call'[d].pc = "applied" => call'[d] = call[d]
      /\ \A d \in Calls : call[d].pc = "message" => call'[d].pc = "message"
      /\ UnderWay' = UnderWay \ {c}
  BY <1>1, <1>2 DEF UnderWay
<1>5. Kinds'
  BY <1>1, <1>2, ProfileAssumption DEF Kinds, Calls
<1>6. AnswerAgrees'
  BY <1>3, <1>4 DEF AnswerAgrees
<1>7. CASE ~call[c].alone
  <2>1. promised' = promised /\ \A it \in Items : promised[it] = Unset
    BY <1>1, <1>7 DEF Answer, Overlaps, Blank
  <2>2. Single' /\ Overlaps' /\ FormAgrees'
    BY <1>4, <2>1, FewerUnderWay
  <2>3. AcknowledgedEditStands' /\ EditIsShown'
    BY <2>1 DEF AcknowledgedEditStands, EditIsShown
  <2>4. MessageAgrees'
    <3>1. \A d \in Edits : call'[d].pc = "message" => call'[d].item \in Items
      BY <1>5 DEF Kinds
    <3> QED
      BY <2>1, <3>1 DEF MessageAgrees
  <2> QED
    BY <1>5, <1>6, <2>2, <2>3, <2>4
<1>8. CASE call[c].alone
  <2>1. UnderWay' = {}
    BY <1>1, <1>4, <1>8 DEF Single
  <2>2. Single' /\ Overlaps' /\ FormAgrees'
    BY <2>1 DEF Single, Overlaps, FormAgrees
  <2>3. selfUser' = server
    BY <1>1, <1>3, <1>8 DEF AnswerAgrees
  <2>4. \A it \in Items :
          promised'[it] = IF c \in Edits /\ it = call[c].item THEN call[c].value ELSE promised[it]
    BY <1>8 DEF Answer, ProfileTypeOK, Profile
  <2>5. c \in Edits => server[call[c].item] = call[c].value
    BY <1>1, <1>8 DEF AnswerAgrees
  <2>6. \A it \in Items : promised'[it] # Unset => server[it] = promised'[it]
    BY <2>4, <2>5 DEF AcknowledgedEditStands
  <2>7. AcknowledgedEditStands'
    BY <1>3, <2>3, <2>6 DEF AcknowledgedEditStands
  <2>8. MessageAgrees'
    <3>1. \A d \in Edits : call'[d].pc = "message" => call'[d].item \in Items
      BY <1>5 DEF Kinds
    <3> QED
      BY <2>3, <2>6, <3>1 DEF MessageAgrees
  <2>9. EditIsShown'
    <3> SUFFICES ASSUME NEW it \in Items, open, promised'[it] # Unset, it \notin missed,
                        ~ \E d \in Edits : call'[d].item = it /\ call'[d].pc = "message"
                 PROVE  Shows(it, promised[it])'
      BY <1>3 DEF EditIsShown
    <3>1. c \in Edits => it # call[c].item
      BY <1>1
    <3>2. promised'[it] = promised[it]
      BY <2>4, <3>1
    <3>3. ~ \E d \in Edits : call[d].item = it /\ call[d].pc = "message"
      BY <1>4 DEF Calls
    <3> QED
      BY <1>3, <3>2, <3>3 DEF EditIsShown, Shows
  <2> QED
    BY <1>5, <1>6, <2>2, <2>7, <2>8, <2>9
<1> QED
  BY <1>7, <1>8

LEMMA HandleMessageStep ==
  ASSUME ProfileInv, ProfileTypeOK', NEW c \in Edits, HandleMessage(c)
  PROVE  ProfileInv'
<1> USE DEF ProfileInv
<1>1. /\ c \in Calls /\ c \notin UnderWay /\ call[c].pc = "message" /\ call'[c].pc = "done"
      /\ call'[c].item = call[c].item /\ call'[c].value = call[c].value
      /\ call'[c].form = call[c].form /\ call'[c].alone = call[c].alone
  BY ZenonT(60) DEF HandleMessage, ProfileTypeOK, CallState, UnderWay, Calls
<1>2. \A d \in Calls \ {c} : call'[d] = call[d]
  BY DEF HandleMessage, ProfileTypeOK
<1>3. UNCHANGED <<server, selfUser, open, promised>>
  BY DEF HandleMessage
<1>4. /\ \A d \in Calls : /\ call'[d].item = call[d].item /\ call'[d].value = call[d].value
                          /\ call'[d].form = call[d].form /\ call'[d].alone = call[d].alone
      /\ \A d \in Calls : call'[d].pc = "applied" => call'[d] = call[d]
      /\ \A d \in Calls : call'[d].pc = "message" => call[d].pc = "message"
      /\ UnderWay' \subseteq UnderWay
  BY <1>1, <1>2 DEF UnderWay
<1>5. Kinds'
  BY <1>1, <1>2, ProfileAssumption DEF Kinds, Calls
<1>6. Single' /\ Overlaps' /\ FormAgrees'
  BY <1>3, <1>4, FewerUnderWay
<1>7. AnswerAgrees' /\ AcknowledgedEditStands'
  BY <1>3, <1>4 DEF AnswerAgrees, AcknowledgedEditStands
<1>8. MessageAgrees'
  BY <1>3, <1>4 DEF MessageAgrees, Calls
<1>9. EditIsShown'
  <2> DEFINE i == call[c].item
  <2> SUFFICES ASSUME NEW it \in Items, open, promised[it] # Unset, it \notin missed',
                      ~ \E d \in Edits : call'[d].item = it /\ call'[d].pc = "message"
               PROVE  Shows(it, promised[it])'
    BY <1>3 DEF EditIsShown
  <2>1. CASE it = i
    <3>1. call[c].mine /\ shown' = [shown EXCEPT ![i] = selfUser[i]]
      BY <2>1 DEF HandleMessage
    <3>2. shown'[it] = selfUser[it]
      BY <2>1, <3>1 DEF ProfileTypeOK, Profile
    <3> QED
      BY <1>1, <1>3, <2>1, <3>2 DEF MessageAgrees, Shows
  <2>2. CASE it # i
    <3>1. shown'[it] = shown[it] /\ it \notin missed
      BY <2>2 DEF HandleMessage, ProfileTypeOK, Profile
    <3>2. ~ \E d \in Edits : call[d].item = it /\ call[d].pc = "message"
      BY <1>2, <2>2 DEF Calls
    <3> QED
      BY <1>3, <3>1, <3>2 DEF EditIsShown, Shows
  <2> QED
    BY <2>1, <2>2
<1> QED
  BY <1>5, <1>6, <1>7, <1>8, <1>9

LEMMA ProcessDiesStep ==
  ASSUME ProfileInv, ProfileTypeOK', ProcessDies
  PROVE  ProfileInv'
<1> USE DEF ProfileInv
<1>1. ASSUME NEW d \in Calls
      PROVE  /\ call'[d].item = call[d].item /\ call'[d].value = call[d].value
             /\ call'[d].form = call[d].form /\ call'[d].alone = call[d].alone
             /\ call'[d].pc \in {"none", "given up", "done"}
             /\ call'[d].pc = "given up" => call[d].pc \in {"sent", "given up"}
             /\ call'[d].pc # "none" => call[d].pc # "none"
  <2>1. call[d] \in CallState
    BY DEF ProfileTypeOK
  <2>2. call'[d] = [call[d] EXCEPT !.mine = FALSE,
                      !.pc = CASE call[d].pc = "none" -> "none"
                               [] call[d].pc \in {"sent", "given up"} -> "given up"
                               [] OTHER -> "done"]
    BY <2>1 DEF ProcessDies, CallState
  <2>3. CASE call[d].pc = "none"
    BY <2>1, <2>2, <2>3 DEF CallState
  <2>4. CASE call[d].pc \in {"sent", "given up"}
    BY <2>1, <2>2, <2>4 DEF CallState
  <2>5. CASE call[d].pc \notin {"none", "sent", "given up"}
    BY <2>1, <2>2, <2>5 DEF CallState
  <2> QED
    BY <2>3, <2>4, <2>5
<1>2. /\ UNCHANGED <<server, shown, promised, missed>>
      /\ selfUser' = Blank /\ open' = FALSE
  BY DEF ProcessDies
<1>3. UnderWay' \subseteq UnderWay
  BY <1>1 DEF UnderWay
<1>4. Kinds'
  BY <1>1 DEF Kinds, Calls
<1>5. Single' /\ Overlaps' /\ FormAgrees'
  BY <1>1, <1>2, <1>3, FewerUnderWay
<1>6. AnswerAgrees' /\ MessageAgrees'
  BY <1>1 DEF AnswerAgrees, MessageAgrees, Calls
<1>7. AcknowledgedEditStands' /\ EditIsShown'
  BY <1>2 DEF AcknowledgedEditStands, EditIsShown, Blank
<1> QED
  BY <1>4, <1>5, <1>6, <1>7
-----------------------------------------------------------------------------
(* The screen *)

LEMMA OpenScreenStep ==
  ASSUME ProfileInv, ProfileTypeOK', OpenScreen
  PROVE  ProfileInv'
<1> USE DEF ProfileInv
<1>1. /\ UNCHANGED <<server, selfUser, call, promised>> /\ UnderWay' = UnderWay
      /\ missed' = {it \in Items : selfUser[it] = Unset}
      /\ \A it \in Items : shown'[it] = IF selfUser[it] = Empty THEN Unset ELSE selfUser[it]
  BY DEF OpenScreen, UnderWay
<1>2. Kinds' /\ Single' /\ Overlaps' /\ FormAgrees' /\ AnswerAgrees'
  BY <1>1 DEF Kinds, Single, Overlaps, FormAgrees, AnswerAgrees
<1>3. AcknowledgedEditStands' /\ MessageAgrees'
  BY <1>1 DEF AcknowledgedEditStands, MessageAgrees
<1>4. EditIsShown'
  BY <1>1 DEF EditIsShown, AcknowledgedEditStands, Shows
<1> QED
  BY <1>2, <1>3, <1>4

LEMMA CloseScreenStep ==
  ASSUME ProfileInv, ProfileTypeOK', CloseScreen
  PROVE  ProfileInv'
<1> USE DEF ProfileInv
<1>1. \A d \in Calls : /\ call'[d].pc = call[d].pc /\ call'[d].item = call[d].item
                       /\ call'[d].value = call[d].value /\ call'[d].form = call[d].form
                       /\ call'[d].answer = call[d].answer /\ call'[d].alone = call[d].alone
  BY ZenonT(60) DEF CloseScreen, ProfileTypeOK, CallState
<1>2. /\ UNCHANGED <<server, selfUser, shown, promised, missed>> /\ open' = FALSE
      /\ UnderWay' = UnderWay
  BY <1>1 DEF CloseScreen, UnderWay
<1>3. Kinds'
  BY <1>1 DEF Kinds, Calls
<1>4. Single' /\ Overlaps' /\ FormAgrees'
  BY <1>1, <1>2, FewerUnderWay
<1>5. AnswerAgrees'
  BY <1>1, <1>2 DEF AnswerAgrees
<1>6. AcknowledgedEditStands' /\ EditIsShown'
  BY <1>2 DEF AcknowledgedEditStands, EditIsShown
<1>7. MessageAgrees'
  BY <1>1, <1>2 DEF MessageAgrees, Calls
<1> QED
  BY <1>3, <1>4, <1>5, <1>6, <1>7

LEMMA PickAvatarStep ==
  ASSUME ProfileInv, ProfileTypeOK', NEW c \in Edits, NEW v \in Values, PickAvatar(c, v)
  PROVE  ProfileInv'
<1> USE DEF ProfileInv
<1>1. /\ c \in Calls /\ c \notin Fetches /\ call[c].pc = "none" /\ call'[c].pc = "uploading"
      /\ call'[c].item = AVATAR /\ call'[c].value = v
  BY ProfileAssumption DEF PickAvatar, ProfileTypeOK, Calls, NoCall
<1>2. \A d \in Calls \ {c} : call'[d] = call[d]
  BY DEF PickAvatar, ProfileTypeOK
<1>3. UNCHANGED <<server, selfUser, open, shown, promised, missed>>
  BY DEF PickAvatar
<1>4. \A d \in UnderWay : d \in Calls /\ call'[d] = call[d]
  BY <1>1, <1>2 DEF UnderWay
<1>5. UnderWay' = UnderWay
  BY <1>1, <1>2 DEF UnderWay
<1>6. Kinds'
  BY <1>1, <1>2, ProfileAssumption DEF Kinds, Calls, Texts
<1>7. Single' /\ Overlaps'
  BY <1>3, <1>4, <1>5 DEF Single, Overlaps
<1>8. FormAgrees'
  BY <1>3, <1>4, <1>5 DEF FormAgrees
<1>9. AnswerAgrees' /\ AcknowledgedEditStands'
  BY <1>1, <1>2, <1>3 DEF AnswerAgrees, AcknowledgedEditStands
<1>10. \A d \in Edits : /\ call'[d].pc = "message" <=> call[d].pc = "message"
                        /\ call[d].pc = "message" => call'[d].item = call[d].item
  BY <1>1, <1>2 DEF Calls
<1>11. MessageAgrees' /\ EditIsShown'
  BY <1>3, <1>10 DEF MessageAgrees, EditIsShown, Shows
<1> QED
  BY <1>6, <1>7, <1>8, <1>9, <1>11
-----------------------------------------------------------------------------
(* The invariant *)

LEMMA InvStep == ProfileInv /\ [Next]_vars => ProfileInv'
<1> SUFFICES ASSUME ProfileInv, [Next]_vars
             PROVE  ProfileInv'
  OBVIOUS
<1>1. ProfileTypeOK'
  BY TypeStep DEF ProfileInv
<1>2. CASE OpenScreen \/ CloseScreen \/ ProcessDies
  BY <1>1, <1>2, OpenScreenStep, CloseScreenStep, ProcessDiesStep
<1>3. ASSUME NEW c \in Edits, NEW v \in Values, PickAvatar(c, v)
      PROVE  ProfileInv'
  BY <1>1, <1>3, PickAvatarStep
<1>4. ASSUME NEW c \in Edits, NEW it \in Items, NEW v \in Texts, Edit(c, it, v)
      PROVE  ProfileInv'
  BY <1>4, UpdateStep DEF Edit
<1>5. ASSUME NEW c \in Edits, UploadDone(c)
      PROVE  ProfileInv'
  <2>1. call[c].value \in Texts /\ call[c].mine \in BOOLEAN /\ c \in Calls
    BY <1>5 DEF ProfileInv, ProfileTypeOK, Kinds, UploadDone, CallState, Calls
  <2> QED
    BY <1>5, <2>1, UpdateStep, ProfileAssumption DEF UploadDone
<1>6. ASSUME NEW f \in Fetches, Fetch(f)
      PROVE  ProfileInv'
  BY <1>6, FetchStep
<1>7. ASSUME NEW c \in Calls, Apply(c) \/ Answer(c)
      PROVE  ProfileInv'
  BY <1>1, <1>7, ApplyStep, AnswerStep
<1>8. ASSUME NEW c \in Edits, HandleMessage(c)
      PROVE  ProfileInv'
  BY <1>1, <1>8, HandleMessageStep
<1>9. ASSUME NEW c \in Calls, UploadFails(c) \/ GiveUp(c) \/ Lost(c) \/ Refused(c)
      PROVE  ProfileInv'
  <2>1. CASE UploadFails(c) \/ Lost(c)
    BY <1>1, <2>1, EndStep DEF UploadFails, Lost
  <2>2. CASE GiveUp(c)
    BY <1>1, <2>2, EndStep DEF GiveUp
  <2>3. CASE Refused(c)
    <3>1. c \in UnderWay
      BY <2>3 DEF Refused, UnderWay
    <3> QED
      BY <1>1, <2>3, <3>1, EndStep DEF Refused
  <2> QED
    BY <1>9, <2>1, <2>2, <2>3
<1>10. CASE UNCHANGED vars
  <2>1. UnderWay' = UnderWay
    BY <1>10 DEF vars, UnderWay
  <2> QED
    BY <1>1, <1>10, <2>1 DEF vars, ProfileInv, Kinds, Single, Overlaps, FormAgrees, AnswerAgrees,
       AcknowledgedEditStands, MessageAgrees, EditIsShown, Shows
<1> QED
  BY <1>2, <1>3, <1>4, <1>5, <1>6, <1>7, <1>8, <1>9, <1>10 DEF Next, Calls

LEMMA Invariant == Spec => []ProfileInv
<1>1. Init => ProfileInv
  BY InitInv
<1>2. ProfileInv /\ [Next]_vars => ProfileInv'
  BY InvStep
<1> QED
  BY <1>1, <1>2, PTL DEF Spec

\* Every variable keeps its type, whatever edits and fetches overlap.
THEOREM ProfileTypeCorrect == Spec => []ProfileTypeOK
<1>1. ProfileInv => ProfileTypeOK
  BY DEF ProfileInv
<1> QED
  BY <1>1, Invariant, PTL

\* An edit that was acknowledged and overlapped no other call stands on the
\* server, and the app has cached its value or nothing (updateSelfUser).
THEOREM EditStands == Spec => []AcknowledgedEditStands
<1>1. ProfileInv => AcknowledgedEditStands
  BY DEF ProfileInv
<1> QED
  BY <1>1, Invariant, PTL

\* A screen on display shows such an edit once its message was handled
\* (viewUpdateHandler, onCreate).
THEOREM EditShown == Spec => []EditIsShown
<1>1. ProfileInv => EditIsShown
  BY DEF ProfileInv
<1> QED
  BY <1>1, Invariant, PTL

-----------------------------------------------------------------------------
(* An edit keeps to its item *)

Untouched(form, it) == form[it] \in {server[it], Unset}

\* While the app is not behind the server, what it has cached, every answer on
\* its way and, but for its own item, the form of an edit that is alone are the
\* server's profile or parts of it.
CopyInv ==
  ~behind =>
    /\ \A it \in Items : Untouched(selfUser, it)
    /\ \A c \in Calls : call[c].pc = "applied" => call[c].answer = server
    /\ \A c \in UnderWay : call[c].alone =>
         \A it \in Items : it # call[c].item => Untouched(call[c].form, it)

\* A step that changes neither profile, and begins no call, keeps it.
LEMMA CopyBystander ==
  ASSUME CopyInv, UNCHANGED <<server, selfUser, behind>>, UnderWay' \subseteq UnderWay,
         \A d \in Calls : /\ call'[d].item = call[d].item /\ call'[d].form = call[d].form
                          /\ call'[d].alone = call[d].alone /\ call'[d].answer = call[d].answer
                          /\ call'[d].pc = "applied" => call[d].pc = "applied"
  PROVE  CopyInv'
<1>1. \A d \in UnderWay' : d \in UnderWay /\ d \in Calls
  BY DEF UnderWay
<1> QED
  BY <1>1 DEF CopyInv, Untouched

\* A call that begins has the cached user's items, or none; it and those under
\* way are alone no longer if there are any.
LEMMA CopyBegins ==
  ASSUME CopyInv, ProfileTypeOK, NEW c \in Calls, UNCHANGED <<server, selfUser, behind>>,
         call'[c].pc = "sent", call'[c].alone = (UnderWay = {}),
         \A it \in Items : it # call'[c].item => call'[c].form[it] \in {selfUser[it], Unset},
         \A d \in Calls \ {c} :
           /\ call'[d].pc = call[d].pc /\ call'[d].answer = call[d].answer
           /\ d \in UnderWay => ~call'[d].alone
  PROVE  CopyInv'
<1> SUFFICES ASSUME ~behind
             PROVE  CopyInv'
  BY DEF CopyInv
<1>1. \A it \in Items : Untouched(selfUser, it)'
  BY DEF CopyInv, Untouched
<1>2. \A d \in Calls : call'[d].pc = "applied" => call'[d].answer = server'
  BY DEF CopyInv
<1>3. ASSUME NEW d \in UnderWay', call'[d].alone, NEW it \in Items, it # call'[d].item
      PROVE  Untouched(call[d].form, it)'
  <2>1. d = c
    BY <1>3 DEF UnderWay
  <2> QED
    BY <1>1, <1>3, <2>1 DEF Untouched
<1> QED
  BY <1>1, <1>2, <1>3 DEF CopyInv

LEMMA CopyUpdate ==
  ASSUME CopyInv, ProfileTypeOK, NEW c \in Edits, NEW it \in Items, NEW v \in Texts,
         NEW m \in BOOLEAN, UpdateSelfUser(c, it, v, m), call[c].pc \in {"none", "uploading"}
  PROVE  CopyInv'
<1>1. c \in Calls /\ c \notin UnderWay
  BY DEF Calls, UnderWay
<1>2. /\ call'[c].pc = "sent" /\ call'[c].alone = (UnderWay = {})
      /\ call'[c].item = it /\ call'[c].form = Form(it, v)
  BY <1>1 DEF UpdateSelfUser, Begin, NoCall
<1>3. \A d \in Calls \ {c} :
        /\ call'[d].pc = call[d].pc /\ call'[d].answer = call[d].answer
        /\ d \in UnderWay => ~call'[d].alone
  BY DEF UpdateSelfUser, Begin, ProfileTypeOK, CallState
<1>4. \A x \in Items : x # it => Form(it, v)[x] = selfUser[x]
  BY DEF Form, ProfileTypeOK, Profile
<1> QED
  BY <1>1, <1>2, <1>3, <1>4, CopyBegins DEF UpdateSelfUser

LEMMA CopyFetch ==
  ASSUME CopyInv, ProfileTypeOK, NEW c \in Fetches, Fetch(c)
  PROVE  CopyInv'
<1>1. c \in Calls /\ c \notin UnderWay
  BY DEF Calls, UnderWay, Fetch
<1>2. call'[c].pc = "sent" /\ call'[c].alone = (UnderWay = {}) /\ call'[c].form = Blank
  BY <1>1 DEF Fetch, NoCall
<1>3. \A d \in Calls \ {c} :
        /\ call'[d].pc = call[d].pc /\ call'[d].answer = call[d].answer
        /\ d \in UnderWay => ~call'[d].alone
  BY DEF Fetch, ProfileTypeOK, CallState
<1>4. \A x \in Items : call'[c].form[x] = Unset
  BY <1>2 DEF Blank
<1> QED
  BY <1>1, <1>2, <1>3, <1>4, CopyBegins DEF Fetch

LEMMA CopyApply ==
  ASSUME CopyInv, ProfileTypeOK, NEW c \in Calls, Apply(c)
  PROVE  CopyInv'
<1> SUFFICES ASSUME ~behind'
             PROVE  CopyInv'
  BY DEF CopyInv
<1>1. ~behind /\ server' = server /\ selfUser' = selfUser
  BY DEF Apply
<1>2. /\ call'[c].answer = server' /\ call'[c].item = call[c].item
      /\ call'[c].form = call[c].form /\ call'[c].alone = call[c].alone
      /\ c \in UnderWay
  BY DEF Apply, ProfileTypeOK, CallState, UnderWay
<1>3. \A d \in Calls \ {c} : call'[d] = call[d]
  BY DEF Apply, ProfileTypeOK
<1>4. \A it \in Items : Untouched(selfUser, it)'
  BY <1>1 DEF CopyInv, Untouched
<1>5. \A d \in Calls : call'[d].pc = "applied" => call'[d].answer = server'
  BY <1>1, <1>2, <1>3 DEF CopyInv
<1>6. ASSUME NEW d \in UnderWay', call'[d].alone, NEW it \in Items, it # call'[d].item
      PROVE  Untouched(call[d].form, it)'
  <2>1. /\ d \in UnderWay /\ call[d].alone /\ it # call[d].item
        /\ call'[d].form = call[d].form
    BY <1>2, <1>3, <1>6 DEF UnderWay
  <2> QED
    BY <1>1, <2>1 DEF CopyInv, Untouched
<1> QED
  BY <1>4, <1>5, <1>6 DEF CopyInv

LEMMA CopyAnswer ==
  ASSUME CopyInv, ProfileInv, NEW c \in Calls, Answer(c)
  PROVE  CopyInv'
<1> SUFFICES ASSUME ~behind'
             PROVE  CopyInv'
  BY DEF CopyInv
<1> USE DEF ProfileInv
<1>1. /\ call[c].pc = "applied" /\ c \in UnderWay /\ server' = server
      /\ selfUser' = call[c].answer /\ behind' = (behind /\ ~call[c].alone)
      /\ call' = [call EXCEPT ![c].pc = IF c \in Edits THEN "message" ELSE "done"]
  BY DEF Answer, UnderWay
<1>2. call'[c].pc \notin {"sent", "given up", "applied"}
  BY <1>1 DEF ProfileTypeOK, CallState
<1>3. \A d \in Calls \ {c} : call'[d] = call[d]
  BY <1>1 DEF ProfileTypeOK
<1>4. UnderWay' = UnderWay \ {c}
  BY <1>2, <1>3 DEF UnderWay
<1>5. call[c].answer = server
  BY <1>1 DEF CopyInv, AnswerAgrees
<1>6. \A it \in Items : Untouched(selfUser, it)'
  BY <1>1, <1>5 DEF Untouched
<1>7. CASE call[c].alone
  <2>1. UnderWay' = {}
    BY <1>1, <1>4, <1>7 DEF Single
  <2> QED
    BY <1>6, <2>1 DEF CopyInv, UnderWay
<1>8. CASE ~call[c].alone
  <2>1. ~behind
    BY <1>1, <1>8
  <2>2. \A d \in Calls : call'[d].pc = "applied" => call'[d].answer = server'
    BY <1>1, <1>2, <1>3, <2>1 DEF CopyInv
  <2>3. ASSUME NEW d \in UnderWay', call'[d].alone, NEW it \in Items, it # call'[d].item
        PROVE  Untouched(call[d].form, it)'
    <3>1. d \in UnderWay /\ d \in Calls /\ call'[d] = call[d]
      BY <1>3, <1>4 DEF UnderWay
    <3> QED
      BY <1>1, <2>1, <2>3, <3>1 DEF CopyInv, Untouched
  <2> QED
    BY <1>6, <2>2, <2>3 DEF CopyInv
<1> QED
  BY <1>7, <1>8

LEMMA CopyDies ==
  ASSUME CopyInv, ProfileTypeOK, ProcessDies
  PROVE  CopyInv'
<1>1. ASSUME NEW d \in Calls
      PROVE  /\ call'[d].item = call[d].item /\ call'[d].form = call[d].form
             /\ call'[d].alone = call[d].alone /\ call'[d].pc # "applied"
             /\ d \in UnderWay' => d \in UnderWay
  <2>1. call[d] \in CallState
    BY DEF ProfileTypeOK
  <2>2. call'[d] = [call[d] EXCEPT !.mine = FALSE,
                      !.pc = CASE call[d].pc = "none" -> "none"
                               [] call[d].pc \in {"sent", "given up"} -> "given up"
                               [] OTHER -> "done"]
    BY <2>1 DEF ProcessDies, CallState
  <2>3. CASE call[d].pc = "none"
    BY <2>1, <2>2, <2>3 DEF CallState, UnderWay
  <2>4. CASE call[d].pc \in {"sent", "given up"}
    BY <2>1, <2>2, <2>4 DEF CallState, UnderWay
  <2>5. CASE call[d].pc \notin {"none", "sent", "given up"}
    BY <2>1, <2>2, <2>5 DEF CallState, UnderWay
  <2> QED
    BY <2>3, <2>4, <2>5
<1>2. server' = server /\ selfUser' = Blank /\ behind' = (behind /\ UnderWay # {})
  BY DEF ProcessDies
<1> SUFFICES ASSUME ~behind'
             PROVE  CopyInv'
  BY DEF CopyInv
<1>3. \A it \in Items : Untouched(selfUser, it)'
  BY <1>2 DEF Untouched, Blank
<1>4. ASSUME NEW d \in UnderWay', call'[d].alone, NEW it \in Items, it # call'[d].item
      PROVE  Untouched(call[d].form, it)'
  <2>1. d \in Calls /\ d \in UnderWay /\ ~behind
    BY <1>1, <1>2 DEF UnderWay
  <2> QED
    BY <1>1, <1>2, <1>4, <2>1 DEF CopyInv, Untouched
<1> QED
  BY <1>1, <1>3, <1>4 DEF CopyInv

LEMMA CopyStep == ProfileInv /\ CopyInv /\ [Next]_vars => CopyInv'
<1> SUFFICES ASSUME ProfileInv, CopyInv, [Next]_vars
             PROVE  CopyInv'
  OBVIOUS
<1>0. ProfileTypeOK
  BY DEF ProfileInv
<1>1. CASE OpenScreen
  BY <1>1, CopyBystander DEF OpenScreen, UnderWay
<1>2. CASE CloseScreen
  <2>1. \A d \in Calls : /\ call'[d].pc = call[d].pc /\ call'[d].item = call[d].item
                         /\ call'[d].form = call[d].form /\ call'[d].alone = call[d].alone
                         /\ call'[d].answer = call[d].answer
    BY ZenonT(60), <1>0, <1>2 DEF CloseScreen, ProfileTypeOK, CallState
  <2>2. UnderWay' = UnderWay
    BY <2>1 DEF UnderWay
  <2> QED
    BY <1>2, <2>1, <2>2, CopyBystander DEF CloseScreen
<1>3. CASE ProcessDies
  BY <1>0, <1>3, CopyDies
<1>4. ASSUME NEW c \in Edits, NEW v \in Values, PickAvatar(c, v)
      PROVE  CopyInv'
  <2>1. c \in Calls /\ c \notin UnderWay /\ call'[c].pc = "uploading"
    BY <1>0, <1>4 DEF PickAvatar, ProfileTypeOK, Calls, UnderWay, NoCall
  <2>2. \A d \in Calls \ {c} : call'[d] = call[d]
    BY <1>0, <1>4 DEF PickAvatar, ProfileTypeOK
  <2>3. UnderWay' = UnderWay /\ \A d \in UnderWay : d # c /\ d \in Calls
    BY <2>1, <2>2 DEF UnderWay
  <2>4. UNCHANGED <<server, selfUser, behind>>
    BY <1>4 DEF PickAvatar
  <2> QED
    BY <2>1, <2>2, <2>3, <2>4 DEF CopyInv, Untouched
<1>5. ASSUME NEW c \in Edits, NEW it \in Items, NEW v \in Texts, Edit(c, it, v)
      PROVE  CopyInv'
  BY <1>0, <1>5, CopyUpdate DEF Edit
<1>6. ASSUME NEW c \in Edits, UploadDone(c)
      PROVE  CopyInv'
  <2>1. call[c].value \in Texts /\ call[c].mine \in BOOLEAN
    BY <1>6 DEF ProfileInv, ProfileTypeOK, Kinds, UploadDone, CallState, Calls
  <2> QED
    BY <1>0, <1>6, <2>1, CopyUpdate, ProfileAssumption DEF UploadDone
<1>7. ASSUME NEW f \in Fetches, Fetch(f)
      PROVE  CopyInv'
  BY <1>0, <1>7, CopyFetch
<1>8. ASSUME NEW c \in Calls, Apply(c) \/ Answer(c)
      PROVE  CopyInv'
  BY <1>0, <1>8, CopyApply, CopyAnswer
<1>9. ASSUME NEW c \in Calls, NEW q \in {"given up", "message", "done"},
             call' = [call EXCEPT ![c].pc = q], UNCHANGED <<server, selfUser, behind>>,
             q = "given up" => c \in UnderWay
      PROVE  CopyInv'
  <2>1. /\ call'[c].pc = q /\ call'[c].item = call[c].item /\ call'[c].form = call[c].form
        /\ call'[c].alone = call[c].alone /\ call'[c].answer = call[c].answer
    BY <1>0, <1>9 DEF ProfileTypeOK, CallState
  <2>2. \A d \in Calls \ {c} : call'[d] = call[d]
    BY <1>0, <1>9 DEF ProfileTypeOK
  <2>3. UnderWay' \subseteq UnderWay
    BY <1>9, <2>1, <2>2 DEF UnderWay
  <2> QED
    BY <1>9, <2>1, <2>2, <2>3, CopyBystander
<1>10. ASSUME NEW c \in Calls, UploadFails(c) \/ Lost(c) \/ GiveUp(c) \/ Refused(c)
       PROVE  CopyInv'
  <2>1. CASE UploadFails(c) \/ Lost(c)
    BY <1>9, <2>1 DEF UploadFails, Lost
  <2>2. CASE GiveUp(c)
    BY <1>9, <2>2 DEF GiveUp, UnderWay
  <2>3. CASE Refused(c)
    BY <1>9, <2>3 DEF Refused
  <2> QED
    BY <1>10, <2>1, <2>2, <2>3
<1>11. ASSUME NEW c \in Edits, HandleMessage(c)
       PROVE  CopyInv'
  BY <1>9, <1>11 DEF HandleMessage, Calls
<1>12. CASE UNCHANGED vars
  <2>1. UnderWay' = UnderWay
    BY <1>12 DEF vars, UnderWay
  <2> QED
    BY <1>12, <2>1 DEF vars, CopyInv, Untouched
<1> QED
  BY <1>1, <1>2, <1>3, <1>4, <1>5, <1>6, <1>7, <1>8, <1>10, <1>11, <1>12 DEF Next, Calls

\* An edit made when nothing overlaps it, from a copy that is not behind the
\* server, changes its own item only, for any number of edits and fetches before
\* it, answered, lost or refused, and of restarts (updateSelfUser copies the
\* whole cached user, handleForm sends all of it that is not null).
THEOREM EditKeeps == Spec => EditKeepsToItsItem
<1>1. Init => CopyInv
  BY DEF Init, CopyInv, Untouched, Blank, NoCall, UnderWay
<1>2. Spec => []CopyInv
  BY <1>1, CopyStep, Invariant, PTL DEF Spec
<1>3. ProfileInv /\ CopyInv /\ [Next]_vars =>
        [~behind /\ (\A c \in UnderWay : call[c].alone)
           => \A it \in Items :
                server'[it] # server[it] => \E c \in UnderWay : call[c].item = it]_vars
  <2> SUFFICES ASSUME CopyInv, [Next]_vars, ~behind, \A c \in UnderWay : call[c].alone,
                      NEW it \in Items, server'[it] # server[it]
               PROVE  \E c \in UnderWay : call[c].item = it
    OBVIOUS
  <2>1. ASSUME NEW c \in Calls, Apply(c)
        PROVE  \E d \in UnderWay : call[d].item = it
    <3>1. c \in UnderWay
      BY <2>1 DEF Apply, UnderWay
    <3>2. call[c].form[it] # Unset /\ call[c].form[it] # server[it]
      BY <2>1 DEF Apply, Merge
    <3> QED
      BY <3>1, <3>2 DEF CopyInv, Untouched
  <2>2. (\E c \in Calls : Apply(c)) \/ UNCHANGED server
    BY DEF Next, vars, OpenScreen, CloseScreen, ProcessDies, PickAvatar, Edit, UploadFails,
       UploadDone, UpdateSelfUser, HandleMessage, Fetch, Refused, GiveUp, Lost, Answer
  <2> QED
    BY <2>1, <2>2
<1> QED
  BY <1>2, <1>3, Invariant, PTL DEF Spec, EditKeepsToItsItem
=============================================================================
