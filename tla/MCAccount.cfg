SPECIFICATION FairSpec
CONSTANTS
  Users = {u1, u2}
  NoUser = NoUser
  Nobody = Nobody
  LoginIds = {l1}
  InfoIds = {i1}
  MeIds = {m1}
INVARIANTS AccountTypeOK UserPageHasUser UserIsLoggedIn NoPageOfTheDeparted
PROPERTIES AccountConverges
