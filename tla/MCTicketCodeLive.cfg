SPECIFICATION FairSpec
CONSTANTS
  Users = {u1, u2}
  NoUser = NoUser
  LoginIds = {l1}
  FetchIds = {f1}
  Serials = {s1}
  NoSerial = NoSerial
  MaxUpdates = 1
PROPERTIES FetchedCodeIsShown
