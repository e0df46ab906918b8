SPECIFICATION Spec
CONSTANTS
  Users = {u1}
  NoUser = NoUser
  LoginIds = {l1}
  FetchIds = {f1, f2}
  Serials = {s1, s2}
  NoSerial = NoSerial
  MaxUpdates = 2
SYMMETRY Symmetry
INVARIANTS TypeOK LoggedOutShowsDefault CodeUpToDate
PROPERTIES SeedStoreSpec
