SPECIFICATION SeedStoreFairSpec
CONSTANTS
  Users = {u1, u2}
  NoUser = NoUser
  LoginIds = {l1}
  FetchIds = {f1, f2}
  Serials = {s1}
  NoSerial = NoSerial
INVARIANTS PairMatches
PROPERTIES PairConverges
