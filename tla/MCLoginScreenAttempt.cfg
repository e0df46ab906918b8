SPECIFICATION Spec
CONSTANTS
  Users = {u1}
  NoUser = NoUser
  LoginIds = {l1, l2}
  TimerIds = {t1, t2}
  CountFrom = 2
INVARIANTS AttemptHasFields
