SPECIFICATION Spec
CONSTANTS
  AVATAR = AVATAR
  NAME = NAME
  v1 = v1
  v2 = v2
  Unset = Unset
  Empty = Empty
  Typed <- MCTyped
  Items <- MCItems
  Values = {v1, v2}
  Edits = {e1, e2}
  Fetches = {f1}
SYMMETRY Symmetric
INVARIANTS ProfileTypeOK AcknowledgedEditStands EditIsShown
PROPERTY EditKeepsToItsItem
