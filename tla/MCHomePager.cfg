SPECIFICATION HomeSpec
CONSTANTS
  Starts = {s1, s2, s3}
  Most = 3
  None = None
SYMMETRY MCStarts
INVARIANTS HomeTypeOK TabsAreThePages SelectedIsShown
