SPECIFICATION OrderSpec
CONSTANTS
  a1 = a1
  a2 = a2
  A = A
  B = B
  f1 = f1
  f2 = f2
  Fetchers = {f1, f2}
  Stations <- MCStations
  Lines = {A, B}
  LineOf <- MCLineOf
  None = None
  Resumes = {r1}
  Payments = {p1}
SYMMETRY MCFetchers
INVARIANTS OrderTypeOK LinesAreComplete ContextIsThere RowsAreNotified RowsAreOneAnswer StationIsTheOneClicked
PROPERTIES PositionsStay ImplementsCatalogue
