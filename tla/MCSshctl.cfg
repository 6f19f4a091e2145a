CONSTANTS
  Invocation = {i1, i2}
  Fingerprint = {f1, f2}
  Address = {a1}
  Banner = {b1}
  Database = {Default}
  Default = Default
  Unnamed = Unnamed
  Used = {}
  Reading <- MCReading
  Limit = 1
  MaxArgs = 2
  MaxLog = 2
SPECIFICATION CtlSpec
SYMMETRY Interchangeable
INVARIANTS
  ReportsAreTrue
  BlocksLast
  FiguresAreCurrent
  FiguresAgree
PROPERTY ListShowsEdits
