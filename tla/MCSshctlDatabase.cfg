CONSTANTS
  Invocation = {i1}
  Fingerprint = {f1}
  Address = {a1}
  Banner = {b1}
  Database = {Default, Other}
  Default = Default
  Unnamed = Unnamed
  Used = {"flag", "env", "config"}
  Reading = {}
  Limit = 0
  MaxArgs = 1
  MaxLog = 0
SPECIFICATION CtlSpec
INVARIANT EditsNamedDatabase
