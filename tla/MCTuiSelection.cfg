CONSTANTS
  Address <- PrivateAddress
  Fingerprint = {f1, f2}
  Banner = {b1}
  Limit = 1
  Height = 1
  MaxLog = 2
SPECIFICATION TuiSpec
PROPERTY SelectedAreBlocked
