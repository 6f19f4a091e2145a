CONSTANTS
  Operation = {o1, o2}
  Address = {i1}
  Fingerprint = {f1}
  Banner = {b1}
  Nobody = Nobody
SPECIFICATION RepoSpec
PROPERTY FindsOrCreates
