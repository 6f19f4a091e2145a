CONSTANTS
  Operation = {o1, o2, o3}
  Address = {i1}
  Fingerprint = {f1}
  Banner = {b1}
  Nobody = Nobody
SPECIFICATION FairRepoSpec
INVARIANTS
  RepoTypeOK
  ReferencesResolve
PROPERTIES
  ImplementsRegistry
  EveryOperationReturns
