CONSTANTS
  Hash = {h1, h2}
  Banner = {b1, b2}
  NoBanner = NoBanner
  Conn = {c1}
  NoHash = NoHash
  MaxCommits = 3
SPECIFICATION Spec
SYMMETRY MCSymmetry
INVARIANTS
  TypeOK
  BlocklistIsOneCommit
  NoReloadLost
  BlockedNeverReachesUpstream
  VerdictFollowsDatabase
  BannersAgreeUnlessRefreshed
PROPERTIES
  EnforcementNeverRegresses
  ImplementsGate
