CONSTANTS
  Hash = {h1}
  Banner = {b1, b2}
  NoBanner = NoBanner
  Conn = {c1}
  NoHash = NoHash
  MaxCommits = 2
SPECIFICATION Spec
INVARIANT BannersAgree
