CONSTANTS
  Hash = {h1}
  Banner = {b1}
  NoBanner = NoBanner
  Conn = {c1, c2}
  NoHash = NoHash
  MaxCommits = 2
SPECIFICATION FairSpec
PROPERTIES
  ImplementsGate
  HandshakeResolves
  SighupIsAnswered
