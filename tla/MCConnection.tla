---------------------------- MODULE MCConnection ----------------------------
EXTENDS Connection, TLC

MCSymmetry ==
  Permutations(Hash) \cup Permutations(Banner) \cup Permutations(Conn)

=============================================================================
