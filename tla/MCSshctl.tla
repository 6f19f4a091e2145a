------------------------------ MODULE MCSshctl ------------------------------
EXTENDS Sshctl

Listing(kind, state, byTime, reverse) ==
  [kind |-> kind, args |-> <<>>, state |-> state, byTime |-> byTime, reverse |-> reverse]

\* Every state, both orders of time and an order of something else.
MCReading ==
  {Listing("list", "all", TRUE, TRUE), Listing("list", "blocked", FALSE, FALSE),
   Listing("list", "other", TRUE, TRUE), Listing("log", "allowed", TRUE, FALSE),
   [kind |-> "stats", args |-> <<>>]}

Interchangeable == Permutations(Fingerprint) \cup Permutations(Invocation)
=============================================================================
