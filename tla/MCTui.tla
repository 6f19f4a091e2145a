------------------------------- MODULE MCTui --------------------------------
EXTENDS Tui, TLC

\* 10.0.0.1, as bytes and as characters
PrivateAddress == {[bytes |-> <<10, 0, 0, 1>>, text |-> <<49, 48, 46, 48, 46, 48, 46, 49>>]}
Interchangeable == Permutations(Fingerprint)
=============================================================================
