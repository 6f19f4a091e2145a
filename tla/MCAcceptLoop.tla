---------------------------- MODULE MCAcceptLoop ----------------------------
EXTENDS AcceptLoop

=============================================================================
