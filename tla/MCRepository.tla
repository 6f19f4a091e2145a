---------------------------- MODULE MCRepository ----------------------------
EXTENDS Repository

=============================================================================
