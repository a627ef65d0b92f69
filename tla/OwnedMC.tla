------------------------------ MODULE OwnedMC ------------------------------
EXTENDS Owned

=============================================================================
