----------------------------- MODULE EntitiesMC -----------------------------
EXTENDS Entities, TLC

=============================================================================
