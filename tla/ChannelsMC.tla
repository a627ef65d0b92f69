----------------------------- MODULE ChannelsMC -----------------------------
EXTENDS Channels, TLC

=============================================================================
