----------------------------- MODULE MCYmuxFeed -----------------------------
EXTENDS YmuxFeed
=============================================================================
