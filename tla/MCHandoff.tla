----------------------------- MODULE MCHandoff -----------------------------
EXTENDS Handoff
=============================================================================
