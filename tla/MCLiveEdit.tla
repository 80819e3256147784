----------------------------- MODULE MCLiveEdit -----------------------------
EXTENDS LiveEdit
=============================================================================
