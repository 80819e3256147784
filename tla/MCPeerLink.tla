----------------------------- MODULE MCPeerLink -----------------------------
EXTENDS PeerLink
=============================================================================
