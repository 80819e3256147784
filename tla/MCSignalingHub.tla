--------------------------- MODULE MCSignalingHub ---------------------------
(* SignalingHub for TLC: peer ids, topics and sockets are interchangeable.             *)
EXTENDS SignalingHub, TLC

Interchangeable == Permutations(Conns) \cup Permutations(PeerIds) \cup Permutations(Topics)
=============================================================================
