--------------------------- MODULE MCGuestBootstrap ---------------------------
(* GuestBootstrap for TLC: two edits of the creator, one of another editor. *)
EXTENDS GuestBootstrap

First == [own |-> 1, peer |-> 0]
Last == [own |-> 2, peer |-> 1]
NoContent == {}
Unfit == {First, Last}
Malformed == {Last}
Bad == {First}
=============================================================================
