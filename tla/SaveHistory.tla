---------------------------- MODULE SaveHistory ----------------------------
(***************************************************************************)
(* What saving a project to the server promises: one line of revisions, in *)
(* which the edits of a client appear in their order, each at most once,   *)
(* and never on top of something the client has not seen.  How this is     *)
(* done, with retries and a network that loses answers, is in Autosave.    *)
(***************************************************************************)
EXTENDS Naturals, Sequences

CONSTANT Documents   \* what others may write

VARIABLES
    made,      \* how many edits the client has made
    history    \* the revisions after the empty one: who wrote which document

vars == <<made, history>>

Own(i) == history[i].by = "client"

Init ==
    /\ made = 0
    /\ history = <<>>

\* The client edits its project.
Make ==
    /\ made' = made + 1
    /\ UNCHANGED history

\* An edit newer than all that were written is written.  The client has seen
\* nothing but its own revisions, so somebody else's must not be the last.
Write(e) ==
    /\ \A i \in DOMAIN history : Own(i) => history[i].doc < e
    /\ history # <<>> => Own(Len(history))
    /\ history' = Append(history, [by |-> "client", doc |-> e])
    /\ UNCHANGED made

\* Somebody else saves a document or restores one.
OtherWrites ==
    /\ \E d \in Documents : history' = Append(history, [by |-> "other", doc |-> d])
    /\ UNCHANGED made

Next ==
    \/ Make
    \/ \E e \in 1..made : Write(e)
    \/ OtherWrites

Spec == Init /\ [][Next]_vars
=============================================================================
