------------------------------ MODULE StallClock ------------------------------
(***************************************************************************)
(* The two timers that tell a waiting guest that nothing comes             *)
(* (apps/editor-web/src/collab-session.ts): one for silence, whose length  *)
(* depends on who is in sight, and one for a peer that went away.  What    *)
(* GuestBootstrap leaves to chance is measured here.  Of the project there *)
(* is what the timers look at: whether the guest is saving a copy of it,   *)
(* which no grace period interrupts.  How a save goes and what it finds    *)
(* afterwards is left open; a guest that is ready, or that refused the     *)
(* project, has no timer and is not modelled further.                      *)
(***************************************************************************)
EXTENDS Naturals

CONSTANTS Short,  \* stallInactivityMs
          Ice,    \* ICE_NEGOTIATION_STALL_MS, at least Short
          Empty,  \* EMPTY_ROOM_STALL_MS, at least Ice
          Grace,  \* PEER_LOSS_STALL_GRACE_MS
          Off     \* a timer that is not armed

ASSUME ClockAssumption ==
  /\ Short \in Nat \ {0} /\ Ice \in Nat /\ Empty \in Nat /\ Grace \in Nat \ {0}
  /\ Grace < Short /\ Short <= Ice /\ Ice <= Empty
  /\ Off \notin Nat

VARIABLES
  phase,      \* bootstrapPhase: receiving, saving, failed (to save) or stalled
  silent,     \* time since lastProgressAt
  stallIn,    \* what is left of stallTimer
  lossIn,     \* what is left of peerLossStallTimer
  toEvaluate, \* guestEvaluateTimer is armed: for less than a unit of the clock
  applying,   \* guestApplyInFlight: no, yes, changed (yes, and what is applied
              \* is outdated), undoing (rollbackTentativeGuestInitial is awaited)
  online,     \* the provider is connected or connecting
  joined,     \* provider.hasJoinedTopic()
  roster,     \* provider.getSignalingPeers() is not empty
  peers,      \* provider.getPeers() is not empty
  sawRoster,  \* sawSignalingPeer
  sawPeer,    \* sawPeerDuringBootstrap
  alone,      \* how long peers has been empty (not in the code)
  busy        \* since then, the guest saved or was not receiving (not in the code)

project == <<toEvaluate, applying>>
sights  == <<online, joined, roster, peers, sawRoster, sawPeer>>
absence == <<alone, busy>>
vars    == <<phase, silent, stallIn, lossIn, project, sights, absence>>

Limit == Empty + 1  \* clocks stop here

Later(t) == IF t < Limit THEN t + 1 ELSE t
Sooner(t) == IF t = Off THEN Off ELSE t - 1

SlipWaitsAddUp(inTopic, seen, near, everSeen) ==
  Short + (IF everSeen /\ ~near THEN Ice ELSE 0) + (IF inTopic /\ ~seen THEN Empty ELSE 0)

(* currentStallMs, given who is in sight.                                   *)
CurrentStall(inTopic, seen, near, everSeen) ==
  IF everSeen /\ ~near THEN Ice
  ELSE IF inTopic /\ ~seen THEN Empty
  ELSE Short

(* armStallTimer: after a failed save there is nothing to wait for.         *)
Arm(inTopic, seen, near, everSeen) ==
  stallIn' = IF phase' = "failed" THEN Off ELSE CurrentStall(inTopic, seen, near, everSeen)

(* start() as a guest: the timer is armed before the provider connects.     *)
Init ==
  /\ phase = "receiving"
  /\ silent = 0
  /\ stallIn = Short
  /\ lossIn = Off
  /\ toEvaluate = FALSE /\ applying = "no"
  /\ online = TRUE /\ joined = FALSE /\ roster = FALSE /\ peers = FALSE
  /\ sawRoster = FALSE /\ sawPeer = FALSE
  /\ alone = 0 /\ busy = FALSE

Tick ==
  /\ stallIn # 0 /\ lossIn # 0 /\ ~toEvaluate
  /\ stallIn' = Sooner(stallIn)
  /\ lossIn' = Sooner(lossIn)
  /\ silent' = Later(silent)
  /\ alone' = IF peers THEN 0 ELSE Later(alone)
  /\ UNCHANGED <<phase, project, sights, busy>>

-----------------------------------------------------------------------------
(* Who is in sight                                                          *)

(* The provider's "signaling" event that brings no loss: only the first     *)
(* sighting of anyone is progress.                                          *)
Signaling(seen) ==
  /\ joined' = TRUE
  /\ roster' = seen
  /\ UNCHANGED <<phase, lossIn, project, online, peers, sawPeer, absence>>
  /\ IF seen /\ ~sawRoster
     THEN sawRoster' = TRUE /\ silent' = 0 /\ Arm(TRUE, TRUE, peers, TRUE)
     ELSE UNCHANGED <<sawRoster, silent, stallIn>>

JoinsTopic  == online /\ ~joined /\ \E seen \in BOOLEAN : Signaling(seen)
RosterFills == joined /\ ~roster /\ Signaling(TRUE)

(* markProgress.                                                            *)
Progress ==
  /\ phase' = IF phase = "stalled" THEN "receiving" ELSE phase
  /\ silent' = 0

SlipPeerOpensUncleared ==
  /\ joined /\ roster
  /\ peers' = TRUE /\ sawPeer' = TRUE
  /\ Progress
  /\ Arm(joined, roster, TRUE, sawRoster)
  /\ alone' = 0 /\ busy' = FALSE
  /\ UNCHANGED <<lossIn, project, online, joined, roster, sawRoster>>

(* The "peers" event with somebody there.                                   *)
PeerOpens ==
  /\ joined /\ roster
  /\ peers' = TRUE /\ sawPeer' = TRUE
  /\ Progress
  /\ Arm(joined, roster, TRUE, sawRoster)
  /\ lossIn' = Off
  /\ alone' = 0 /\ busy' = FALSE
  /\ UNCHANGED <<project, online, joined, roster, sawRoster>>

(* A grace period that runs already runs on.                                *)
AfterLoss(counts) == IF ~counts THEN Off ELSE IF lossIn = Off THEN Grace ELSE lossIn

Saving == applying \in {"yes", "changed"}

(* The absence of peers begins, unless there were none.                     *)
AbsenceBegins ==
  /\ alone' = IF peers THEN 0 ELSE alone
  /\ busy' = IF peers THEN phase # "receiving" \/ Saving ELSE busy

SlipLossOnlyOnLeave(hub) ==
  /\ peers' = FALSE
  /\ AbsenceBegins
  /\ lossIn' = IF peers THEN AfterLoss(sawPeer /\ phase = "receiving" /\ hub) ELSE lossIn
  /\ UNCHANGED <<phase, silent, stallIn, project, online, joined, sawRoster, sawPeer>>

(* The "peers" event with nobody left: maybeArmPeerLossStall.  A guest that *)
(* is saving or stalled gets no grace period.  "hub" is whether the hub     *)
(* says so or the connection does.                                          *)
NobodyLeft(hub) ==
  /\ peers' = FALSE
  /\ AbsenceBegins
  /\ lossIn' = IF peers THEN AfterLoss(sawPeer /\ phase = "receiving") ELSE lossIn
  /\ UNCHANGED <<phase, silent, stallIn, project, online, joined, sawRoster, sawPeer>>

PeerCloses    == peers /\ NobodyLeft(FALSE) /\ UNCHANGED roster
RosterEmpties == roster /\ NobodyLeft(TRUE) /\ roster' = FALSE

-----------------------------------------------------------------------------
(* The project                                                              *)

(* Bytes of the project.                                                    *)
Bytes ==
  /\ peers
  /\ Progress
  /\ Arm(joined, roster, TRUE, sawRoster)
  /\ toEvaluate' = TRUE
  /\ applying' = IF applying = "yes" THEN "changed" ELSE applying
  /\ UNCHANGED <<lossIn, sights, absence>>

(* validateCurrentGuestStaging, of a guest in phase "from": "news" is a     *)
(* seal or assets not seen before, which count as progress.  A document     *)
(* that is not ready makes the guest receive, or go on being stalled ...    *)
NotYet(from, news) ==
  /\ phase' = IF from = "stalled" /\ ~news THEN "stalled" ELSE "receiving"
  /\ silent' = IF news THEN 0 ELSE silent
  /\ Arm(joined, roster, peers, sawRoster)
  /\ UNCHANGED <<lossIn, sights, absence>>

(* ... and one that is ready is applied and saved.                          *)
StartsSave(news) ==
  /\ phase' = "saving"
  /\ applying' = "yes"
  /\ busy' = TRUE
  /\ IF news
     THEN silent' = 0 /\ Arm(joined, roster, peers, sawRoster)
     ELSE UNCHANGED <<silent, stallIn>>
  /\ UNCHANGED <<lossIn, sights, alone>>

(* evaluateGuestBootstrap from its timer, which is spent even when the      *)
(* guard sends the call home.                                               *)
Evaluates ==
  /\ toEvaluate
  /\ toEvaluate' = FALSE
  /\ IF applying # "no" \/ phase = "failed"
     THEN UNCHANGED <<phase, silent, stallIn, lossIn, applying, sights, absence>>
     ELSE \E news \in BOOLEAN :
            \/ NotYet(phase, news) /\ UNCHANGED applying
            \/ StartsSave(news)

(* An apply was committed and the document changed meanwhile: once more, or *)
(* undone when the document is not ready.  (With no change the guest is     *)
(* ready.)                                                                  *)
SaveOutdated ==
  /\ applying = "changed"
  /\ \E news \in BOOLEAN :
       \/ NotYet(phase, news) /\ applying' = "undoing"
       \/ StartsSave(news)
  /\ UNCHANGED toEvaluate

SaveUndone ==
  /\ applying = "undoing"
  /\ applying' = "no"
  /\ UNCHANGED <<phase, silent, stallIn, lossIn, toEvaluate, sights, absence>>

SaveFails ==
  /\ Saving
  /\ phase' = "failed"
  /\ applying' = "no"
  /\ UNCHANGED <<silent, stallIn, lossIn, toEvaluate, sights, absence>>

(* retryLocalSave evaluates at once.                                        *)
RetrySave ==
  /\ phase = "failed"
  /\ toEvaluate' = FALSE
  /\ \E news \in BOOLEAN :
       \/ NotYet("receiving", news) /\ UNCHANGED applying
       \/ StartsSave(news)

-----------------------------------------------------------------------------
(* The timers and the connection                                            *)

(* The silence timer falls due, in whatever phase.                          *)
StallDue ==
  /\ stallIn = 0
  /\ stallIn' = Off
  /\ phase' = IF silent >= CurrentStall(joined, roster, peers, sawRoster)
              THEN "stalled" ELSE phase
  /\ UNCHANGED <<silent, lossIn, project, sights, absence>>

LossDue ==
  /\ lossIn = 0
  /\ lossIn' = Off
  /\ phase' = IF phase = "receiving" /\ ~peers THEN "stalled" ELSE phase
  /\ UNCHANGED <<silent, stallIn, project, sights, absence>>

(* Nobody is in sight any more, and there is no grace for it.               *)
ForgetEverybody ==
  /\ joined' = FALSE /\ roster' = FALSE /\ peers' = FALSE
  /\ lossIn' = Off
  /\ AbsenceBegins
  /\ UNCHANGED <<applying, sawRoster>>

(* forceTransportReconnect, and a new evaluation.                           *)
Cycle ==
  /\ silent' = 0
  /\ online' = TRUE
  /\ sawPeer' = FALSE
  /\ toEvaluate' = TRUE
  /\ ForgetEverybody

(* reconnectBootstrap arms the timer while it still sees the old peers.     *)
Reconnect ==
  /\ phase = "stalled" \/ (phase = "receiving" /\ ~peers)
  /\ phase' = "receiving"
  /\ Arm(joined, roster, peers, sawRoster)
  /\ Cycle

(* The socket closed, and the session reconnects by itself: the provider    *)
(* has already forgotten everybody.                                         *)
SocketLost ==
  /\ online
  /\ phase # "failed"
  /\ phase' = IF phase = "stalled" THEN "receiving" ELSE phase
  /\ Arm(FALSE, FALSE, FALSE, sawRoster)
  /\ Cycle

(* It does not after a failed save, nor when it did so too often without    *)
(* meeting anyone (MAX_SIGNALING_AUTO_RECONNECTS).                          *)
SocketStaysLost ==
  /\ online
  /\ phase = "failed" \/ (~peers /\ ~sawPeer)
  /\ online' = FALSE
  /\ ForgetEverybody
  /\ UNCHANGED <<phase, silent, stallIn, toEvaluate, sawPeer>>

Next ==
  \/ Tick \/ JoinsTopic \/ RosterFills \/ RosterEmpties \/ PeerOpens \/ PeerCloses
  \/ Bytes \/ Evaluates \/ SaveOutdated \/ SaveUndone \/ SaveFails \/ RetrySave
  \/ StallDue \/ LossDue \/ Reconnect \/ SocketLost \/ SocketStaysLost

Spec == Init /\ [][Next]_vars

-----------------------------------------------------------------------------
TypeOK ==
  /\ phase \in {"receiving", "saving", "failed", "stalled"}
  /\ silent \in 0..Limit /\ alone \in 0..Limit
  /\ stallIn \in 0..Empty \cup {Off}
  /\ lossIn \in 0..Grace \cup {Off}
  /\ toEvaluate \in BOOLEAN /\ applying \in {"no", "yes", "changed", "undoing"}
  /\ online \in BOOLEAN /\ joined \in BOOLEAN /\ roster \in BOOLEAN /\ peers \in BOOLEAN
  /\ sawRoster \in BOOLEAN /\ sawPeer \in BOOLEAN /\ busy \in BOOLEAN

(* Brief flaps of the peer list are absorbed: a guest is told that nothing  *)
(* comes only after the shortest silence, or when the peer it had has been  *)
(* away for the whole grace period without a break.                         *)
FlapsAreAbsorbed ==
  [][phase # "stalled" /\ phase' = "stalled"
       => silent >= Short \/ (~peers /\ alone >= Grace)]_vars

(* The silence timer will fall due within Ice, and will be accepted then.   *)
SilenceWillTell == stallIn # Off /\ stallIn <= Ice /\ silent + stallIn >= Ice

(* A receiving guest that had a peer and lost it is told: within the grace  *)
(* period if it was receiving all the time since; if it saved a copy in     *)
(* between, or was stalled or had failed when the peer went, possibly only  *)
(* by the silence timer, which then must be armed and long enough.          *)
LossIsReported ==
  phase = "receiving" /\ sawPeer /\ ~peers
    => IF busy THEN lossIn # Off \/ SilenceWillTell ELSE alone <= Grace

(* A guest in an empty room waits longer for the creator, but not forever:  *)
(* no silence outlasts the longest of the three waits (collab-session.ts,   *)
(* the comments on its constants).                                          *)
SilenceIsReported == phase = "receiving" => silent <= Empty
=============================================================================
