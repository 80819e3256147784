----------------------------- MODULE RollingSeal -----------------------------
(***************************************************************************)
(* How the room creator offers its project to those who join               *)
(* (apps/editor-web/src/collab-session.ts and                              *)
(* packages/collaboration-domain/src/bootstrap.ts).                        *)
(*                                                                         *)
(* The creator and one other editor write to a shared Y.Doc.  Each writer's*)
(* operations reach a reader in the order they were made, with no holes; a *)
(* replica is therefore how many operations of each writer it has.  The    *)
(* bootstrap map is written by the creator only, so its writes are part of *)
(* the creator's operations: a log of edits and of the two kinds of        *)
(* checkpoint, "seeding" and "sealed".  A project's content is which edits *)
(* it contains; content hashes and manifests tell two contents apart, and  *)
(* that is all they are used for.                                          *)
(***************************************************************************)
EXTENDS Naturals, Sequences

CONSTANTS MaxEdits,      \* edits the creator makes after opening the room
          MaxPeerEdits,  \* edits of the other, already ready, editor
          Unsealable     \* contents that fail materialize() or the preflight

Content == [own : 0..MaxEdits, peer : 0..MaxPeerEdits]

ASSUME SealAssumption ==
  /\ MaxEdits \in Nat /\ MaxPeerEdits \in Nat
  /\ Unsealable \subseteq Content

VARIABLES
  log,        \* the creator's operations, the bootstrap writes among them
  peerEdits,  \* edits the other editor has made
  hostPeer,   \* how many of them the creator's replica has
  sealTimer,  \* the debounce timer of scheduleRollingSeal is armed
  sealing,    \* publishRollingSeal awaits its tick: no, for the current
              \* generation, or superseded by a newer one
  hostActive  \* the creator is in the room

sealVars == <<log, peerEdits, hostPeer, sealTimer, sealing, hostActive>>

(* Every operation carries the number of edits up to and including it, a    *)
(* checkpoint also the part of the other editor's edits it covers.          *)
Op == [kind : {"edit", "seeding", "sealed"},
       own : 0..MaxEdits, peer : 0..MaxPeerEdits]

Edits(ops) == IF ops = <<>> THEN 0 ELSE ops[Len(ops)].own

HostContent == [own |-> Edits(log), peer |-> hostPeer]

Write(kind) == log' = Append(log, [kind |-> kind, own |-> Edits(log), peer |-> hostPeer])

(* performInitialHostSeal: the project, "seeding" and "sealed" are in the   *)
(* document before the provider connects.  A project that fails the         *)
(* preflight opens no room.                                                 *)
SealInit ==
  /\ log = << [kind |-> "seeding", own |-> 0, peer |-> 0],
              [kind |-> "sealed", own |-> 0, peer |-> 0] >>
  /\ [own |-> 0, peer |-> 0] \notin Unsealable
  /\ peerEdits = 0
  /\ hostPeer = 0
  /\ sealTimer = FALSE
  /\ sealing = "no"
  /\ hostActive = TRUE

SlipEditUnsealed ==
  /\ hostActive
  /\ sealing = "no"
  /\ Edits(log) < MaxEdits
  /\ log' = Append(log, [kind |-> "edit", own |-> Edits(log) + 1, peer |-> hostPeer])
  /\ UNCHANGED <<peerEdits, hostPeer, sealTimer, sealing, hostActive>>

(* pushPendingLocalChanges ends with scheduleRollingSeal.  User events and  *)
(* timers wait for pending microtasks, so not while publishRollingSeal      *)
(* awaits its tick.                                                         *)
HostEdits ==
  /\ hostActive
  /\ sealing = "no"
  /\ Edits(log) < MaxEdits
  /\ log' = Append(log, [kind |-> "edit", own |-> Edits(log) + 1, peer |-> hostPeer])
  /\ sealTimer' = TRUE
  /\ UNCHANGED <<peerEdits, hostPeer, sealing, hostActive>>

PeerEdits ==
  /\ peerEdits < MaxPeerEdits
  /\ peerEdits' = peerEdits + 1
  /\ UNCHANGED <<log, hostPeer, sealTimer, sealing, hostActive>>

SlipHostHearsNoReseal ==
  /\ hostActive /\ hostPeer < peerEdits
  /\ hostPeer' = hostPeer + 1
  /\ UNCHANGED <<log, peerEdits, sealTimer, sealing, hostActive>>

SlipHostHearsTwice ==
  /\ hostActive /\ peerEdits > 0 /\ hostPeer < MaxPeerEdits
  /\ hostPeer' = hostPeer + 1
  /\ sealTimer' = TRUE
  /\ sealing' = IF sealing = "no" THEN "no" ELSE "superseded"
  /\ UNCHANGED <<log, peerEdits, hostActive>>

(* onRemoteChange at the creator: a content change of another editor also   *)
(* schedules a seal.  It may arrive while publishRollingSeal is waiting,    *)
(* whose generation it then supersedes.                                     *)
HostHears ==
  /\ hostActive
  /\ hostPeer < peerEdits
  /\ hostPeer' = hostPeer + 1
  /\ sealTimer' = TRUE
  /\ sealing' = IF sealing = "no" THEN "no" ELSE "superseded"
  /\ UNCHANGED <<log, peerEdits, hostActive>>

(* publishRollingSeal up to its await.                                      *)
SealStarts ==
  /\ hostActive
  /\ sealTimer
  /\ sealing = "no"
  /\ Write("seeding")
  /\ sealTimer' = FALSE
  /\ sealing' = "current"
  /\ UNCHANGED <<peerEdits, hostPeer, hostActive>>

MaySeal == sealing = "current" /\ HostContent \notin Unsealable

(* The rest of it: a superseded generation, and a document that does not    *)
(* materialize or fails the preflight, leave the checkpoint at "seeding".   *)
SealEnds ==
  /\ sealing # "no"
  /\ sealing' = "no"
  /\ IF MaySeal THEN Write("sealed") ELSE UNCHANGED log
  /\ UNCHANGED <<peerEdits, hostPeer, sealTimer, hostActive>>

(* leave() at the creator clears the seal timer; no checkpoint follows.     *)
HostLeaves ==
  /\ hostActive
  /\ sealing = "no"
  /\ hostActive' = FALSE
  /\ sealTimer' = FALSE
  /\ UNCHANGED <<log, peerEdits, hostPeer, sealing>>

SealNext ==
  HostEdits \/ PeerEdits \/ HostHears \/ SealStarts \/ SealEnds \/ HostLeaves

SealSpec == SealInit /\ [][SealNext]_sealVars

(* The network delivers and timers fire; nobody has to edit.                *)
SealFairSpec ==
  SealSpec /\ WF_sealVars(HostHears) /\ WF_sealVars(SealStarts) /\ WF_sealVars(SealEnds)

-----------------------------------------------------------------------------
SealTypeOK ==
  /\ log \in Seq(Op)
  /\ peerEdits \in 0..MaxPeerEdits
  /\ hostPeer \in 0..peerEdits
  /\ sealTimer \in BOOLEAN
  /\ sealing \in {"no", "current", "superseded"}
  /\ hostActive \in BOOLEAN

(* The checkpoint a reader of these operations sees, "none" before one.     *)
LastCheckpoint(ops) ==
  LET at == {i \in DOMAIN ops : ops[i].kind # "edit"}
  IN  IF at = {} THEN [kind |-> "none", own |-> 0, peer |-> 0]
      ELSE ops[CHOOSE i \in at : \A j \in at : j <= i]

(* The last checkpoint covers everything the creator has, or says that one  *)
(* is being prepared, which it may say for good only of a project that      *)
(* cannot be sealed.                                                        *)
OfferCovers ==
  LET last == LastCheckpoint(log)
  IN  IF last.kind = "sealed"
      THEN [own |-> last.own, peer |-> last.peer] = HostContent
      ELSE HostContent \in Unsealable

(* A room never rests on an outdated offer: unless a seal is scheduled or   *)
(* under way, the last checkpoint covers what the creator shows.            *)
OfferIsCurrent == hostActive /\ ~sealTimer /\ sealing = "no" => OfferCovers

(* Edits end, and some time later the offer covers them all, those of the   *)
(* other editor that arrived during a seal included.                        *)
OfferSettles == <>[](hostActive => OfferCovers /\ hostPeer = peerEdits)
=============================================================================
