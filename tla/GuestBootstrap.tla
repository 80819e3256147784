---------------------------- MODULE GuestBootstrap ----------------------------
(***************************************************************************)
(* How a guest turns the creator's offer into a project of its own:        *)
(* the bootstrap half of apps/editor-web/src/collab-session.ts with the    *)
(* functions main.ts gives it (applyCollaborativeProject,                  *)
(* rollbackGuestInitialLocal, loadRecord) and the two helpers they call    *)
(* (guest-project-apply.ts, apply-remote-update.ts).  RollingSeal is the   *)
(* other end of the connection.                                            *)
(*                                                                         *)
(* Everything runs on one JavaScript thread, so a step is the code between *)
(* two awaits of a call that a timer, the disk or the VM completes; what   *)
(* runs on in microtasks is part of the step that started it.  "job" is    *)
(* where evaluateGuestBootstrap awaits, "leaving" where the rollback that  *)
(* leave() starts and does not await is.                                   *)
(***************************************************************************)
EXTENDS RollingSeal

CONSTANTS Mine,       \* the guest's own project, open before it joined
          Wrecked,    \* what a VM shows after loadProject failed half way
          Absent,     \* no record on disk
          Broken,     \* contents that do not even materialize
          MaxTrouble  \* failed loads and saves, lost links, frames and sockets,
                      \* and updates the staging guard refuses

ASSUME GuestAssumption ==
  /\ Broken \subseteq Unsealable
  /\ MaxTrouble \in Nat
  /\ Mine \notin Content /\ Wrecked \notin Content /\ Absent \notin Content
  /\ Mine # Wrecked /\ Mine # Absent /\ Wrecked # Absent

VARIABLES
  active,     \* the guest is in the room
  phase,      \* bootstrapPhase; guestReady is phase = "ready" while active
  applied,    \* guestInitialCopyApplied
  changed,    \* stagingChangedDuringGuestApply
  evalTimer,  \* guestEvaluateTimer is armed
  stallTimer, \* stallTimer: off, or the wait it was armed for, short or long
  link,       \* to the creator: up, gap (open, but a frame was lost), down
              \* (its peer went), joining (not yet seen since the last connect)
  lossTimer,  \* peerLossStallTimer is armed
  got,        \* how many of the creator's operations the staging Y.Doc shows
  gotPeer,    \* and how many edits of the other editor
  job,        \* evaluateGuestBootstrap, from its first await to its end
  leaving,    \* rollbackGuestInitialLocal as started by leave()
  vm,         \* the project the Scratch VM shows
  current,    \* the open record: whose it is, and its content in memory
  disk,       \* IndexedDB: the guest's own record and the received copy
  slot,       \* guestInitialRollback is set
  trouble     \* failures so far

netVars   == <<link, lossTimer, got, gotPeer>>
localVars == <<vm, current, disk, slot>>
guestVars == <<active, phase, applied, changed, evalTimer, stallTimer, netVars, job, leaving, vm, current, disk, slot, trouble>>
vars == <<sealVars, guestVars>>

StallTimers == {"off", "short", "long"}

(* bootstrapPhase without "verifying-project", which every task that enters *)
(* it also leaves.                                                          *)
Phases == {"idle", "receiving", "saving", "ready", "stalled", "invalid", "save-failed"}

Idle == [at |-> "idle", update |-> FALSE, next |-> Mine, prev |-> Mine, failed |-> FALSE]

MineOpen == [is |-> "mine", content |-> Mine]
Copy(c)  == [is |-> "copy", content |-> c]

ready == phase = "ready"

(* What the guest's staging document shows.                                 *)
Seen    == SubSeq(log, 1, got)
Staging == [own |-> Edits(Seen), peer |-> gotPeer]

(* validateSealedCheckpoint.  The creator's own edits before a checkpoint   *)
(* have arrived with it; the other editor's may be missing, which is what   *)
(* the state vector is for.                                                 *)
Verdict(seen, content) ==
  LET last == LastCheckpoint(seen)
  IN  IF last.kind # "sealed" \/ content.peer < last.peer THEN "incomplete"
      ELSE IF content \in Broken THEN "invalid"
      ELSE IF content # [own |-> last.own, peer |-> last.peer] THEN "awaiting"
      ELSE "ready"

GuestInit ==
  /\ active = TRUE
  /\ phase = "receiving"
  /\ applied = FALSE
  /\ changed = FALSE
  /\ evalTimer = FALSE
  /\ stallTimer = "short"
  /\ link = "joining"
  /\ lossTimer = FALSE
  /\ got = 0
  /\ gotPeer = 0
  /\ job = Idle
  /\ leaving = "no"
  /\ vm = Mine
  /\ current = MineOpen
  /\ disk = [mine |-> Mine, copy |-> Absent]
  /\ slot = FALSE
  /\ trouble = 0

Init == SealInit /\ GuestInit

-----------------------------------------------------------------------------
(* The clock                                                                *)

MayStall(p) == p \notin {"idle", "ready", "invalid", "save-failed"}

AfterProgress(p) == IF p = "stalled" THEN "receiving" ELSE p

(* currentStallMs: 15 seconds while a peer is connected, 45 or 120 while    *)
(* one is in sight or nobody is.  Which of these a guest that is joining    *)
(* finds is left open.                                                      *)
Armed(l) ==
  CASE l \in {"up", "gap"} -> {"short"}
    [] l = "down"          -> {"long"}
    [] l = "joining"       -> {"short", "long"}

SlipProgressUnwatched(l) ==
  /\ phase' = AfterProgress(phase)
  /\ stallTimer' \in IF MayStall(AfterProgress(phase)) /\ stallTimer # "off"
                     THEN Armed(l) ELSE {"off"}

(* markProgress, over the link l: a stalled guest is receiving again, and   *)
(* the timer restarts or, in a phase that has none, is only cleared.        *)
Progress(l) ==
  /\ phase' = AfterProgress(phase)
  /\ stallTimer' \in IF MayStall(AfterProgress(phase)) THEN Armed(l) ELSE {"off"}

SlipStallOnlyAlone ==
  /\ active /\ stallTimer # "off" /\ link = "joining"
  /\ stallTimer' = "off"
  /\ phase' = IF phase \in {"invalid", "ready"} THEN phase ELSE "stalled"
  /\ UNCHANGED <<active, applied, changed, evalTimer, netVars, job, leaving,
                 localVars, trouble, sealVars>>

(* The timer of armStallTimer, after a silence as long as it was armed for. *)
(* When a short one falls due and no peer is connected, the code may by now *)
(* ask for a longer silence: the timer is then spent for nothing.  A long   *)
(* one is always enough (StallClock has the lengths this leaves out).       *)
StallFires ==
  /\ active /\ stallTimer # "off"
  /\ stallTimer' = "off"
  /\ \/ phase' = IF phase \in {"invalid", "ready"} THEN phase ELSE "stalled"
     \/ stallTimer = "short" /\ link \in {"joining", "down"} /\ UNCHANGED phase
  /\ UNCHANGED <<active, applied, changed, evalTimer, netVars, job, leaving,
                 localVars, trouble, sealVars>>

(* The timer of maybeArmPeerLossStall: the creator stayed away for the      *)
(* grace period.  A guest that is saving by now is not told.                *)
PeerLossFires ==
  /\ active /\ lossTimer
  /\ lossTimer' = FALSE
  /\ phase' = IF phase = "receiving" /\ link \notin {"up", "gap"} THEN "stalled" ELSE phase
  /\ UNCHANGED <<active, applied, changed, evalTimer, stallTimer, link, got, gotPeer, job,
                 leaving, localVars, trouble, sealVars>>

-----------------------------------------------------------------------------
(* Evaluating the staging document                                          *)

(* validateCurrentGuestStaging, on a staging document that is not ready.    *)
(* "from" is the phase it starts in.  A seal not seen before, or more       *)
(* verified assets, count as progress; whether they do is left open.        *)
NotYet(from) ==
  \E p \in {from, AfterProgress(from)} :
    phase' = IF p = "stalled" THEN p ELSE "receiving"

EnterInvalid ==
  /\ phase' = "invalid"
  /\ stallTimer' = "off"

(* One evaluation that found no apply in flight.                            *)
Evaluate(from) ==
  CASE Verdict(Seen, Staging) = "ready" ->
         /\ phase' = "saving"
         /\ stallTimer' \in {stallTimer} \cup Armed(link)
         /\ changed' = FALSE
         /\ job' = [Idle EXCEPT !.at = "flush", !.update = applied, !.next = Staging]
    [] Verdict(Seen, Staging) = "invalid" ->
         /\ EnterInvalid
         /\ changed' = FALSE
         /\ UNCHANGED job
    [] OTHER ->
         /\ NotYet(from)
         /\ stallTimer' \in Armed(link)
         /\ UNCHANGED <<changed, job>>

(* evaluateGuestBootstrap from its timer: the timer is spent even when the  *)
(* guard sends the call home.                                               *)
EvalFires ==
  /\ active /\ evalTimer
  /\ evalTimer' = FALSE
  /\ IF ready \/ job.at # "idle" \/ phase \in {"invalid", "save-failed"}
     THEN UNCHANGED <<phase, stallTimer, changed, job>>
     ELSE Evaluate(phase)
  /\ UNCHANGED <<active, applied, netVars, leaving, localVars, trouble, sealVars>>

-----------------------------------------------------------------------------
(* What arrives                                                             *)

(* onRemoteChange while the guest is not ready.                             *)
StagingChanged ==
  /\ Progress(link)
  /\ evalTimer' = TRUE
  /\ changed' = (changed \/ job.at # "idle")
  /\ UNCHANGED <<active, applied, link, lossTimer, job, leaving, localVars, trouble, sealVars>>

Listening == active /\ ~ready /\ phase # "invalid"

(* One more operation of the creator.  With a frame missing, Yjs keeps what *)
(* follows it aside.                                                        *)
HearCreator ==
  /\ Listening /\ link = "up"
  /\ got < Len(log)
  /\ got' = got + 1
  /\ UNCHANGED gotPeer
  /\ StagingChanged

HearPeer ==
  /\ Listening /\ link \in {"up", "gap"}
  /\ gotPeer < peerEdits
  /\ gotPeer' = gotPeer + 1
  /\ UNCHANGED got
  /\ StagingChanged

(* An update the staging guard refuses.                                     *)
HearInvalid ==
  /\ Listening /\ link \in {"up", "gap"}
  /\ trouble < MaxTrouble
  /\ trouble' = trouble + 1
  /\ EnterInvalid
  /\ changed' = FALSE
  /\ UNCHANGED <<active, applied, evalTimer, netVars, job, leaving, localVars, sealVars>>

(* The data channel opens; the first exchange brings whatever is missing.   *)
LinkOpens ==
  /\ active /\ ~ready /\ hostActive
  /\ link \in {"joining", "down"}
  /\ link' = "up"
  /\ lossTimer' = FALSE
  /\ Progress("up")
  /\ UNCHANGED <<active, applied, changed, evalTimer, got, gotPeer, job, leaving,
                 localVars, trouble, sealVars>>

(* The channel is gone: the last peer, and the grace period starts for a    *)
(* guest that is receiving.  For one that saves or is stalled it does not.  *)
PeerGone ==
  /\ link' = "down"
  /\ lossTimer' = (phase = "receiving")

LinkKeeps == UNCHANGED <<active, phase, applied, changed, evalTimer, stallTimer, got, gotPeer,
                         job, leaving, localVars>>

LinkDrops ==
  /\ active /\ ~ready
  /\ link \in {"up", "gap"}
  /\ trouble < MaxTrouble
  /\ trouble' = trouble + 1
  /\ PeerGone
  /\ LinkKeeps
  /\ UNCHANGED sealVars

FrameLost ==
  /\ active /\ ~ready
  /\ link = "up"
  /\ trouble < MaxTrouble
  /\ trouble' = trouble + 1
  /\ link' = "gap"
  /\ LinkKeeps
  /\ UNCHANGED <<lossTimer, sealVars>>

(* The creator leaves, and its channel with it.                             *)
CreatorLeaves ==
  /\ HostLeaves
  /\ IF link \in {"up", "gap"} THEN PeerGone ELSE UNCHANGED <<link, lossTimer>>
  /\ LinkKeeps
  /\ UNCHANGED trouble

CreatorSteps ==
  /\ HostEdits \/ PeerEdits \/ HostHears \/ SealStarts \/ SealEnds
  /\ UNCHANGED guestVars

SlipCycleWithoutEvaluation(seen) ==
  /\ link' = "joining"
  /\ lossTimer' = FALSE
  /\ stallTimer' \in Armed(seen)
  /\ UNCHANGED <<active, applied, changed, evalTimer, got, gotPeer, job, leaving,
                 localVars, sealVars>>

(* forceTransportReconnect, then a new evaluation.  "seen" is the link as   *)
(* it looks when the timer is armed, just before.                           *)
Cycle(seen) ==
  /\ link' = "joining"
  /\ lossTimer' = FALSE
  /\ stallTimer' \in Armed(seen)
  /\ evalTimer' = TRUE
  /\ UNCHANGED <<active, applied, changed, got, gotPeer, job, leaving, localVars, sealVars>>

(* reconnectBootstrap: the learner presses reconnect.                       *)
Reconnect ==
  /\ active
  /\ phase = "stalled" \/ (phase = "receiving" /\ link \in {"joining", "down"})
  /\ phase' = "receiving"
  /\ UNCHANGED trouble
  /\ Cycle(link)

(* The signaling socket closed and the session reconnects by itself.  The   *)
(* provider has forgotten everybody by then.                                *)
SocketLost ==
  /\ active /\ ~ready /\ phase \notin {"invalid", "save-failed"}
  /\ trouble < MaxTrouble
  /\ trouble' = trouble + 1
  /\ phase' = AfterProgress(phase)
  /\ Cycle(IF link = "joining" THEN "joining" ELSE "down")

-----------------------------------------------------------------------------
(* Applying a validated project                                             *)

Fault == trouble < MaxTrouble /\ trouble' = trouble + 1

At(step)  == job.at = step
Goes(to)  == job' = [job EXCEPT !.at = to] /\ UNCHANGED changed
JobEnds   == job' = Idle /\ changed' = FALSE

JobKeeps == UNCHANGED <<active, evalTimer, netVars, leaving, sealVars>>

(* rollbackTentativeGuestInitial, and the return after it.                  *)
RollBack(tentative) ==
  /\ applied' = FALSE
  /\ slot' = FALSE
  /\ job' = IF tentative THEN [job EXCEPT !.at = "delete"] ELSE Idle
  /\ changed' = (tentative /\ changed /\ phase' # "invalid")

(* The catch clause of evaluateGuestBootstrap.                              *)
Throws ==
  /\ UNCHANGED stallTimer
  /\ IF ~active \/ phase = "invalid"
     THEN RollBack(slot) /\ UNCHANGED phase
     ELSE JobEnds /\ phase' = "save-failed" /\ UNCHANGED <<applied, slot>>

SlipReadyThoughChanged ==
  IF phase = "invalid" THEN RollBack(TRUE) /\ UNCHANGED <<phase, stallTimer>>
  ELSE /\ phase' = "ready"
       /\ stallTimer' = "off"
       /\ applied' = TRUE
       /\ slot' = FALSE
       /\ JobEnds

(* evaluateGuestBootstrap after an apply that was committed: done, once     *)
(* more for what arrived meanwhile, or undone.                              *)
Committed ==
  IF phase = "invalid" THEN RollBack(TRUE) /\ UNCHANGED <<phase, stallTimer>>
  ELSE IF ~changed
  THEN /\ phase' = "ready"
       /\ stallTimer' = "off"
       /\ applied' = TRUE
       /\ slot' = FALSE
       /\ JobEnds
  ELSE CASE Verdict(Seen, Staging) = "ready" ->
              /\ phase' = "saving"
              /\ stallTimer' \in {stallTimer} \cup Armed(link)
              /\ applied' = TRUE
              /\ slot' = TRUE
              /\ changed' = FALSE
              /\ job' = [Idle EXCEPT !.at = "flush", !.update = TRUE, !.next = Staging]
         [] Verdict(Seen, Staging) = "invalid" -> EnterInvalid /\ RollBack(TRUE)
         [] OTHER -> NotYet(phase) /\ stallTimer' \in Armed(link) /\ RollBack(TRUE)

(* saveCoordinator.flush() saves whether or not anything is dirty, unless   *)
(* the project it was made for is no longer the open one.  Its errors end   *)
(* in its state, not here.                                                  *)
FlushTakes ==
  /\ job.update => current.is = "copy" /\ leaving # "reload"
  /\ disk[current.is] # Absent

JobFlushes ==
  /\ At("flush")
  /\ \/ /\ FlushTakes
        /\ disk' = [disk EXCEPT ![current.is] = vm]
        /\ current' = [current EXCEPT !.content = vm]
        /\ UNCHANGED trouble
     \/ Fault /\ UNCHANGED <<disk, current>>
     \/ ~FlushTakes /\ UNCHANGED <<disk, current, trouble>>
  /\ IF active
     THEN job' = [job EXCEPT !.at = "load", !.prev = current'.content] /\ UNCHANGED changed
     ELSE JobEnds
  /\ UNCHANGED <<phase, stallTimer, applied, vm, slot>>
  /\ JobKeeps

(* vm.loadProject of the received project.                                  *)
JobLoads ==
  /\ At("load")
  /\ vm' = job.next
  /\ Goes(IF active THEN "persist" ELSE "restore")
  /\ UNCHANGED <<phase, stallTimer, applied, current, disk, slot, trouble>>
  /\ JobKeeps

SlipLoadFailsUnrestored ==
  /\ At("load")
  /\ Fault
  /\ vm' \in {vm, Wrecked}
  /\ Throws
  /\ UNCHANGED <<current, disk>>
  /\ JobKeeps

(* It fails, before or after it cleared the VM.  The first apply puts the   *)
(* previous project back; an update has not noted that it loaded anything.  *)
JobLoadFails ==
  /\ At("load")
  /\ Fault
  /\ vm' \in {vm, Wrecked}
  /\ IF job.update
     THEN Throws
     ELSE /\ job' = [job EXCEPT !.at = "restore", !.failed = TRUE]
          /\ UNCHANGED <<changed, phase, stallTimer, applied, slot>>
  /\ UNCHANGED <<current, disk>>
  /\ JobKeeps

(* store.createOrReplace of a new record, and of the next revision of the   *)
(* copy: the latter is refused when the copy is gone.                       *)
PersistTakes == job.update => disk.copy # Absent

Commits ==
  /\ current' = Copy(job.next)
  /\ Committed

SlipPersistsAndStays ==
  /\ At("persist")
  /\ PersistTakes
  /\ disk' = [disk EXCEPT !.copy = job.next]
  /\ IF active
     THEN Commits
     ELSE /\ Goes("restore")
          /\ UNCHANGED <<phase, stallTimer, applied, current, slot>>
  /\ UNCHANGED <<vm, trouble>>
  /\ JobKeeps

JobPersists ==
  /\ At("persist")
  /\ PersistTakes
  /\ disk' = [disk EXCEPT !.copy = job.next]
  /\ IF active
     THEN Commits
     ELSE /\ Goes(IF job.update THEN "restore" ELSE "remove")
          /\ UNCHANGED <<phase, stallTimer, applied, current, slot>>
  /\ UNCHANGED <<vm, trouble>>
  /\ JobKeeps

(* The first apply then gives up; an update shows what it could not save.   *)
JobPersistFails ==
  /\ At("persist")
  /\ \/ Fault
     \/ ~PersistTakes /\ UNCHANGED trouble
  /\ IF job.update /\ active
     THEN Commits
     ELSE /\ job' = [job EXCEPT !.at = "restore", !.failed = ~job.update]
          /\ UNCHANGED <<changed, phase, stallTimer, applied, current, slot>>
  /\ UNCHANGED <<vm, disk>>
  /\ JobKeeps

(* The rollback of guest-project-apply.ts: the record, then the VM.         *)
JobRemoves ==
  /\ At("remove")
  /\ disk' = [disk EXCEPT !.copy = Absent]
  /\ Goes("restore")
  /\ UNCHANGED <<phase, stallTimer, applied, vm, current, slot, trouble>>
  /\ JobKeeps

JobRestores ==
  /\ At("restore")
  /\ vm' = job.prev
  /\ IF job.failed
     THEN Throws
     ELSE JobEnds /\ UNCHANGED <<phase, stallTimer, applied, slot>>
  /\ UNCHANGED <<current, disk, trouble>>
  /\ JobKeeps

(* rollbackGuestInitialLocal, awaited by the job.                           *)
JobDeletes ==
  /\ At("delete")
  /\ disk' = [disk EXCEPT !.copy = Absent]
  /\ Goes("reload")
  /\ UNCHANGED <<phase, stallTimer, applied, vm, current, slot, trouble>>
  /\ JobKeeps

JobReloads ==
  /\ At("reload")
  /\ vm' = Mine
  /\ current' = MineOpen
  /\ JobEnds
  /\ UNCHANGED <<phase, stallTimer, applied, disk, slot, trouble>>
  /\ JobKeeps

(* retryLocalSave: the learner presses retry.                               *)
RetrySave ==
  /\ active
  /\ phase = "save-failed" /\ job = Idle
  /\ evalTimer' = FALSE
  /\ Evaluate("receiving")
  /\ UNCHANGED <<active, applied, netVars, leaving, localVars, trouble, sealVars>>

-----------------------------------------------------------------------------
(* Leaving                                                                  *)

SlipLeaveKeepsCopy ==
  /\ active
  /\ active' = FALSE
  /\ phase' = "idle"
  /\ applied' = FALSE
  /\ changed' = FALSE
  /\ evalTimer' = FALSE
  /\ stallTimer' = "off"
  /\ link' = "joining"
  /\ lossTimer' = FALSE
  /\ slot' = FALSE
  /\ UNCHANGED <<got, gotPeer, job, leaving, vm, current, disk, trouble, sealVars>>

(* leave() at the guest, and leaveRoom, which ends the generation: whatever *)
(* the job awaits, it will find the session inactive.                       *)
Leave ==
  /\ active
  /\ active' = FALSE
  /\ phase' = "idle"
  /\ applied' = FALSE
  /\ changed' = FALSE
  /\ evalTimer' = FALSE
  /\ stallTimer' = "off"
  /\ link' = "joining"
  /\ lossTimer' = FALSE
  /\ slot' = FALSE
  /\ leaving' = IF applied /\ ~ready /\ slot THEN "delete" ELSE leaving
  /\ UNCHANGED <<got, gotPeer, job, vm, current, disk, trouble, sealVars>>

LeavingKeeps == UNCHANGED <<active, phase, applied, changed, evalTimer, stallTimer,
                            netVars, job, slot, trouble, sealVars>>

SlipDeletesPrevious ==
  /\ leaving = "delete"
  /\ leaving' = "reload"
  /\ disk' = [disk EXCEPT !.mine = Absent]
  /\ UNCHANGED <<vm, current>>
  /\ LeavingKeeps

LeavingDeletes ==
  /\ leaving = "delete"
  /\ leaving' = "reload"
  /\ disk' = [disk EXCEPT !.copy = Absent]
  /\ UNCHANGED <<vm, current>>
  /\ LeavingKeeps

LeavingReloads ==
  /\ leaving = "reload"
  /\ leaving' = "no"
  /\ vm' = Mine
  /\ current' = MineOpen
  /\ UNCHANGED disk
  /\ LeavingKeeps

Settled == job = Idle /\ leaving = "no"

(* The learner goes on editing after the room; persistCurrent writes what   *)
(* the VM shows under the open record's name.                               *)
EditorSaves ==
  /\ ~active /\ Settled
  /\ disk[current.is] # Absent
  /\ disk' = [disk EXCEPT ![current.is] = vm]
  /\ current' = [current EXCEPT !.content = vm]
  /\ UNCHANGED <<active, phase, applied, changed, evalTimer, stallTimer, netVars,
                 job, leaving, vm, slot, trouble, sealVars>>

-----------------------------------------------------------------------------
JobSteps ==
  \/ JobFlushes \/ JobLoads \/ JobLoadFails \/ JobPersists \/ JobPersistFails
  \/ JobRemoves \/ JobRestores \/ JobDeletes \/ JobReloads

Next ==
  \/ CreatorSteps \/ CreatorLeaves
  \/ HearCreator \/ HearPeer \/ HearInvalid
  \/ LinkOpens \/ LinkDrops \/ FrameLost \/ SocketLost
  \/ EvalFires \/ JobSteps
  \/ StallFires \/ PeerLossFires \/ Reconnect \/ RetrySave
  \/ Leave \/ LeavingDeletes \/ LeavingReloads \/ EditorSaves

Spec == Init /\ [][Next]_vars

(* What runs by itself: timers, the network, the disk and the VM.  Nothing  *)
(* obliges a person to do anything.                                         *)
Runs ==
  /\ WF_vars(HostHears /\ UNCHANGED guestVars)
  /\ WF_vars(SealStarts /\ UNCHANGED guestVars)
  /\ WF_vars(SealEnds /\ UNCHANGED guestVars)
  /\ WF_vars(HearCreator) /\ WF_vars(HearPeer) /\ WF_vars(LinkOpens)
  /\ WF_vars(EvalFires) /\ WF_vars(StallFires) /\ WF_vars(PeerLossFires)
  /\ WF_vars(JobSteps)
  /\ WF_vars(LeavingDeletes) /\ WF_vars(LeavingReloads)

FairSpec == Spec /\ Runs

(* A learner who presses the buttons on offer, over a network that delivers *)
(* if it is reopened again and again.                                       *)
Helped ==
  /\ WF_vars(Reconnect) /\ WF_vars(RetrySave)
  /\ SF_vars(HearCreator) /\ SF_vars(HearPeer)

-----------------------------------------------------------------------------
Contents == Content \cup {Mine, Wrecked}

TypeOK ==
  /\ SealTypeOK
  /\ active \in BOOLEAN
  /\ phase \in Phases
  /\ applied \in BOOLEAN /\ changed \in BOOLEAN
  /\ evalTimer \in BOOLEAN
  /\ stallTimer \in StallTimers
  /\ link \in {"joining", "up", "gap", "down"} /\ lossTimer \in BOOLEAN
  /\ got \in 0..Len(log) /\ gotPeer \in 0..peerEdits
  /\ job \in [at : {"idle", "flush", "load", "persist", "remove", "restore",
                    "delete", "reload"},
              update : BOOLEAN, next : Contents, prev : Contents, failed : BOOLEAN]
  /\ leaving \in {"no", "delete", "reload"}
  /\ vm \in Contents
  /\ current \in [is : {"mine", "copy"}, content : Contents]
  /\ disk \in [mine : Contents, copy : Contents \cup {Absent}]
  /\ slot \in BOOLEAN
  /\ trouble \in 0..MaxTrouble

(* A guest becomes ready only for the latest seal: at that moment the VM    *)
(* shows exactly the staging document, and the last checkpoint in it is a   *)
(* seal of exactly that content, whatever arrived while it was being        *)
(* loaded and saved.                                                        *)
ReadyMatchesSeal ==
  [][~ready /\ ready' => /\ vm' = Staging'
                         /\ Verdict(Seen, Staging)' = "ready"]_vars

(* No step of a bootstrap, however it ends, leaves a stray record: once     *)
(* nothing is running, the received copy is on disk exactly when it is the  *)
(* open project.                                                            *)
NoStrayCopy ==
  Settled => (disk.copy # Absent <=> current.is = "copy")

(* In the room and with nothing running, the VM shows the open project: the *)
(* guest's own until a copy is applied, the copy once it is ready.  Between *)
(* the two, a failed update may have left neither.                          *)
VmShowsOpenProject ==
  active /\ Settled => /\ ~applied => vm = Mine /\ current = MineOpen
                       /\ ready => current = Copy(vm)

(* Leaving before ready undoes what was applied: a guest whose open project *)
(* is the tentative copy when it leaves has an undo under way.              *)
LeavingUndoes ==
  [][active /\ ~active' /\ ~ready /\ current.is = "copy"
       => leaving' = "delete" \/ job.at \in {"delete", "reload"}]_vars

(* A guest that waits for a creator it is or was connected to is watched    *)
(* whatever the order of losses, evaluations and timers that fire: by a     *)
(* silence timer that will not be spent for nothing, or, when that may      *)
(* happen because the creator went, by the timer of its grace period.       *)
WaitingIsWatched ==
  active /\ phase = "receiving"
    => /\ link \in {"up", "gap"} => stallTimer # "off"
       /\ link = "down" => stallTimer = "long" \/ lossTimer

(* Waiting ends: with a creator it is or was connected to, a guest gets out *)
(* of receiving or saving without anyone's help, into ready or into a phase *)
(* that tells the learner what to do.                                       *)
Waits == phase \in {"receiving", "saving"} /\ link # "joining"
WaitingEnds == Waits ~> ~Waits

(* With a learner who presses the buttons, a creator who stays and a        *)
(* project that in the end can be sealed, whoever stays in the room gets it.*)
StaysConnected == <>[](active /\ hostActive)
StaysSealable == <>[](HostContent \notin Unsealable)
EveryoneGetsIn ==
  Helped /\ StaysConnected /\ StaysSealable => <>(ready \/ phase = "invalid")

(* A host edit during bootstrap converges to one final consistent state     *)
(* (docs/superpowers/specs/2026-07-20-p2p-bootstrap-optional-drive-design.md*)
(* 5.2), once nobody leaves, the link stays open and nothing fails.         *)
StaysLinked == <>[](active /\ hostActive /\ link = "up")
ConvergesUnaided == StaysLinked => <>ready

(* Leaving keeps the previous local project (the same document, 8).         *)
OwnProjectKept == disk.mine = Mine

(* A failed save is left by retrying it or by leaving (the same document, 6 *)
(* and 9), so the retry stays on offer.                                     *)
RetryStaysOffered == [][phase = "save-failed" => phase' # "stalled"]_vars
=============================================================================
