# Syncratch in TLA+

Syncratch (the repository also calls it BlockSync) is a local-first editor for
Scratch projects in which several learners edit one project over WebRTC. This
directory holds TLA+ models of its collaboration core and of the ways a project
is saved, the TLC runs that check them on small instances, and TLAPS proofs of the
properties that matter most.

```
tlc -workers 2 -config MCGuestBootstrap_Copy.cfg MCGuestBootstrap
tlapm GuestBootstrapProofs.tla
```

## 1. The system and its parts

| Part | Where | State it keeps | Operations |
|---|---|---|---|
| Signaling hub | `packages/collab-signaling` | members by connection, rooms by topic and peer id, a message meter per member | connect, join, signal, ping, close, error, idle sweep |
| WebRTC provider and transport | `packages/collab-webrtc` | peer connections, roster, opened peers, relay fallback, reassembly buffers | connect, offer/answer/ICE, frames, relay, disconnect |
| Project Y.Doc | `packages/collaboration-domain` | CRDT of targets, blocks, assets, the `bootstrap` map | load, apply update, materialize, seal, validate |
| Collaboration session | `apps/editor-web/src/collab-session.ts` | bootstrap phase, five timers, flags of the apply in flight, pending local changes, leadership | start, leave, remote change, evaluate, seal, apply, retry, reconnect |
| Editor glue | `apps/editor-web/src/main.ts` with `guest-project-apply.ts`, `apply-remote-update.ts`, `load-record.ts`, `save-coordinator.ts` | the open record, the Scratch VM, the rollback slot, the save coordinator | apply, rollback, load, save |
| Local stores | `packages/project-store-idb`, `project-local-core` | records with revisions | create-or-replace with a revision check, delete, list |
| Autosave and server | `packages/project-autosave`, `project-service`, `project-store-sqlite`, `project-assets-fs`, `apps/r1-persist-server` | pending document, transaction ids, revisions, assets, leases, locks | save, retry, commit, collect garbage |
| Sessions | `packages/session-service`, `auth-context` | sessions, expiry, revocation | create, rotate, revoke |
| Drive sync | `packages/google-drive-sync`, `drive-integration.ts`, `packages/collab-leader` | observed file version, dirty flags, leader | observe, upload, conflict copy, hand over |
| Classroom host | `apps/collab-host` | rosters, students, submissions, OAuth grants in SQLite | import, log in, submit, migrate |
| Execution control and rewind | `execution-control.ts`, `execution-rewind*.ts` | paused threads, ring of snapshots | pause, step, rewind |
| Pure parts | `project-schema`, `project-envelope`, `sb3-tools`, `scratch-adapter`, `diagnostics-core`, `collab-invite` | none | validate, convert, hash, encode |
| Interface, AI help, demos | rest of `apps/`, `packages/ai-assist` | interface state | rendering, prompts |

How they interact. A creator opens a room: its session seals the project into
the shared document before it connects. A guest's transport joins the hub under
a topic derived from the invite; the hub tells each client who shares its room;
transports connect to one another and exchange Yjs updates. The guest's session
validates what has arrived against the latest seal, loads it into the VM and
writes it as a new record through functions of `main.ts`. After that both edit
the same document; what one edits is pushed into it after a debounce and loaded
into the other's VM. Each saves on its own: to IndexedDB, to the server by
autosave, or to Drive, which in a room only its creator does
(`canPersistToDrive`); who leads the room is shown, and makes the new leader look at
Drive, but allows nobody to save. The server keeps revisions, snapshots and the asset
files they refer to, and collects the files nothing refers to when it boots.

What is hard here. All code of one peer runs on one JavaScript thread, so its
races are between awaits: a timer or a message runs while an apply waits for the
disk or the VM. Between peers, messages of one writer arrive in order or, after
a loss, stop making sense until the next connection, and the path they take
changes between hub and data channel. The server writes files and rows that no
transaction spans, beside other processes on the same directory. Drive offers no
conditional update. The hub sees sockets whose
errors and closes come late and in any order. And nearly everything is watched
by timers whose length depends on state that changes while they run.

What makes each part correct:

- *hub*: its maps agree, its limits bound them, clients know who is there,
  nobody loses a seat to somebody else's late event, abandoned seats return;
- *creator*: it never rests on an outdated offer;
- *guest*: ready means the latest seal, on show and saved; whatever fails or is
  abandoned half way leaves the guest's own project in place and no stray copy;
  waiting is reported and ends;
- *timers*: what should be reported is, what should be absorbed is;
- *transport*: whoever is in the room is open, whoever left is not, and the two
  documents agree whatever path the wires took;
- *live editing*: all screens end up the same, a learner's edit does not vanish
  under somebody else's, and peers do not echo one another;
- *saving to the server*: one line of revisions, each edit at most once and in
  order, never over somebody else's; an edit is saved or its failure shown;
- *assets*: what a revision refers to is there;
- *Drive*: a save replaces only what the tab has seen, as far as Drive allows it;
  an edit the autosave noted arrives.

## 2. Modules

| Module | Models | Checked by | Proved in |
|---|---|---|---|
| `SignalingHub` | `hub.ts` and the socket events of `server.ts` | `MCSignalingHub` | `SignalingHubProofs` |
| `PeerLink` | the transport of two clients between hub and data channel, and the provider's sync over it | `MCPeerLink` | `PeerLinkProofs` |
| `RollingSeal` | the creator's side of the bootstrap | with `GuestBootstrap` | `GuestBootstrapProofs` |
| `GuestBootstrap` (extends `RollingSeal`) | the guest's side, and with it the whole bootstrap | `MCGuestBootstrap` | `GuestBootstrapProofs` |
| `StallClock` | the two stall timers, with time | `MCStallClock` | `StallClockProofs` |
| `LiveEdit` | editing together after ready | `MCLiveEdit` | `LiveEditProofs` |
| `SaveHistory` | abstract: what saving to the server promises | refined by `Autosave` | `AutosaveProofs` |
| `ProjectService` | revisions, snapshots and answers of the server | with `Autosave` | `AutosaveProofs` |
| `Autosave` (extends `ProjectService`) | the client that saves by itself, over a lossy network | `MCAutosave` | `AutosaveProofs` |
| `AssetCollector` | asset rows and files, imports, saves, collectors | `MCAssetCollector` | `AssetCollectorProofs` |
| `DriveSync` | one tab and its file on Drive, beside others | `MCDriveSync` | `DriveSyncProofs` |

Definitions named `Slip*` are deliberate mistakes that no action uses. Each is a
wrong version of the definition after it, there to show that the property it is
paired with in `PROJECT.json` can fail.

### SignalingHub

`members`, `seat`, `topics` and `rooms` are the hub's two maps, kept apart as the
code keeps them; `meter` is a member's idle time and rate window. `told` is not
in the hub: it is what the messages a client received amount to. `socket` is the
state of the WebSocket, whose `error` and `close` events arrive at any time after
the hub has forgotten the connection.

Each message is one action: refused and accepted joins, the replacement of a
stale seat, counted and uncounted messages, the two protocol violations that
close a connection. `HandleClose` takes a set so that one sweep closes all
expired members in one step, as `sweepIdle` does. Time is relative and saturated
one tick past the largest limit, so the clock needs no bound. Connection ids are
reused after a close; the server never reuses one, but nothing refers to a
closed one, and this keeps reconnecting unbounded.

### RollingSeal

A content is which edits it contains: how many of the creator's and how many of
the other editor's. Hashes, manifests and state vectors of the code tell contents
apart and order them, which the pair of numbers does. `log` is the sequence of
the creator's operations, edits and checkpoints, because a reader gets them in
that order. `sealing` is the one await of `publishRollingSeal`: a remote change
that arrives in it supersedes the generation. `Unsealable` is the set of contents
that fail `materialize()` or the preflight; the proofs hold for any such set.

### GuestBootstrap

The actions are the code between two awaits. `job` is the program counter of
`evaluateGuestBootstrap` with the locals it carries across awaits:

| `job.at` | awaits |
|---|---|
| `flush` | `saveCoordinator.flush()` in `applyCollaborativeProject` |
| `load` | `vm.loadProject` of the received project |
| `persist` | `store.createOrReplace` |
| `remove`, `restore` | the rollbacks inside `applyGuestInitialProject` and `applyRemoteProjectUpdate` |
| `delete`, `reload` | `rollbackGuestInitialLocal`, awaited after a commit that must be undone |

`leaving` is the same rollback when `leave()` starts it and does not await it;
the two run side by side, which is where the most delicate states are. What runs
on in microtasks after an await is part of the step that the await ends.

`disk` has the guest's own record and the received copy; `current` is the open
record with its content in memory, `vm` what the VM shows. A `loadProject` that
fails may have left the VM as it was or `Wrecked`.

Abstractions, all of which keep more behaviours than the code or leave out what
the properties do not tell apart:

- one session of one guest, from joining to leaving; it had a project open;
- `verifying-project` is entered and left in one task and is not a state here;
- the verdicts `incomplete-vector` and `missing-assets` lead to the same code and
  are one;
- whether an evaluation counts as progress is left open;
- the five automatic reconnects are bounded by `MaxTrouble` instead;
- deletes, and loads that put a previous project back, do not fail;
- the other editor is ready already and its edits reach the guest directly;
- time is in `StallClock`: here a timer may fire whenever it is armed, and
  `stallTimer` has the wait it was armed for, `short` (15 seconds) or `long` (45 or
  120). A short one that falls due with no peer connected, on the way to one (`joining`)
  or after its loss (`down`), may find that a longer silence is asked for by now and is
  then spent without a report (`armStallTimer`, line 685); a long one always reports.

`lossTimer` is the grace timer, which starts when the last peer goes and the guest is
receiving, and reports if it still is. So a guest whose peer went may be without a
silence timer, and `WaitingIsWatched` counts the grace timer as a watch there, as
`WaitingEnds` needs it to fire.

### StallClock

What `GuestBootstrap` leaves to chance: the length of the silence timer is
computed when it is armed and once more when it fires, from who is in sight at
that moment. Every order of roster, peer and byte events is allowed, automatic and
manual reconnects included, and those that do not come (`SocketStaysLost`: after a
failed save, or too many in vain).

Of the project there is what the timers look at. `phase` is receiving, saving,
failed (`local-save-failed`) or stalled; `applying` is `guestApplyInFlight`, with what
has arrived meanwhile and the rollback that is awaited; `toEvaluate` the evaluation
that bytes or a reconnect schedule, less than a unit of the clock away. Whether an
evaluation finds the document ready, or counts as progress, is open. A guest that is
ready, or refused the project, is not followed further.

While a copy is being saved, a lost peer starts no grace period and one that runs out
is not heard (`maybeArmPeerLossStall`), and a save whose document has changed may end
in receiving again, with nobody there. `alone` and `busy` are observers: how long
there has been no peer, and whether the guest was saving, stalled or failed when it
went or has saved since. `LossIsReported` promises the grace period to a guest that was
not busy; of one that was it says that the grace timer runs or the silence timer is
armed and will be accepted when it fires, at the latest after the wait for an ICE
negotiation (45 seconds).

### PeerLink

`link[p][q]` is what the transport of `p` knows of `q`: in the roster, in
`openedPeers`, and the peer entry with its channel, retry counter and timer.
`stage` orders the offer/answer exchange; the awaits inside it are steps of their
own (`SendOffer`, `SendAnswer`), so an entry can be torn down in between. `mail` is
what the hub sent and has not been heard; `pipe` what is on a data channel. The
documents of the two are sets of numbered edits of which only those without a hole
show, as in Yjs; `gaps` is an observer of what died with a channel.

A channel connects if ICE wants it to, closes, or fails. An answer nobody waits for
makes an entry all the same (`zombie`: `createPeer(from, false)` in the answer
branch of `onSignal`), and an answer to another offer leaves one `stuck`; both are
in the model. After a channel has closed without failing, no new offer is made: the
pair stays on the relay. Presence, ICE candidates and the framing of long messages
are left out. The hub is the forwarding part of `SignalingHub`, without its limits.

### LiveEdit

A cell is a block or a field of one sprite. `doc` is each peer's replica, where the
last writer of a key wins in the order Yjs gives concurrent items; `vm` the screen;
`base` the baseline `lastLocalTargetJson`; `pending` the snapshot that waits to be
pushed. `job` is the program counter of `runApplyToLocal` with its three awaits
(flush, load, persist) and what it loads, `running` the learner running the project,
which holds applies back. `mergePendingTarget` and `diffBlocks` are the operators
`Merged` and `Patched`.

Replicas are exchanged whole: a delivery takes another peer's present replica, which
is what Yjs updates amount to once they have all arrived. What the code does not see to
is outside what is claimed, and the model records it:

- a cell edited while an apply is under way (`suppressLocal` makes
  `noteLocalChange` return), or by an edit that takes the sprite back to the baseline
  (`capturePendingLocalChanges` then keeps the snapshot it made before, which is pushed
  all the same): it is `unseen` until the learner's next edit is noted or the sprite is
  loaded;
- an unseen cell that the end of an apply takes into the baseline without anybody having
  pushed it: it is `swallowed` until it is edited and pushed, or loaded;
- a peer whose last apply failed, which nothing repeats (`stale`): it shows what it
  showed or, if the VM had been cleared for the load already, none of the cells, and
  what its learner edits then is pushed from there. That the sprite as a whole is
  missing then, which the next edit would note as its deletion, is left out with the
  deletion of sprites.

### ProjectService, Autosave and SaveHistory

`ProjectService` answers a request in one step, since the handler commits in one
immediate transaction: the transaction id is looked up first, then the revision is
compared. A snapshot is two steps, file and row, with a crash (`Restart`) or the
sweep of a second booting server possible between them. `Autosave` is the
controller of `project-autosave`, with every call of `runSave` a process of its own:
several may wait for the save in flight and all go on in the same turn. A request or
an answer may be lost, and a request given up may arrive late (`wire`).
The function that saves is assumed to pass the code of a refusal on; the client of the
r1-scratch host loses it (`persist-client.ts:49-51`), so that there a refusal ends in
the generic error branch, as `Fails` does.

`SaveHistory` is what this promises: one list of revisions, in which the client's
edits appear in their order, at most once each, and never on top of somebody else's.
`Autosave` implements it with the refinement mapping `made <- generation`,
`history <-` the author and document of each revision; `WritesAreOrdered` is that
statement, checked by TLC.

### AssetCollector

A row of `asset_objects` moves through live, quarantining and quarantined, and its
file between two directories; no transaction covers both. A worker that boots runs
the stages of `runPersistBootGc` in their order, each over a list made when it
begins. A step that is a transaction checks the lock's fence inside it, and renewal
and step are one action; a file operation cannot, and is preceded by a state in
which the worker is poised. Workers die anywhere. Imports take leases, put files,
and commit in one transaction that looks at the rows; saves look at the grants.
Quotas and reservations of disk space are left out.

### DriveSync

`file` is the list of versions on Drive, `obs` what the tab last tracked, `job` the
save between its requests (export, look, read, check, upload, confirm), `look` a
connect, open or handoff under way, `timer`/`waits`/`changed` the autosave of
`drive-autosave.ts`. An upload given up may arrive late or not at all. `news`,
`raced`, `torn` and `noted` are observers: what others wrote that the tab has not
downloaded, what of it fell into a window of the protocol, and whether the autosave
took note of the last edit. Losing and gaining leadership are actions: neither
changes who may save, but a new leader looks at the file. A second tab of the learner
is one of the others who write.

Left out: a file the account may no longer write loses its link, and the project gets
a new file (`dropStaleDriveLink`; `SaveFails` and `LookFails` end as other failures
do); and the question a learner is asked before a save that follows a conflict
(`confirm` keeps only the autosave from going on). An upload given up that arrives
late may replace what nobody has seen: `OverwritesWhatItSaw` speaks of the uploads a
save waits for. One look at the file is under way at a time.

## 3. Runs

| Run | Question | Bounds | Result |
|---|---|---|---|
| `hub_seats` | do the maps, limits and rosters agree | 4 sockets, 3 topics (2 allowed), 3 peer ids, 2 seats; symmetric; no time | holds |
| `hub_silent` | are silent seats freed, counters bounded | 2 sockets, 1 topic, limits of 1 and 2 ticks; fair `Tick` and `SweepIdle` | holds |
| `clock_timers` | are losses reported, flaps absorbed | waits 3, 5, 8 and grace 2 | holds |
| `guest_copy` | do disk, memory and VM fit, is ready right, is the offer current | 2 + 1 edits, 2 failures, 2 unsealable contents, 1 of them malformed | holds |
| `guest_waits` | does waiting end, does a helped guest get in, does the offer settle | 1 + 1 edits, 1 failure, 1 unsealable content | holds |
| `guest_unaided` | does one edit converge unaided | 1 edit, no failure | violated |
| `link` | do documents and open peers agree over changing paths | 2 peers, 1 writer, 2 edits, 1 retry, 3 offers each way, 1 automatic reconnect, 1 trouble | holds |
| `link_lost` | also when a channel dies with a wire on it | the same | violated |
| `live` | do screens agree, do edits stay, does it come to rest | 2 peers, 2 cells, 3 edits, 1 failed load or run | holds |
| `autosave` | is the server's history the client's, is every edit settled | 2 edits, 3 calls, 1 retry, 2 losses, boots or foreign writes | holds |
| `assets` | is what is referred to there | 1 asset, 1 organisation, 2 workers | holds |
| `drive` | is what is replaced seen, do noted edits arrive | 2 contents, 3 versions, 2 troubles | holds |

**Bounds.** Four sockets let two stale connections compete with two new ones for
the same seats, and three topics with two allowed let the topic limit bite. Two
edits with a failure each reach an update of an applied copy, a second update
overtaken by a third seal, and every rollback on the way. The waits keep the order
of the code's (15, 45, 120 seconds, grace 3) with room between them for a timer that
was armed for one and fires during another. In `link`, three offers each way reach
glare, a retry that crosses an answer and an answer to an earlier offer; one trouble
is a lost socket, a dead channel or a peer that leaves. In `live`, three edits of two
peers give a conflict in one cell beside an independent change of the other. In
`autosave`, three calls are a save in flight and two that wait for it; two edits are
enough for a late request of the first to arrive after the second. One asset suffices
in `assets`, as rows and files of different assets do not touch, and two workers are
one that dies or stalls and one that takes over. In `drive` two contents and three
versions are a foreign write between the tab's own two.

One switch is off in the runs. `MayStall` would let a collector stall between the
renewal of its lease and its file operation for longer than the lease (15 minutes
in the code); a file system cannot check a fence, and `LiveRowsHaveFiles` then fails
(`ReferencedIsLive` does not, as rows change under the fence only).

`CHECK_DEADLOCK FALSE` stands where the system may really stop: a creator and a
guest, two peers or a client and a server with nothing to do. The hub, the clock and
the collectors never stop.

**Fairness.** Timers of a browser or of Node fire, so the timer actions are weakly
fair; so are steps of a job, since a disk or VM operation that was started is
completed with success or failure. `FairSpec` of `GuestBootstrap` has both timers
of a waiting guest fire, the silence timer and the grace timer: a guest whose peer
went is told by whichever is left. It assumes in addition that an open channel delivers and that an absent creator's channel opens
if it can. Nobody is obliged to edit, leave, reconnect or retry; only
`EveryoneGetsIn` has as its premise (`Helped`) a learner who presses a button that
stays on offer, and a channel that, reopened again and again, delivers. `FairSpec`
of `Autosave` makes the timers fire and a request that is not lost be served and
answered. `FairSpec` of `LiveEdit` makes timers fire, applies go on and updates
arrive; `SettlesDown` has as its premise a learner who stops the program now and
then. The hub assumes nothing of its clients.

An update whose load fails half way restores nothing (`apply-remote-update.ts:62`);
the model has the outcome, a `Wrecked` VM, and `VmShowsOpenProject` excepts an
applied copy that is not ready because of it.

### What the violations show

1. **One edit during a guest's save strands the guest** (`guest_unaided`,
   `collab-session.ts:864`). The evaluation that the next seal schedules fires
   while the rollback of the first attempt is awaited; it returns because an apply
   is in flight, and nothing schedules another. Only a further change or a
   reconnect by hand helps; `EveryoneGetsIn` shows that this is sufficient.
2. **Wires that die with a channel are not asked for again** (`link_lost`,
   `webrtc-transport.ts:268`). The peer stays in `openedPeers` when the transport
   falls back to the relay, so `onPeerOpen` is not called and the provider starts no
   new sync. The other peer lacks the update, and keeps aside whatever its author
   edits next, until one of them reconnects.

### Statements that do not hold

The following are defined in the modules, say what a comment or a design document
says (or leave out an exception that the checked property makes), and are violated by
the code as it is. They belong to no run; naming one in a copy of the configuration in
brackets, state predicates as INVARIANT and the others as PROPERTY, shows its
counterexample.

- `ReconnectIsAdmitted` (`SignalingHub`, `MCSignalingHub_Seats.cfg`): `room_full` is
  decided before the stale seat of the same peer is looked at (`hub.ts:235`); the
  comment at `hub.ts:241-243` describes the very case that is meant to succeed.
- `OwnProjectKept` (`GuestBootstrap`, `MCGuestBootstrap_Copy.cfg`): the rollback of
  `leave()` reloads the own project while an update is still loading; the update then
  restores its own previous record, the copy, and the next save stores what the VM
  shows (`collab-session.ts:1351`).
- `RetryStaysOffered` (`GuestBootstrap`, the same): the stall timer is not cleared
  when the local save fails and takes the retry away (`collab-session.ts:683`).
- `SilenceIsReported` (`StallClock`, `MCStallClock_Timers.cfg`): the timer was armed
  for 15 seconds before the guest could know the room is empty; when it fires, 120
  are asked for, and it is not armed again (`collab-session.ts:685`).
- `ChannelsOutliveSignaling` (`PeerLink`, `MCPeerLink_Paths.cfg`): the pivot design
  (section 5, "Signaling unavailable") keeps existing channels when the signaling
  server is lost; the automatic reconnect of `collab-session.ts:1151-1176` tears them
  down.
- `RemoteEditsSurvive` (`LiveEdit`, `MCLiveEdit_Agree.cfg`): after an apply the
  baseline of a sprite with pending edits is read from the shared document as it is
  after the awaits (`collab-session.ts:1089`), so what arrived meanwhile counts as
  undone by the learner and the next push undoes it.
- `RetriesKeepTheirId` (`Autosave`, `MCAutosave_Saves.cfg`): invariant 5 of section 7
  of the persistence design; of two callers that waited for one save, the completion
  of one clears the id the other's retry would need, so the same document is sent
  under a new id. `WritesAreOrdered` shows that it is written once all the same.
- `ReferencedFilesKept` (`ProjectService`, the same): section 6 of that design says
  the sweep never deletes a file a row refers to; with a second server booting on the
  directory it may, between its list and its sweep.
- `OverwritesOnlyWhatItSaw` (`DriveSync`, `MCDriveSync_Saves.cfg`): opening takes the
  metadata after the download (`drive-integration.ts:382-389`), a handoff reads both
  side by side (`:485-495`); what others write between the two is overwritten by the
  next save.
- `SyncedMeansSaved` (`DriveSync`, the same): a save asked for while one is under way
  joins it (`drive-integration.ts:525`), though it exported before the last edit.

Observed while modelling `DriveSync` and stated by no property: becoming a follower
clears the session's conflict flag (`collab-session.ts:978`), though one that Drive's
status still shows is told again at once (`main.ts:1611-1618`); the confirmation after a
conflict is remembered only if the status is exactly "conflict" when the tab
disconnects, and the `connect` of `createRoom` (`main.ts:2004`) leaves that status
without it; a `createFile` whose answer is lost leaves the project in
`pendingCreates`, so a retry is refused.

## 4. Proofs

Every invariant and every action property of the passing runs is a theorem: it
holds for every value of the constants that satisfies the assumptions, while the
runs show it on small instances. The assumptions are `HubAssumption`,
`SealAssumption`, `GuestAssumption`, `ClockAssumption`, `LinkAssumption`,
`LiveAssumption`, `ServiceAssumption`, `AutosaveAssumption`, `CollectorAssumption`
and `DriveAssumption`. They say that bounds are natural numbers, that "absent"
values are distinct from real ones, that malformed contents are among those that
cannot be sealed, that a client id is a number (ids are compared to settle glare),
and, of the clock, that its waits are in the order of the code's constants. One
theorem assumes besides that a switch is off, and says below what happens when it
is on. Each safety argument has the same shape: types first, then an invariant that
a step keeps, with one lemma per action or per kind of step.

**SignalingHubProofs.** `HubInvariant` establishes the inductive invariant:
types, the agreement of the two maps, occupied topics, rosters, limits, and the
facts they need of each other, for instance that a seat's holder is a member with
exactly that seat, so that freeing the seats of a set of connections cannot free
anybody else's. The limits need cardinalities of finite sets under insertion and
removal; the rest is first-order. `HubSeatKept` is the action property that
follows from it.

**GuestBootstrapProofs, the creator.** `OfferIsCurrent` is not inductive: it says nothing while a
seal is under way. `OfferInv` adds what holds at the await: the last checkpoint is
"seeding" and covers the document if the generation is current (`UnderWay`), and a
superseded generation has a timer armed behind it (`Overtaken`). A single lemma
about the last checkpoint of a lengthened log (`LastOfAppend`) carries the
argument.

**GuestBootstrapProofs, the whole.** `GuestTypes` is the type invariant of the
composition; the creator's half comes from the theorem above. `PlaceInv` relates the job, the
rollback of `leave()`, the open record, the disk and the VM:

- `OneUndo`: of the slot, the job's undo and the undo of `leave()`, at most one is
  in charge of a tentative copy;
- `OpenIsApplied`: in the room, the open project is the copy iff it was applied;
- `JobsMode`: an apply is an update exactly if the copy was applied, and one that
  outlives the session knows who undoes it;
- `Books`: the copy is on disk iff it is open, but in the middle of an undo;
- `VmIsMine`: with nothing applied, the VM shows the own project or the job holds
  what puts it back.

From it follow `GuestLeavesNoStrayCopy`, `GuestShowsOpenProject` and
`GuestLeavingUndoes`. `JobIsFresh` says that a job during which nothing arrived
carries what the staging document shows; with `PlaceInv` it gives
`GuestReadyMatchesSeal`. `GuestWaitingIsWatched` is inductive beside the types, if every
exit of an apply, every reconnect and every way to spend a timer is looked at: a short
silence timer is armed only over an open channel or before the first one
(`ArmedWaits`), and the grace timer starts with every loss that finds the guest
receiving.

**StallClockProofs.** `LossIsReported` bounds how long a guest has been without its
peer, which the code keeps nowhere. `LossInv` ties it to the timers:

- `GraceMeasured`: while the grace timer runs, the time left and the time alone add up
  to the whole grace;
- `GraceRuns`: a guest that was receiving when its peer went, and has not saved since,
  has it running or has been told;
- `SilenceRuns`: any other that is receiving alone has it running, or a silence timer
  that will be accepted within the ICE wait (`SilenceWillTell`);
- `SightsFit` and `EvaluatesAtOnce` say who has been seen, and that what a peer sent
  before it went is evaluated before the clock moves on, so that no evaluation starts a
  save late in a grace period that is not `busy`.

`GraceIsExact` is this invariant. `FlapsAbsorbed` follows, as no wait of the stall
timer is shorter than the configured one (`ShortestStall`).

**AutosaveProofs.** `FilesInv` (while one server runs, every file that a row names or
is about to name is there) gives `SnapshotsRestorable`. For the rest, requests have
to be followed over the network:

- `IdsInv`: ids are drawn in order, and the active one stands for the document it was
  drawn for, wherever else it occurs;
- `HistoryInv`: every request of the client carries an edit newer than the revision
  it builds on, and that revision is its own; the client's edits rise in the history;
- `CallsInv`: an answer names a revision that holds what was sent;
- `SavedInv`: with nothing pending the last edit is a revision.

`SavingRefinesHistory` is the refinement, step by step: an edit is a `Make`, a commit
of a client's request is a `Write` (fresh ids and `HistoryInv` give the order and the
absence of repetition), an intervention is an `OtherWrites`, all else a stutter.

**AssetCollectorProofs.** `ReferencedIsLive` needs that what the lock's holder has
listed is still in quarantine (`ListsHold`) and that only rows in quarantine run out
of grace; a collector that lost the lock writes no row, since rows change under the
fence. For `LiveRowsHaveFiles`, a worker about to touch a file must hold an unexpired
lease (`PoisedHolds`), and then what it found of the row is still true (`PoisedFits`);
an import that may still commit has its files in their place or under a row that
forbids the commit (`ImportsSafe`). `PoisedHolds` is what `MayStall` breaks, and so the
theorem assumes `~MayStall`: with a stall longer than the lease the property is
violated by the code (section 3).

**DriveSyncProofs.** `OverwritesWhatItSaw` is about the moment of the upload; the
invariant, `SeenInv`, is about every moment before: if the newest content is news, the
tab has in no variable what would make it take that content for seen
(`TakenAsSeen`: the observed version, the version a save goes by, the halves of a
look at the file). Versions without new content keep the content of the one that
brought it (`HistoryOK`). `NotedInv` says where a noted edit can be: on Drive, in the
save under way, waited for by the autosave, or given up with a status that is not
"synced".

**LiveEditProofs.** `WaitInv` follows the one snapshot that waits to be pushed: what it
changes is on the screen and in whatever an apply is about to load. `ScreenInv` says
the same of the rest of the sprite and the shared document, unless an apply is due.
With no apply due or under way the baseline, too, is the shared sprite, but for the
`swallowed` cells (`StartsShared`): this is what makes an edit that takes a cell back to
the baseline right, as it is left out of the push. Each of the two exceptions is needed:
without it TLC finds the property violated.

**PeerLinkProofs.** Thirteen of the actions are of one kind: a client's links become
others, it may have read its mail, and it sends (`Turned`, `Shift`, `Docs`). A lemma per
action shows that (`OnOfferTurns`, ...), and everything else is proved once for the
kind and once for each other step. The invariants build on one another:

- `LinkInv`: types, also of what is under way; one that is known is open (`Tied`),
  whose channel a link has (`Named`), and that no wire carries an edit its author
  does not have (`HasInv`). It gives `OpenStays`;
- `RoomInv`: if a client reads all its mail, it knows of exactly the members
  (`Heard`). It gives `OpenIsThere`;
- `ChanInv`: a channel that is up is the entry's channel at both ends, and wires are
  under way only there;
- `CallInv`: of two connected clients p and q, q will ask p for what it lacks
  (`Asks`: it is not open, or will read that p left), or p is open to q or will be
  when it reads that q asks (`Fresh`);
- `WayInv`: an edit of p's is at q, or on its way, or q lacks it and a wire that asks
  is on its way to p, or q will ask -- unless a channel died with it (`gaps`).

`DocumentsAgree` follows: when nothing is under way only the first is left. It is
proved for any number of peers, where the runs have two.

**Only model-checked**: the liveness properties (`SilentSeatsAreFreed`,
`OfferSettles`, `WaitingEnds`, `EveryoneGetsIn`, `SaveSettles`, `SettlesDown`), since
liveness under fairness is out of the prover's reach.

## 5. Not modelled, and the plan

To prove next: that the rosters of `SignalingHub` are what the clients' messages
amount to with the clients of `PeerLink` in their place; and the bounds on retries and
buffers of `Reassembly` once it is there.

To model next, in this order:

1. `Reassembly`: framed messages with limits and duplicates, by a reference
   definition over bounded inputs; ICE candidates that come before a description.
2. `Sessions`: rotation, expiry and revocation. Each operation is one transaction on
   one row, so there is less to interleave than in what is modelled.
3. `Submission` and `Roster` of the classroom host; the quotas and disk reservations
   of `asset-repository.ts`; the cache of the workspace directory.
4. `Rewind`: the ring of snapshots and its interplay with a running project.
5. `PeerLink` with three peers, and `LiveEdit` over it instead of over whole replicas.

Left out for good: pure validation and conversion (`project-schema`,
`project-envelope`, `sb3-tools`, `scratch-adapter`, `diagnostics-core`), where there
is no state and contents are values here; rendering, panels and the admin pages;
prompts of the AI help; adapters to Google's services; demos and spikes; and the
built extension bundles under `apps/editor-web/public/extensions`, which are other
projects' code and by their length alone most of the repository's lines. Security of
the invite secret and of the encrypted relay is not a subject of these models.
