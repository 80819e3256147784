------------------------------ MODULE DriveSync ------------------------------
(***************************************************************************)
(* One project, one .sb3 file on Google Drive, and the editor tab of the   *)
(* creator that saves the one to the other: on the learner's request and,  *)
(* in a room, by itself (drive-integration.ts, drive-autosave.ts and the   *)
(* Drive adapter of packages/google-drive-sync, as main.ts wires them).    *)
(* Others may write the file too.  Drive has no conditional update, so the *)
(* tab looks before and after it writes, and remembers what it looked at.  *)
(*                                                                         *)
(* Contents are numbered as they are made, by whomever; 0 is the first one.*)
(* A request is answered when it is sent, except for the upload, which may *)
(* arrive late.  What a tab finds between two requests may have changed.   *)
(***************************************************************************)
EXTENDS Naturals, Sequences

CONSTANTS
    MaxMade,      \* bound on the contents made after the first
    MaxVersions,  \* bound on the versions of the file
    MaxTrouble    \* bound on what is out of the ordinary: failed requests,
                  \* disconnects, reloads, opens, handoffs, versions without a change

ASSUME DriveAssumption == {MaxMade, MaxVersions, MaxTrouble} \subseteq Nat

VARIABLES
    file,       \* the versions of the file: content, and version that brought it
    late,       \* uploads given up that Drive may still carry out, by content
    doc,        \* the content of the open project, saved locally
    made,       \* the contents made so far, by the learner and by others
    bound,      \* does the project have a driveFileId?
    creating,   \* is it in pendingCreates?
    obs,        \* the tracked observation: version and content; version 0 for none
    token,      \* is Google connected?
    status,     \* EditorDriveStatus
    confirm,    \* driveOverwriteConfirmationRequired
    room,       \* is the tab in a room it created, ready and connected?
    held,       \* the conflict flag of the room's session
    job,        \* the save under way
    look,       \* the connect, open or handoff under way
    timer,      \* the autosave's timer
    waits,      \* the autosave's saveInFlight
    changed,    \* changedDuringSave
    news,       \* what others wrote and the tab has never downloaded
    raced,      \* what they wrote in between a look of the tab and what follows it
    torn,       \* what they wrote between a download and the metadata taken for it
    noted,      \* did the autosave note the last edit, with no reason to forget it since?
    trouble

driveVars == <<file, late>>
autoVars == <<timer, waits, changed>>
statusVars == <<status, confirm, held>>
linkVars == <<bound, creating, obs>>
ghosts == <<news, raced, torn, noted>>
vars == <<driveVars, doc, made, linkVars, token, statusVars, room, job, look,
          autoVars, ghosts, trouble>>

Latest == Len(file)
Remote == file[Latest].content

NoObs == [version |-> 0, content |-> 0]
NoJob == [at |-> "none", content |-> 0, known |-> NoObs, latest |-> 0, wrote |-> 0,
          moved |-> FALSE]
NoLook == [at |-> "none", local |-> 0, remote |-> 0, meta |-> 0, left |-> {}]

Init ==
    /\ \E linked \in BOOLEAN :
          /\ bound = linked
          /\ file = IF linked THEN <<[content |-> 0, set |-> 1]>> ELSE <<>>
    /\ late = {} /\ doc = 0 /\ made = 0
    /\ creating = FALSE /\ obs = NoObs
    /\ token = FALSE /\ status = "disconnected" /\ confirm = FALSE
    /\ room = FALSE /\ held = FALSE
    /\ job = NoJob /\ look = NoLook
    /\ timer = FALSE /\ waits = FALSE /\ changed = FALSE
    /\ news = {} /\ raced = {} /\ torn = {} /\ noted = FALSE
    /\ trouble = 0

-----------------------------------------------------------------------------
(* isDriveAutosaveEligible and the gate of main.ts.                        *)
Ready(h, c) == token /\ room /\ bound /\ ~h /\ ~c
Eligible == Ready(held, confirm)

(* setStatus and what renderDriveStatus makes of it: a conflict is told to *)
(* the room's session, synced and disconnected clear it there, and leaving *)
(* a conflict by disconnecting asks for a confirmation later.              *)
(* (Definitions named Slip* are deliberate mistakes, used by no action.)   *)
ConflictAfter(next) ==
    IF next = "conflict" THEN room
    ELSE held /\ next \notin {"synced", "disconnected"}

SetStatus(next) ==
    /\ status' = next
    /\ held' = ConflictAfter(next)
    /\ confirm' = (next # "synced"
                     /\ (confirm \/ (status = "conflict" /\ next = "disconnected")))

(* The autosave after a save it waited for has ended; a conflict told to   *)
(* the session makes it forget everything before that.                     *)
SlipForgetsChange(next) ==
    /\ waits' = FALSE /\ changed' = FALSE
    /\ timer' = (timer /\ ~(room /\ next = "conflict"))

SlipKeepsChange(next) ==
    /\ waits' = FALSE /\ changed' = changed
    /\ timer' = (~(room /\ next = "conflict")
                   /\ (timer \/ (waits /\ changed /\ Ready(held', confirm'))))

AutosaveGoesOn(next) ==
    /\ waits' = FALSE /\ changed' = FALSE
    /\ timer' = (~(room /\ next = "conflict")
                   /\ (timer \/ (waits /\ changed /\ Ready(held', confirm'))))

(* The end of a save.  A project opened meanwhile keeps its own status,    *)
(* unless the save finds that there was nothing to write.                  *)
FindsItThere ==
    /\ job' = NoJob
    /\ SetStatus("synced")
    /\ AutosaveGoesOn("synced")

Finish(next) ==
    LET shown == IF job.moved THEN status ELSE next
    IN  /\ job' = NoJob
        /\ SetStatus(shown)
        /\ AutosaveGoesOn(shown)

-----------------------------------------------------------------------------
(* saveToDrive: a save under way is joined, else one begins.               *)
SaveBegins ==
    /\ job' = IF job.at = "none" THEN [NoJob EXCEPT !.at = "export"] ELSE job
    /\ noted' = (noted /\ job.at = "none")

PressSave ==
    /\ status \notin {"disconnected", "syncing"} /\ token
    /\ SaveBegins
    /\ timer' = FALSE /\ changed' = FALSE
    /\ UNCHANGED <<driveVars, doc, made, linkVars, token, statusVars, room, look, waits,
                   news, raced, torn, trouble>>

(* markDirty, in the tab of the creator: markLocalChange and noteChange.   *)
Edit ==
    /\ made < MaxMade
    /\ made' = made + 1 /\ doc' = made'
    /\ IF status = "synced" THEN SetStatus("unsynced") ELSE UNCHANGED statusVars
    /\ timer' = (timer \/ (Eligible /\ ~waits))
    /\ changed' = (changed \/ (Eligible /\ waits))
    /\ noted' = Eligible
    /\ UNCHANGED <<driveVars, linkVars, token, room, job, look, waits,
                   news, raced, torn, trouble>>

TimerFires ==
    /\ timer
    /\ timer' = FALSE
    /\ IF Eligible THEN SaveBegins /\ waits' = TRUE ELSE UNCHANGED <<job, waits, noted>>
    /\ UNCHANGED <<driveVars, doc, made, linkVars, token, statusVars, room, look, changed,
                   news, raced, torn, trouble>>

(* exportCurrent and hashBytes, then the choice of what to do: a project   *)
(* without a file reserves an id and stores it first.                      *)
Export ==
    /\ job.at = "export"
    /\ IF job.moved
       THEN Finish(status) /\ UNCHANGED <<bound, creating>>
       ELSE /\ job' = [job EXCEPT !.content = doc, !.known = obs,
                          !.at = IF creating \/ ~bound THEN "create" ELSE "latest"]
            /\ bound' = TRUE
            /\ creating' = (creating \/ ~bound)
            /\ UNCHANGED <<statusVars, autoVars>>
    /\ UNCHANGED <<driveVars, doc, made, obs, token, room, look, ghosts, trouble>>

Track(v, c) == obs' = [version |-> v, content |-> c]

Sees ==
    /\ news' = news \ {Remote}
    /\ raced' = raced \ {Remote}
    /\ torn' = torn \ {Remote}

(* getMetadata before the write.  A missing file drops the link and starts *)
(* over; an unchanged one goes on; one that holds what is to be saved ends *)
(* it; else its bytes are fetched.                                         *)
Unchanged == job.known # NoObs /\ Latest = job.known.version

LooksAtLatest ==
    /\ job.at = "latest"
    /\ IF file = <<>>
       THEN /\ bound' = FALSE /\ creating' = FALSE /\ obs' = NoObs
            /\ job' = [job EXCEPT !.at = "export"]
            /\ UNCHANGED <<statusVars, autoVars>>
       ELSE /\ UNCHANGED <<bound, creating>>
            /\ \/ /\ Unchanged
                  /\ job' = [job EXCEPT !.at = "check"]
                  /\ UNCHANGED <<obs, statusVars, autoVars>>
               \/ /\ ~Unchanged /\ Remote = job.content
                  /\ Track(Latest, job.content)
                  /\ FindsItThere
               \/ /\ ~Unchanged /\ Remote # job.content
                  /\ job' = [job EXCEPT !.at = "read", !.latest = Latest]
                  /\ UNCHANGED <<obs, statusVars, autoVars>>
    /\ UNCHANGED <<driveVars, doc, made, token, room, look, ghosts, trouble>>

(* readFile: a tab that has never looked at the file takes it as it is;    *)
(* for one that has, only the metadata may have changed.                   *)
Reads ==
    /\ job.at = "read"
    /\ Sees
    /\ \/ /\ Remote = job.content
          /\ Track(job.latest, job.content)
          /\ FindsItThere
       \/ /\ Remote # job.content
          /\ job.known = NoObs \/ Remote = job.known.content
          /\ Track(job.latest, Remote)
          /\ job' = [job EXCEPT !.known = obs', !.latest = 0, !.at = "check"]
          /\ UNCHANGED <<statusVars, autoVars>>
       \/ /\ Remote # job.content
          /\ job.known # NoObs /\ Remote # job.known.content
          /\ Finish("conflict")
          /\ UNCHANGED obs
    /\ UNCHANGED <<driveVars, doc, made, bound, creating, token, room, look,
                   noted, trouble>>

(* updateFile: the last look, the upload and the look afterwards.          *)
SlipNoLastLook(known) == TRUE

AsKnown(known) == Latest = known.version

Checks ==
    /\ job.at = "check"
    /\ IF AsKnown(job.known)
       THEN job' = [job EXCEPT !.at = "upload", !.known = NoObs] /\ UNCHANGED <<statusVars, autoVars>>
       ELSE Finish("conflict")
    /\ UNCHANGED <<driveVars, doc, made, linkVars, token, room, look, ghosts, trouble>>

Written(c) == Append(file, [content |-> c, set |-> Latest + 1])

Uploads ==
    /\ job.at = "upload" /\ Latest < MaxVersions
    /\ file' = Written(job.content)
    /\ job' = [job EXCEPT !.at = "confirm", !.wrote = Latest + 1]
    /\ UNCHANGED <<late, doc, made, linkVars, token, statusVars, room, look, autoVars,
                   ghosts, trouble>>

(* createFile: the reserved id takes one file.                             *)
Creates ==
    /\ job.at = "create"
    /\ IF file = <<>>
       THEN /\ file' = Written(job.content)
            /\ job' = [job EXCEPT !.at = "confirm", !.wrote = 1]
            /\ UNCHANGED <<statusVars, autoVars>>
       ELSE Finish("unsynced") /\ UNCHANGED file
    /\ UNCHANGED <<late, doc, made, linkVars, token, room, look, ghosts, trouble>>

StillThere(wrote) == file[Latest].set = wrote

Confirms ==
    /\ job.at = "confirm"
    /\ IF StillThere(job.wrote)
       THEN Track(Latest, job.content) /\ creating' = FALSE /\ Finish("synced")
       ELSE Finish("conflict") /\ UNCHANGED <<obs, creating>>
    /\ UNCHANGED <<driveVars, doc, made, bound, token, room, look, ghosts, trouble>>
-----------------------------------------------------------------------------
Troubled == trouble < MaxTrouble /\ trouble' = trouble + 1

(* A request fails, or the project could not be saved locally first.  An   *)
(* upload that fails may have been carried out, or be carried out later.   *)
(* (A file that may no longer be written loses its link, and the project   *)
(* gets a new file: that is left out, here and in LookFails.)              *)
Fate(c) ==
    \/ UNCHANGED driveVars
    \/ late' = late \cup {c} /\ UNCHANGED file
    \/ Latest < MaxVersions /\ file' = Written(c) /\ UNCHANGED late

SaveFails ==
    /\ job.at # "none"
    /\ Troubled
    /\ Finish("unsynced")
    /\ IF job.at = "upload" THEN Fate(job.content) ELSE UNCHANGED driveVars
    /\ UNCHANGED <<doc, made, linkVars, token, room, look, ghosts>>

LateArrives ==
    /\ Latest < MaxVersions
    /\ \E c \in late : file' = Written(c) /\ late' = late \ {c}
    /\ UNCHANGED <<doc, made, linkVars, token, statusVars, room, job, look, autoVars,
                   ghosts, trouble>>

(* disconnectAll, pressed or because the token has expired: what is under  *)
(* way is aborted, what was observed forgotten.                            *)
Disconnected ==
    /\ IF job.at = "upload" THEN Fate(job.content) ELSE UNCHANGED driveVars
    /\ token' = FALSE
    /\ obs' = NoObs /\ creating' = FALSE
    /\ job' = NoJob /\ look' = NoLook
    /\ SetStatus("disconnected")
    /\ waits' = FALSE /\ changed' = FALSE
    /\ UNCHANGED <<doc, made, bound, room, news, raced, torn, noted>>

Disconnect ==
    /\ status # "disconnected"
    /\ Troubled
    /\ Disconnected
    /\ timer' = FALSE

TokenExpires ==
    /\ job.at # "none" \/ look.at # "none"
    /\ Troubled
    /\ Disconnected
    /\ timer' = (timer /\ ~held)

(* The page is loaded again: all but the project and its link is gone.     *)
Reload ==
    /\ Troubled
    /\ IF job.at = "upload" THEN Fate(job.content) ELSE UNCHANGED driveVars
    /\ token' = FALSE /\ status' = "disconnected" /\ confirm' = FALSE
    /\ room' = FALSE /\ held' = FALSE
    /\ obs' = NoObs /\ creating' = FALSE
    /\ job' = NoJob /\ look' = NoLook
    /\ timer' = FALSE /\ waits' = FALSE /\ changed' = FALSE
    /\ UNCHANGED <<doc, made, bound, news, raced, torn, noted>>

-----------------------------------------------------------------------------
(* connect, with a look at the file the project is linked to: asked for,   *)
(* or by createRoom, which does so again of a tab that is connected.       *)
Connect ==
    /\ look.at = "none"
    /\ status = "disconnected" \/ (token /\ ~room)
    /\ token' = TRUE
    /\ IF bound
       THEN look' = [NoLook EXCEPT !.at = "connect", !.local = doc] /\ UNCHANGED statusVars
       ELSE UNCHANGED look /\ SetStatus("connected")
    /\ UNCHANGED <<driveVars, doc, made, linkVars, room, job, autoVars, ghosts, trouble>>

ConnectLooks ==
    /\ look.at = "connect"
    /\ IF file # <<>> /\ Remote # look.local
       THEN /\ look' = [look EXCEPT !.at = "connectReads", !.meta = Latest]
            /\ UNCHANGED <<obs, creating, statusVars>>
       ELSE /\ look' = NoLook
            /\ creating' = (creating \/ file = <<>>)
            /\ IF file = <<>> THEN UNCHANGED obs ELSE Track(Latest, look.local)
            /\ SetStatus("connected")
    /\ UNCHANGED <<driveVars, doc, made, bound, token, room, job, autoVars, ghosts, trouble>>

ConnectReads ==
    /\ look.at = "connectReads"
    /\ Sees
    /\ Track(look.meta, Remote)
    /\ SetStatus(IF Remote = look.local THEN "connected" ELSE "unsynced")
    /\ look' = NoLook
    /\ UNCHANGED <<driveVars, doc, made, bound, creating, token, room, job, autoVars,
                   noted, trouble>>

(* openFromDrive: the file picked is downloaded and becomes a new project, *)
(* and only then its metadata is read for the observation.                 *)
Open ==
    /\ Troubled
    /\ look.at = "none" /\ token /\ status \notin {"disconnected", "syncing"}
    /\ file # <<>>
    /\ look' = [NoLook EXCEPT !.at = "open"]
    /\ SetStatus("syncing")
    /\ UNCHANGED <<driveVars, doc, made, linkVars, token, room, job, autoVars, ghosts>>

PicksNothing ==
    /\ look.at = "open"
    /\ look' = NoLook
    /\ SetStatus("connected")
    /\ UNCHANGED <<driveVars, doc, made, linkVars, token, room, job, autoVars, ghosts, trouble>>

Imports ==
    /\ look.at = "open"
    /\ Sees
    /\ look' = [look EXCEPT !.at = "opened", !.remote = Remote]
    /\ doc' = Remote /\ bound' = TRUE
    /\ job' = IF job.at = "none" THEN job ELSE [job EXCEPT !.moved = TRUE]
    /\ timer' = FALSE /\ changed' = FALSE
    /\ noted' = FALSE
    /\ UNCHANGED <<driveVars, made, creating, obs, token, statusVars, room, waits, trouble>>

Opened ==
    /\ look.at = "opened"
    /\ Track(Latest, look.remote)
    /\ look' = NoLook
    /\ SetStatus("synced")
    /\ noted' = FALSE
    /\ UNCHANGED <<driveVars, doc, made, bound, creating, token, room, job, autoVars,
                   news, raced, torn, trouble>>

(* recomputeLeadership: a follower forgets a conflict, unless Drive's status *)
(* tells it again at once; one that becomes the leader looks again, at the metadata, the bytes and its own project in no *)
(* particular order, and holds the autosave if they do not agree.           *)
Follows ==
    /\ room /\ held /\ status # "conflict"
    /\ held' = FALSE
    /\ UNCHANGED <<driveVars, doc, made, linkVars, token, status, confirm, room, job, look,
                   autoVars, ghosts, trouble>>

Leads ==
    /\ Troubled
    /\ room /\ bound /\ token /\ look.at = "none" /\ file # <<>>
    /\ look' = [NoLook EXCEPT !.at = "handoff", !.left = {"metadata", "bytes", "project"}]
    /\ UNCHANGED <<driveVars, doc, made, linkVars, token, statusVars, room, job, autoVars,
                   ghosts>>

HandoffLooks ==
    /\ look.at = "handoff"
    /\ \E what \in look.left :
          /\ look' = [look EXCEPT !.left = @ \ {what},
                         !.meta = IF what = "metadata" THEN Latest ELSE @,
                         !.remote = IF what = "bytes" THEN Remote ELSE @,
                         !.local = IF what = "project" THEN doc ELSE @]
          /\ IF what = "bytes" THEN Sees ELSE UNCHANGED <<news, raced, torn>>
    /\ UNCHANGED <<driveVars, doc, made, linkVars, token, statusVars, room, job, autoVars,
                   noted, trouble>>

Holds ==
    /\ timer' = (timer /\ ~held') /\ changed' = (changed /\ ~held')
    /\ noted' = (noted /\ ~held')

HandoffEnds ==
    /\ look.at = "handoff" /\ look.left = {}
    /\ look' = NoLook
    /\ IF look.local = look.remote
       THEN Track(look.meta, look.local) /\ UNCHANGED <<statusVars, timer, changed, noted>>
       ELSE /\ status' = "unsynced" /\ held' = room
            /\ Holds
            /\ UNCHANGED <<obs, confirm>>
    /\ UNCHANGED <<driveVars, doc, made, bound, creating, token, room, job, waits,
                   news, raced, torn, trouble>>

LookFails ==
    /\ look.at # "none"
    /\ Troubled
    /\ look' = NoLook
    /\ status' = "unsynced" /\ UNCHANGED confirm
    /\ held' = (held \/ (room /\ look.at = "handoff"))
    /\ Holds
    /\ UNCHANGED <<driveVars, doc, made, linkVars, token, room, job, waits,
                   news, raced, torn>>

(* createRoom connects (Connect), saves what is unsynced (PressSave) and    *)
(* goes on whether or not that worked; a save begun before may be under     *)
(* way.  leaveRoom forgets what the autosave had to do.                     *)
OpenRoom ==
    /\ ~room
    /\ room' = TRUE /\ held' = (status = "conflict")
    /\ UNCHANGED <<driveVars, doc, made, linkVars, token, status, confirm, job, look,
                   autoVars, ghosts, trouble>>

LeaveRoom ==
    /\ Troubled
    /\ room
    /\ room' = FALSE /\ held' = FALSE
    /\ timer' = FALSE /\ changed' = FALSE
    /\ noted' = FALSE
    /\ UNCHANGED <<driveVars, doc, made, linkVars, token, status, confirm, job, look, waits,
                   news, raced, torn>>

-----------------------------------------------------------------------------
(* Others, with the same editor, write the file, or Drive counts a version  *)
(* on without a change (a grant of the picker).  What is written after the  *)
(* last look of a save, or between a download and the metadata taken for    *)
(* it, is remembered as such.                                               *)
Downloaded ==
    \/ look.at = "opened"
    \/ look.at = "handoff" /\ "bytes" \notin look.left /\ "metadata" \in look.left

OthersWrite ==
    /\ made < MaxMade /\ file # <<>> /\ Latest < MaxVersions
    /\ made' = made + 1
    /\ file' = Written(made')
    /\ news' = news \cup {made'}
    /\ raced' = IF job.at = "upload" THEN raced \cup {made'} ELSE raced
    /\ torn' = IF Downloaded THEN torn \cup {made'} ELSE torn
    /\ UNCHANGED <<late, doc, linkVars, token, statusVars, room, job, look, autoVars,
                   noted, trouble>>

Bump ==
    /\ Troubled
    /\ file # <<>> /\ Latest < MaxVersions
    /\ file' = Append(file, file[Latest])
    /\ UNCHANGED <<late, doc, made, linkVars, token, statusVars, room, job, look, autoVars,
                   news, raced, torn, noted>>

Saving == Export \/ LooksAtLatest \/ Reads \/ Checks \/ Uploads \/ Creates \/ Confirms
Looking ==
    \/ ConnectLooks \/ ConnectReads \/ PicksNothing \/ Imports \/ Opened
    \/ HandoffLooks \/ HandoffEnds

Next ==
    \/ Edit \/ PressSave \/ TimerFires \/ Saving \/ SaveFails \/ LateArrives
    \/ Connect \/ Disconnect \/ TokenExpires \/ Reload
    \/ Open \/ Leads \/ Follows \/ Looking \/ LookFails
    \/ OpenRoom \/ LeaveRoom
    \/ OthersWrite \/ Bump

Spec == Init /\ [][Next]_vars

-----------------------------------------------------------------------------
Versions == 0..Latest
Contents == 0..MaxMade

TypeOK ==
    /\ \A v \in DOMAIN file : file[v].content \in Contents /\ file[v].set \in 1..v
    /\ late \subseteq Contents
    /\ made \in Contents /\ doc \in 0..made
    /\ {bound, creating, token, confirm, room, held, timer, waits, changed, noted}
         \subseteq BOOLEAN
    /\ obs \in [version : Versions, content : Contents]
    /\ status \in {"disconnected", "connected", "syncing", "synced", "unsynced", "conflict"}
    /\ job \in [at : {"none", "export", "latest", "read", "check", "upload", "create", "confirm"},
                content : Contents, known : [version : Versions, content : Contents],
                latest : Versions, wrote : Versions, moved : BOOLEAN]
    /\ look \in [at : {"none", "connect", "connectReads", "open", "opened", "handoff"},
                 local : Contents, remote : Contents, meta : Versions,
                 left : SUBSET {"metadata", "bytes", "project"}]
    /\ waits => job.at # "none"
    /\ changed => waits
    /\ news \cup raced \cup torn \subseteq 1..made
    /\ trouble \in 0..MaxTrouble

(* What a save replaces on Drive the tab had downloaded before, or it was   *)
(* written after the last look of that save, where Drive has no condition   *)
(* to refuse it -- or it fell between the two requests of an open or a      *)
(* handoff.  Not spoken of: an upload given up that arrives later, and      *)
(* whether the learner was asked before a save that follows a conflict.     *)
Replaces(c) == file' # file /\ late' = late /\ job.at = "upload" /\ file # <<>> /\ Remote = c

OverwritesWhatItSaw ==
    [][\A c \in news : Replaces(c) => c \in raced \cup torn]_vars

(* Leave out the last case. *)
OverwritesOnlyWhatItSaw ==
    [][\A c \in news : Replaces(c) => c \in raced]_vars

(* An edit the autosave took note of: once the tab is at rest and shows     *)
(* "synced", Drive has held it -- unless the save that was to bring it      *)
(* there, the autosave's or one asked for, joined one already under way, or *)
(* the room was left or held the autosave before, or an open has ended.     *)
AtRest == job = NoJob /\ look = NoLook /\ ~timer
Held(c) == \E v \in DOMAIN file : file[v].content = c

NotedEditsReachDrive == AtRest /\ noted /\ status = "synced" => Held(doc)

(* Leave out the exception. *)
SyncedMeansSaved == AtRest /\ room /\ status = "synced" => Held(doc)
=============================================================================
