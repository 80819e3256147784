--------------------------- MODULE DriveSyncProofs ---------------------------
(***************************************************************************)
(* What is proved of the synchronisation with Drive, for all bounds: the   *)
(* types, that a save replaces nothing the tab has not looked at except    *)
(* where Drive leaves a gap, and that an edit the autosave took note of is *)
(* on Drive once the tab rests and shows "synced".                         *)
(***************************************************************************)
EXTENDS DriveSync, TLAPS

-----------------------------------------------------------------------------
(* The types, variable by variable.  Contents and versions are bounded by   *)
(* those made so far, which only become more.                               *)
Entry(m) == [content : 0..m, set : Nat]

FileOK ==
    /\ file \in Seq(Entry(made))
    /\ \A v \in 1..Latest : file[v].set \in 1..v
    /\ late \subseteq 0..made

MadeOK == made \in Contents /\ doc \in 0..made /\ trouble \in 0..MaxTrouble

NewsOK == news \subseteq 1..made /\ raced \subseteq 1..made /\ torn \subseteq 1..made

FlagsOK ==
    /\ bound \in BOOLEAN /\ creating \in BOOLEAN /\ token \in BOOLEAN
    /\ confirm \in BOOLEAN /\ room \in BOOLEAN /\ held \in BOOLEAN
    /\ timer \in BOOLEAN /\ waits \in BOOLEAN /\ changed \in BOOLEAN /\ noted \in BOOLEAN

Statuses == {"disconnected", "connected", "syncing", "synced", "unsynced", "conflict"}

ObsType(n, m) == [version : 0..n, content : 0..m]
JobType(n, m) ==
    [at : {"none", "export", "latest", "read", "check", "upload", "create", "confirm"},
     content : 0..m, known : ObsType(n, m), latest : 0..n, wrote : 0..n, moved : BOOLEAN]
LookType(n, m) ==
    [at : {"none", "connect", "connectReads", "open", "opened", "handoff"},
     local : 0..m, remote : 0..m, meta : 0..n,
     left : SUBSET {"metadata", "bytes", "project"}]

ObsOK == obs \in ObsType(Latest, made)
JobOK == job \in JobType(Latest, made)
LookOK == look \in LookType(Latest, made)

(* Who reads the file has found that it is there.                           *)
FileIsThere ==
    /\ job.at = "read" \/ job.moved => file # <<>>
    /\ look.at \in {"connectReads", "open", "opened", "handoff"} => file # <<>>

WaitsOK == (waits => job.at # "none") /\ (changed => waits)

DriveTypes ==
    /\ FileOK /\ MadeOK /\ NewsOK /\ FlagsOK /\ status \in Statuses
    /\ ObsOK /\ JobOK /\ LookOK /\ FileIsThere /\ WaitsOK

LEMMA TypesOK == DriveTypes => TypeOK
<1> SUFFICES ASSUME DriveTypes PROVE TypeOK
  OBVIOUS
<1>1. MaxMade \in Nat /\ made \in 0..MaxMade /\ 0..made \subseteq Contents
  BY DriveAssumption DEF DriveTypes, MadeOK, Contents
<1>2. Latest \in Nat /\ \A v \in DOMAIN file : file[v].content \in Contents /\ file[v].set \in 1..v
  <2>1. Latest \in Nat /\ DOMAIN file = 1..Latest
    BY DEF DriveTypes, FileOK, Latest
  <2>2. \A v \in 1..Latest : file[v] \in Entry(made)
    BY <2>1 DEF DriveTypes, FileOK, Latest
  <2>3. ASSUME NEW v \in 1..Latest PROVE file[v].content \in Contents
    BY <1>1, <2>2 DEF Entry
  <2> QED BY <2>1, <2>3 DEF DriveTypes, FileOK
<1>3. late \subseteq Contents /\ doc \in 0..made /\ trouble \in 0..MaxTrouble
  BY <1>1 DEF DriveTypes, FileOK, MadeOK
<1>4. {bound, creating, token, confirm, room, held, timer, waits, changed, noted} \subseteq BOOLEAN
  BY Zenon DEF DriveTypes, FlagsOK
<1>5. obs \in [version : Versions, content : Contents]
  BY <1>1 DEF DriveTypes, ObsOK, ObsType, Versions
<1>6. job \in [at : {"none", "export", "latest", "read", "check", "upload", "create", "confirm"},
               content : Contents, known : [version : Versions, content : Contents],
               latest : Versions, wrote : Versions, moved : BOOLEAN]
  BY <1>1 DEF DriveTypes, JobOK, JobType, ObsType, Versions
<1>7. look \in [at : {"none", "connect", "connectReads", "open", "opened", "handoff"},
                local : Contents, remote : Contents, meta : Versions,
                left : SUBSET {"metadata", "bytes", "project"}]
  BY <1>1 DEF DriveTypes, LookOK, LookType, Versions
<1>8. (waits => job.at # "none") /\ (changed => waits) /\ news \cup raced \cup torn \subseteq 1..made
  BY DEF DriveTypes, WaitsOK, NewsOK
<1>9. status \in {"disconnected", "connected", "syncing", "synced", "unsynced", "conflict"}
  BY DEF DriveTypes, Statuses
<1> QED BY <1>1, <1>2, <1>3, <1>4, <1>5, <1>6, <1>7, <1>8, <1>9 DEF TypeOK, Contents

LEMMA TypesInit == Init => DriveTypes
<1> SUFFICES ASSUME Init PROVE DriveTypes
  OBVIOUS
<1>1. made = 0 /\ MadeOK /\ late = {} /\ NewsOK
  BY DriveAssumption DEF Init, MadeOK, NewsOK, Contents
<1>2. FileOK /\ Latest \in Nat
  <2>1. CASE file = <<>>
    BY <1>1, <2>1 DEF FileOK, Latest, Entry
  <2>2. CASE file = <<[content |-> 0, set |-> 1]>>
    BY <1>1, <2>2 DEF FileOK, Latest, Entry
  <2> QED BY <2>1, <2>2 DEF Init
<1>3. FlagsOK
  BY Zenon DEF Init, FlagsOK
<1>4. status \in Statuses /\ WaitsOK /\ FileIsThere
  BY DEF Init, Statuses, WaitsOK, FileIsThere, NoJob, NoLook
<1>5. ObsOK /\ JobOK /\ LookOK
  BY <1>1, <1>2 DEF Init, ObsOK, JobOK, LookOK, ObsType, JobType, LookType, NoObs, NoJob, NoLook
<1> QED BY <1>1, <1>2, <1>3, <1>4, <1>5 DEF DriveTypes

(* The file, and the contents made, only grow.                              *)
Grows ==
    /\ made' \in Nat /\ made <= made'
    /\ \/ file' = file
       \/ \E e \in Entry(made') : e.set \in 1..Latest + 1 /\ file' = Append(file, e)

LEMMA FileGrows ==
  ASSUME FileOK, made \in Nat, Grows
  PROVE  /\ Latest \in Nat /\ Latest' \in Nat /\ Latest <= Latest'
         /\ \A v \in 1..Latest : file'[v] = file[v]
         /\ file # <<>> => file' # <<>>
         /\ file # <<>> <=> Latest \in 1..Latest
         /\ file' # <<>> <=> Latest' \in 1..Latest'
         /\ file' \in Seq(Entry(made'))
         /\ \A v \in 1..Latest' : file'[v].set \in 1..v
         /\ \A e : file' = Append(file, e) => Latest' = Latest + 1 /\ file'[Latest'] = e
<1>1. Latest \in Nat /\ (file # <<>> <=> Latest \in 1..Latest)
  BY DEF FileOK, Latest
<1>2. file \in Seq(Entry(made'))
  <2>1. Entry(made) \subseteq Entry(made')
    BY DEF Grows, Entry
  <2> QED BY <2>1 DEF FileOK
<1>3. CASE file' = file
  BY <1>1, <1>2, <1>3 DEF FileOK, Latest
<1>4. ASSUME NEW e \in Entry(made'), e.set \in 1..Latest + 1, file' = Append(file, e)
      PROVE  /\ Latest' = Latest + 1 /\ file'[Latest'] = e /\ file' # <<>>
             /\ \A v \in 1..Latest : file'[v] = file[v]
             /\ file' \in Seq(Entry(made'))
             /\ \A v \in 1..Latest' : file'[v].set \in 1..v
  <2>1. /\ Latest' = Latest + 1 /\ file'[Latest'] = e /\ file' # <<>>
        /\ \A v \in 1..Latest : file'[v] = file[v]
        /\ file' \in Seq(Entry(made'))
    BY <1>1, <1>2, <1>4 DEF Latest
  <2>2. ASSUME NEW v \in 1..Latest' PROVE file'[v].set \in 1..v
    <3>1. v \in 1..Latest \/ v = Latest + 1
      BY <1>1, <2>1
    <3> QED BY <1>4, <2>1, <3>1 DEF FileOK
  <2> QED BY <2>1, <2>2
<1>5. ASSUME NEW e, file' = Append(file, e)
      PROVE  Latest' = Latest + 1 /\ file'[Latest'] = e
  BY <1>1, <1>2, <1>5 DEF Latest
<1> QED BY <1>1, <1>2, <1>3, <1>4, <1>5 DEF Grows

LEMMA RemoteType ==
  ASSUME FileOK, file # <<>>
  PROVE  Latest \in 1..Latest /\ file[Latest] \in Entry(made) /\ Remote \in 0..made
<1>1. Latest \in Nat /\ Latest \in 1..Latest
  BY DEF FileOK, Latest
<1>2. file[Latest] \in Entry(made)
  BY <1>1 DEF FileOK, Latest
<1> QED BY <1>1, <1>2 DEF Remote, Entry

LEMMA WrittenGrows ==
  ASSUME FileOK, made \in Nat, made' \in Nat, made <= made', NEW c \in 0..made',
         file' = Written(c)
  PROVE  Grows
<1> DEFINE e == [content |-> c, set |-> Latest + 1]
<1>1. Latest \in Nat
  BY DEF FileOK, Latest
<1>2. e \in Entry(made') /\ e.set \in 1..Latest + 1
  BY <1>1 DEF Entry
<1>3. file' = Append(file, e)
  BY DEF Written
<1> QED BY <1>2, <1>3 DEF Grows

(* What becomes of an upload that was given up.                             *)
LEMMA FateGrows ==
  ASSUME FileOK, made \in Nat, made' = made, NEW c \in 0..made,
         Fate(c) \/ UNCHANGED driveVars
  PROVE  Grows /\ late' \subseteq 0..made'
<1>1. CASE UNCHANGED driveVars
  BY <1>1 DEF driveVars, Grows, FileOK
<1>2. CASE late' = late \cup {c} /\ UNCHANGED file
  BY <1>2 DEF Grows, FileOK
<1>3. CASE file' = Written(c) /\ UNCHANGED late
  BY <1>3, WrittenGrows DEF FileOK
<1> QED BY <1>1, <1>2, <1>3 DEF Fate

(* The contents that job and look carry exist.                              *)
LEMMA CarriedTypes ==
  ASSUME DriveTypes
  PROVE  /\ job.content \in 0..made /\ look.local \in 0..made /\ look.remote \in 0..made
         /\ made \in Nat /\ Latest \in Nat
BY DriveAssumption DEF DriveTypes, JobOK, LookOK, JobType, LookType, MadeOK, Contents, FileOK, Latest

LEMMA GrowsStep == DriveTypes /\ [Next]_vars => Grows /\ late' \subseteq 0..made'
<1> SUFFICES ASSUME DriveTypes, [Next]_vars PROVE Grows /\ late' \subseteq 0..made'
  OBVIOUS
<1>0. /\ FileOK /\ late \subseteq 0..made /\ made \in Nat /\ job.content \in 0..made
      /\ 0..made \subseteq 0..(made + 1)
  BY CarriedTypes DEF DriveTypes, FileOK
<1>1. CASE UNCHANGED <<file, late, made>>
  BY <1>0, <1>1 DEF Grows
<1>2. CASE Edit
  BY <1>0, <1>2 DEF Edit, driveVars, Grows
<1>3. CASE Uploads
  <2>1. file' = Written(job.content) /\ UNCHANGED <<late, made>>
    BY <1>3 DEF Uploads
  <2> QED BY <1>0, <2>1, WrittenGrows
<1>4. CASE Creates
  <2>1. (file' = Written(job.content) \/ file' = file) /\ UNCHANGED <<late, made>>
    BY <1>4 DEF Creates
  <2> QED BY <1>0, <2>1, WrittenGrows DEF Grows
<1>5. CASE SaveFails
  <2>1. (Fate(job.content) \/ UNCHANGED driveVars) /\ made' = made
    BY <1>5 DEF SaveFails
  <2> QED BY <1>0, <2>1, FateGrows
<1>6. CASE Disconnect \/ TokenExpires
  <2>1. (Fate(job.content) \/ UNCHANGED driveVars) /\ made' = made
    BY <1>6 DEF Disconnect, TokenExpires, Disconnected
  <2> QED BY <1>0, <2>1, FateGrows
<1>7. CASE Reload
  <2>1. (Fate(job.content) \/ UNCHANGED driveVars) /\ made' = made
    BY <1>7 DEF Reload
  <2> QED BY <1>0, <2>1, FateGrows
<1>8. CASE LateArrives
  <2>1. PICK c \in late : file' = Written(c) /\ late' = late \ {c}
    BY <1>8 DEF LateArrives
  <2>2. made' = made /\ c \in 0..made
    BY <1>0, <1>8 DEF LateArrives
  <2> QED BY <1>0, <2>1, <2>2, WrittenGrows
<1>9. CASE OthersWrite
  <2>1. made' = made + 1 /\ made' \in 0..made' /\ file' = Written(made') /\ late' = late
    BY <1>0, <1>9 DEF OthersWrite
  <2> QED BY <1>0, <2>1, WrittenGrows
<1>10. CASE Bump
  <2>1. file # <<>> /\ file' = Append(file, file[Latest]) /\ UNCHANGED <<late, made>>
    BY <1>10 DEF Bump
  <2>2. Latest \in 1..Latest /\ file[Latest] \in Entry(made) /\ Latest \in Nat
    BY <1>0, <2>1, RemoteType DEF FileOK, Latest
  <2>3. file[Latest].set \in 1..Latest + 1
    BY <1>0, <2>2 DEF FileOK
  <2> QED BY <1>0, <2>1, <2>2, <2>3 DEF Grows
<1>11. CASE PressSave \/ TimerFires
  BY <1>1, <1>11 DEF PressSave, TimerFires, driveVars
<1>12. CASE Export \/ LooksAtLatest \/ Reads \/ Checks \/ Confirms
  BY <1>1, <1>12 DEF Export, LooksAtLatest, Reads, Checks, Confirms, driveVars
<1>13. CASE Connect \/ Open \/ Leads \/ Follows \/ Looking
  BY <1>1, <1>13 DEF Connect, Open, Leads, Follows, Looking, ConnectLooks, ConnectReads,
       PicksNothing, Imports, Opened, HandoffLooks, HandoffEnds, driveVars
<1>14. CASE LookFails \/ OpenRoom \/ LeaveRoom
  BY <1>1, <1>14 DEF LookFails, OpenRoom, LeaveRoom, driveVars
<1>15. CASE UNCHANGED vars
  BY <1>1, <1>15 DEF vars, driveVars
<1> QED BY <1>2, <1>3, <1>4, <1>5, <1>6, <1>7, <1>8, <1>9, <1>10, <1>11, <1>12, <1>13,
           <1>14, <1>15 DEF Next, Saving

LEMMA FileStep ==
  DriveTypes /\ [Next]_vars =>
    /\ FileOK' /\ made <= made' /\ made \in Nat /\ made' \in Nat
    /\ Latest <= Latest' /\ Latest \in Nat /\ Latest' \in Nat
    /\ \A v \in 1..Latest : file'[v] = file[v]
    /\ file # <<>> => file' # <<>>
    /\ \A e : file' = Append(file, e) => Latest' = Latest + 1 /\ file'[Latest'] = e
<1> SUFFICES ASSUME DriveTypes, [Next]_vars
             PROVE  /\ FileOK' /\ made <= made' /\ made \in Nat /\ made' \in Nat
                    /\ Latest <= Latest' /\ Latest \in Nat /\ Latest' \in Nat
                    /\ \A v \in 1..Latest : file'[v] = file[v]
                    /\ file # <<>> => file' # <<>>
                    /\ \A e : file' = Append(file, e) => Latest' = Latest + 1 /\ file'[Latest'] = e
  OBVIOUS
<1>1. Grows /\ late' \subseteq 0..made' /\ FileOK /\ made \in Nat
  BY GrowsStep, CarriedTypes DEF DriveTypes
<1>2. /\ Latest <= Latest' /\ Latest \in Nat /\ Latest' \in Nat
      /\ \A v \in 1..Latest : file'[v] = file[v]
      /\ file # <<>> => file' # <<>>
      /\ \A e : file' = Append(file, e) => Latest' = Latest + 1 /\ file'[Latest'] = e
      /\ file' \in Seq(Entry(made')) /\ \A v \in 1..Latest' : file'[v].set \in 1..v
  BY <1>1, FileGrows
<1> QED BY <1>1, <1>2 DEF FileOK, Grows

LEMMA MadeStep == DriveTypes /\ [Next]_vars => MadeOK' /\ NewsOK'
<1> SUFFICES ASSUME DriveTypes, [Next]_vars PROVE MadeOK' /\ NewsOK'
  OBVIOUS
<1>0. /\ FileOK /\ MadeOK /\ NewsOK /\ FileIsThere /\ made \in Nat
      /\ file # <<>> => Remote \in 0..made
  BY CarriedTypes, RemoteType DEF DriveTypes
<1>1. CASE UNCHANGED <<made, doc>> /\ (trouble' = trouble \/ Troubled)
           /\ (UNCHANGED <<news, raced, torn>> \/ Sees)
  <2>1. NewsOK'
    BY <1>0, <1>1 DEF NewsOK, Sees
  <2>2. trouble' \in 0..MaxTrouble
    BY <1>0, <1>1, DriveAssumption DEF MadeOK, Troubled
  <2> QED BY <1>0, <1>1, <2>1, <2>2 DEF MadeOK
<1>2. CASE Edit
  BY <1>0, <1>2, DriveAssumption DEF Edit, MadeOK, NewsOK, Contents
<1>3. CASE OthersWrite
  <2>1. /\ made' = made + 1 /\ made < MaxMade /\ UNCHANGED <<doc, trouble>>
        /\ news' = news \cup {made'} /\ raced' \subseteq raced \cup {made'}
        /\ torn' \subseteq torn \cup {made'}
    BY <1>3 DEF OthersWrite
  <2>2. NewsOK'
    BY <1>0, <2>1 DEF NewsOK
  <2>3. MadeOK'
    BY <1>0, <2>1, DriveAssumption DEF MadeOK, Contents
  <2> QED BY <2>2, <2>3
<1>4. CASE Imports
  <2>1. doc' = Remote /\ file # <<>> /\ UNCHANGED <<made, trouble>> /\ Sees
    BY <1>0, <1>4 DEF Imports, FileIsThere
  <2> QED BY <1>0, <2>1 DEF MadeOK, NewsOK, Sees
<1>5. CASE PressSave \/ TimerFires
  BY <1>1, <1>5 DEF PressSave, TimerFires
<1>6. CASE Export \/ LooksAtLatest \/ Checks \/ Uploads \/ Creates \/ Confirms
  BY <1>1, <1>6 DEF Export, LooksAtLatest, Checks, Uploads, Creates, Confirms, ghosts
<1>7. CASE Reads \/ ConnectReads
  BY <1>1, <1>7 DEF Reads, ConnectReads
<1>8. CASE SaveFails \/ LateArrives \/ Disconnect \/ TokenExpires \/ Reload
  BY <1>1, <1>8 DEF SaveFails, LateArrives, Disconnect, TokenExpires, Disconnected, Reload, ghosts
<1>9. CASE Connect \/ Open \/ Leads \/ Follows
  BY <1>1, <1>9 DEF Connect, Open, Leads, Follows, ghosts
<1>10. CASE ConnectLooks \/ PicksNothing \/ Opened \/ HandoffLooks \/ HandoffEnds
  BY <1>1, <1>10 DEF ConnectLooks, PicksNothing, Opened, HandoffLooks, HandoffEnds, ghosts
<1>11. CASE LookFails \/ OpenRoom \/ LeaveRoom \/ Bump
  BY <1>1, <1>11 DEF LookFails, OpenRoom, LeaveRoom, Bump, ghosts
<1>12. CASE UNCHANGED vars
  BY <1>1, <1>12 DEF vars, ghosts
<1> QED BY <1>2, <1>3, <1>4, <1>5, <1>6, <1>7, <1>8, <1>9, <1>10, <1>11, <1>12 DEF Next, Saving, Looking

-----------------------------------------------------------------------------
(* The observation, the save and the look.                                  *)
LEMMA Widens ==
  ASSUME NEW n \in Nat, NEW n1 \in Nat, n <= n1, NEW m \in Nat, NEW m1 \in Nat, m <= m1
  PROVE  /\ ObsType(n, m) \subseteq ObsType(n1, m1)
         /\ JobType(n, m) \subseteq JobType(n1, m1)
         /\ LookType(n, m) \subseteq LookType(n1, m1)
<1>1. ObsType(n, m) \subseteq ObsType(n1, m1)
  BY DEF ObsType
<1>2. JobType(n, m) \subseteq JobType(n1, m1)
  BY <1>1 DEF JobType
<1>3. LookType(n, m) \subseteq LookType(n1, m1)
  BY DEF LookType
<1> QED BY <1>1, <1>2, <1>3

LEMMA NoneTyped ==
  ASSUME NEW n \in Nat, NEW m \in Nat
  PROVE  NoObs \in ObsType(n, m) /\ NoJob \in JobType(n, m) /\ NoLook \in LookType(n, m)
BY DEF NoObs, NoJob, NoLook, ObsType, JobType, LookType

LEMMA ObsStep == DriveTypes /\ [Next]_vars => ObsOK'
<1> SUFFICES ASSUME DriveTypes, [Next]_vars PROVE ObsOK'
  OBVIOUS
<1>0. /\ FileIsThere /\ job \in JobType(Latest, made) /\ look \in LookType(Latest, made)
      /\ Latest \in Nat /\ made \in Nat
      /\ Latest' \in Nat /\ Latest <= Latest' /\ made' \in Nat /\ made <= made'
      /\ file # <<>> => Remote \in 0..made
  BY CarriedTypes, FileStep, RemoteType DEF DriveTypes, JobOK, LookOK
<1>1. CASE UNCHANGED obs \/ obs' = NoObs
  BY <1>0, <1>1, Widens, NoneTyped DEF DriveTypes, ObsOK
<1>2. ASSUME NEW v \in 0..Latest, NEW c \in 0..made, Track(v, c) PROVE ObsOK'
  BY <1>0, <1>2 DEF Track, ObsOK, ObsType
<1>3. /\ Latest \in 0..Latest /\ job.content \in 0..made /\ job.latest \in 0..Latest
      /\ look.local \in 0..made /\ look.remote \in 0..made /\ look.meta \in 0..Latest
  BY <1>0 DEF JobType, LookType
<1>4. CASE LooksAtLatest \/ Confirms
  BY <1>1, <1>2, <1>3, <1>4 DEF LooksAtLatest, Confirms
<1>5. CASE Reads
  BY <1>0, <1>1, <1>2, <1>3, <1>5 DEF Reads, FileIsThere
<1>6. CASE ConnectLooks \/ Opened
  BY <1>1, <1>2, <1>3, <1>6 DEF ConnectLooks, Opened
<1>7. CASE ConnectReads
  BY <1>0, <1>2, <1>3, <1>7 DEF ConnectReads, FileIsThere
<1>8. CASE HandoffEnds
  BY <1>1, <1>2, <1>3, <1>8 DEF HandoffEnds
<1>9. CASE Disconnect \/ TokenExpires \/ Reload
  BY <1>1, <1>9 DEF Disconnect, TokenExpires, Disconnected, Reload
<1>10. CASE Edit \/ PressSave \/ TimerFires \/ Export \/ Checks \/ Uploads \/ Creates
  BY <1>1, <1>10 DEF Edit, PressSave, TimerFires, Export, Checks, Uploads, Creates, linkVars
<1>11. CASE SaveFails \/ LateArrives \/ Connect \/ Open \/ Leads \/ Follows
  BY <1>1, <1>11 DEF SaveFails, LateArrives, Connect, Open, Leads, Follows, linkVars
<1>12. CASE PicksNothing \/ Imports \/ HandoffLooks \/ LookFails \/ OpenRoom \/ LeaveRoom
  BY <1>1, <1>12 DEF PicksNothing, Imports, HandoffLooks, LookFails, OpenRoom, LeaveRoom, linkVars
<1>13. CASE OthersWrite \/ Bump \/ UNCHANGED vars
  BY <1>1, <1>13 DEF OthersWrite, Bump, vars, linkVars
<1> QED BY <1>4, <1>5, <1>6, <1>7, <1>8, <1>9, <1>10, <1>11, <1>12, <1>13 DEF Next, Saving, Looking

LEMMA JobStep == DriveTypes /\ [Next]_vars => JobOK' /\ (job'.at = "read" \/ job'.moved => file' # <<>>)
<1> DEFINE ok == JobOK' /\ (job'.at = "read" \/ job'.moved => file' # <<>>)
<1> SUFFICES ASSUME DriveTypes, [Next]_vars PROVE ok
  OBVIOUS
<1>0. /\ FileIsThere /\ job \in JobType(Latest, made)
      /\ Latest \in Nat /\ made \in Nat
      /\ Latest' \in Nat /\ Latest <= Latest' /\ made' \in Nat /\ made <= made'
      /\ file # <<>> => file' # <<>> /\ Remote \in 0..made
      /\ job \in JobType(Latest', made') /\ NoJob \in JobType(Latest', made')
      /\ obs \in ObsType(Latest, made) /\ obs \in ObsType(Latest', made')
      /\ NoObs \in ObsType(Latest', made')
  BY CarriedTypes, FileStep, RemoteType, Widens, NoneTyped DEF DriveTypes, JobOK, ObsOK
<1>1. CASE UNCHANGED job
  BY <1>0, <1>1 DEF JobOK, FileIsThere
<1>2. CASE job' = NoJob
  BY <1>0, <1>2 DEF JobOK, NoJob
<1>3. CASE SaveBegins
  <2>1. NoJob.at = "none"
    BY DEF NoJob
  <2>2. [NoJob EXCEPT !.at = "export"] \in JobType(Latest', made')
    BY <1>0 DEF JobType
  <2>3. [NoJob EXCEPT !.at = "export"].at = "export" /\ ~[NoJob EXCEPT !.at = "export"].moved
    BY DEF NoJob
  <2> QED BY <1>1, <1>3, <2>2, <2>3 DEF SaveBegins, JobOK
<1>4. ASSUME NEW at \in {"export", "latest", "check", "upload", "create", "confirm"},
             job' = [job EXCEPT !.at = at]
      PROVE  ok
  BY <1>0, <1>4 DEF JobOK, JobType, FileIsThere
<1>5. CASE Edit \/ LateArrives \/ OthersWrite \/ Bump \/ Connect \/ Open \/ Leads \/ Follows
  BY <1>1, <1>5 DEF Edit, LateArrives, OthersWrite, Bump, Connect, Open, Leads, Follows
<1>6. CASE PressSave \/ TimerFires
  BY <1>1, <1>3, <1>6 DEF PressSave, TimerFires
<1>7. CASE Export
  <2>1. CASE job' = NoJob
    BY <1>2, <2>1
  <2>2. CASE job' = [job EXCEPT !.content = doc, !.known = obs,
                          !.at = IF creating \/ ~bound THEN "create" ELSE "latest"]
    <3>1. doc \in 0..made'
      BY <1>0 DEF DriveTypes, MadeOK
    <3>2. PICK at \in {"create", "latest"} :
            job' = [job EXCEPT !.content = doc, !.known = obs, !.at = at]
      BY <2>2
    <3> QED BY <1>0, <3>1, <3>2 DEF JobOK, JobType, FileIsThere
  <2> QED BY <1>7, <2>1, <2>2 DEF Export, Finish
<1>8. CASE LooksAtLatest
  <2>1. CASE job' = [job EXCEPT !.at = "read", !.latest = Latest] /\ file # <<>>
    <3>1. Latest \in 0..Latest'
      BY <1>0
    <3> QED BY <1>0, <2>1, <3>1 DEF JobOK, JobType, FileIsThere
  <2> QED BY <1>2, <1>4, <1>8, <2>1 DEF LooksAtLatest, FindsItThere
<1>9. CASE Reads
  <2>1. CASE job' = [job EXCEPT !.known = obs', !.latest = 0, !.at = "check"]
    <3>1. 0 \in 0..Latest' /\ obs' \in ObsType(Latest', made')
      BY <1>0, ObsStep DEF ObsOK
    <3> QED BY <1>0, <2>1, <3>1 DEF JobOK, JobType, FileIsThere
  <2> QED BY <1>2, <1>9, <2>1 DEF Reads, FindsItThere, Finish
<1>10. CASE Checks
  <2>1. CASE job' = [job EXCEPT !.at = "upload", !.known = NoObs]
    BY <1>0, <2>1 DEF JobOK, JobType, FileIsThere
  <2> QED BY <1>2, <1>10, <2>1 DEF Checks, Finish
<1>11. CASE Uploads
  <2>1. /\ job' = [job EXCEPT !.at = "confirm", !.wrote = Latest + 1]
        /\ Latest + 1 \in 0..Latest'
    BY <1>0, <1>11, FileStep DEF Uploads, Written
  <2> QED BY <1>0, <2>1 DEF JobOK, JobType, FileIsThere
<1>12. CASE Creates
  <2>1. CASE file' = Written(job.content) /\ job' = [job EXCEPT !.at = "confirm", !.wrote = 1]
    <3>1. 1 \in 0..Latest'
      BY <1>0, <2>1, FileStep DEF Written
    <3> QED BY <1>0, <2>1, <3>1 DEF JobOK, JobType, FileIsThere
  <2> QED BY <1>2, <1>12, <2>1 DEF Creates, Finish
<1>13. CASE Confirms \/ SaveFails
  BY <1>2, <1>13 DEF Confirms, SaveFails, Finish
<1>14. CASE Disconnect \/ TokenExpires \/ Reload
  BY <1>2, <1>14 DEF Disconnect, TokenExpires, Disconnected, Reload
<1>15. CASE Imports
  <2>1. CASE job' = [job EXCEPT !.moved = TRUE]
    BY <1>0, <1>15, <2>1 DEF JobOK, JobType, FileIsThere, Imports
  <2> QED BY <1>1, <1>15, <2>1 DEF Imports
<1>16. CASE ConnectLooks \/ ConnectReads \/ PicksNothing \/ Opened \/ HandoffLooks \/ HandoffEnds
  BY <1>1, <1>16 DEF ConnectLooks, ConnectReads, PicksNothing, Opened, HandoffLooks, HandoffEnds
<1>17. CASE LookFails \/ OpenRoom \/ LeaveRoom \/ UNCHANGED vars
  BY <1>1, <1>17 DEF LookFails, OpenRoom, LeaveRoom, vars
<1> QED BY <1>5, <1>6, <1>7, <1>8, <1>9, <1>10, <1>11, <1>12, <1>13, <1>14, <1>15, <1>16, <1>17
        DEF Next, Saving, Looking

LEMMA LookStep == DriveTypes /\ [Next]_vars => LookOK' /\ FileIsThere'
<1> DEFINE there == look'.at \in {"connectReads", "open", "opened", "handoff"} => file' # <<>>
<1> SUFFICES ASSUME DriveTypes, [Next]_vars PROVE LookOK' /\ there
  BY JobStep DEF FileIsThere
<1>0. /\ FileIsThere /\ look \in LookType(Latest, made)
      /\ Latest \in Nat /\ made \in Nat /\ doc \in 0..made
      /\ Latest' \in Nat /\ Latest <= Latest' /\ made' \in Nat /\ made <= made'
      /\ file # <<>> => file' # <<>> /\ Remote \in 0..made
      /\ look \in LookType(Latest', made') /\ NoLook \in LookType(Latest', made')
  BY CarriedTypes, FileStep, RemoteType, Widens, NoneTyped DEF DriveTypes, LookOK, MadeOK
<1>a. Latest \in 0..Latest' /\ doc \in 0..made' /\ (file # <<>> => Remote \in 0..made')
  BY <1>0
<1>1. CASE UNCHANGED look
  BY <1>0, <1>1 DEF LookOK, FileIsThere
<1>2. CASE look' = NoLook
  BY <1>0, <1>2 DEF LookOK, NoLook
<1>3. CASE Edit \/ PressSave \/ TimerFires \/ LateArrives \/ OthersWrite \/ Bump \/ Follows
  BY <1>1, <1>3 DEF Edit, PressSave, TimerFires, LateArrives, OthersWrite, Bump, Follows
<1>4. CASE Saving \/ SaveFails \/ OpenRoom \/ LeaveRoom \/ UNCHANGED vars
  BY <1>1, <1>4 DEF Saving, Export, LooksAtLatest, Reads, Checks, Uploads, Creates, Confirms,
       SaveFails, OpenRoom, LeaveRoom, vars
<1>5. CASE Disconnect \/ TokenExpires \/ Reload \/ LookFails
  BY <1>2, <1>5 DEF Disconnect, TokenExpires, Disconnected, Reload, LookFails
<1>6. CASE ConnectReads \/ PicksNothing \/ Opened \/ HandoffEnds
  BY <1>2, <1>6 DEF ConnectReads, PicksNothing, Opened, HandoffEnds
<1>7. CASE Connect
  <2>1. CASE look' = [NoLook EXCEPT !.at = "connect", !.local = doc]
    BY <1>0, <1>a, <2>1 DEF LookOK, LookType
  <2> QED BY <1>1, <1>7, <2>1 DEF Connect
<1>8. CASE ConnectLooks
  <2>1. CASE file # <<>> /\ look' = [look EXCEPT !.at = "connectReads", !.meta = Latest]
    BY <1>0, <1>a, <2>1 DEF LookOK, LookType
  <2> QED BY <1>2, <1>8, <2>1 DEF ConnectLooks
<1>9. CASE Open
  <2>1. file # <<>> /\ look' = [NoLook EXCEPT !.at = "open"]
    BY <1>9 DEF Open
  <2> QED BY <1>0, <1>a, <2>1 DEF LookOK, LookType
<1>10. CASE Imports
  <2>1. file # <<>> /\ look' = [look EXCEPT !.at = "opened", !.remote = Remote]
    BY <1>0, <1>10 DEF Imports, FileIsThere
  <2> QED BY <1>0, <1>a, <2>1 DEF LookOK, LookType
<1>11. CASE Leads
  <2>1. /\ file # <<>>
        /\ look' = [NoLook EXCEPT !.at = "handoff", !.left = {"metadata", "bytes", "project"}]
    BY <1>11 DEF Leads
  <2> QED BY <1>0, <1>a, <2>1 DEF LookOK, LookType
<1>12. CASE HandoffLooks
  <2>1. file # <<>>
    BY <1>0, <1>12 DEF HandoffLooks, FileIsThere
  <2>2. PICK left \in SUBSET look.left, meta \in {Latest, look.meta},
             remote \in {Remote, look.remote}, local \in {doc, look.local} :
          look' = [look EXCEPT !.left = left, !.meta = meta, !.remote = remote, !.local = local]
    <3>1. PICK what \in look.left :
            look' = [look EXCEPT !.left = @ \ {what},
                         !.meta = IF what = "metadata" THEN Latest ELSE @,
                         !.remote = IF what = "bytes" THEN Remote ELSE @,
                         !.local = IF what = "project" THEN doc ELSE @]
      BY <1>12 DEF HandoffLooks
    <3> DEFINE left == look.left \ {what}
               meta == IF what = "metadata" THEN Latest ELSE look.meta
               remote == IF what = "bytes" THEN Remote ELSE look.remote
               local == IF what = "project" THEN doc ELSE look.local
    <3>2. look' = [look EXCEPT !.left = left, !.meta = meta, !.remote = remote, !.local = local]
      BY <3>1
    <3>3. /\ left \in SUBSET look.left /\ meta \in {Latest, look.meta}
          /\ remote \in {Remote, look.remote} /\ local \in {doc, look.local}
      OBVIOUS
    <3> QED BY <3>2, <3>3
  <2>3. meta \in 0..Latest' /\ remote \in 0..made' /\ local \in 0..made' /\ look.at \in {"handoff"}
    BY <1>0, <1>a, <1>12, <2>1, <2>2 DEF LookType, HandoffLooks
  <2> QED BY <1>0, <2>1, <2>2, <2>3 DEF LookOK, LookType
<1> QED BY <1>3, <1>4, <1>5, <1>6, <1>7, <1>8, <1>9, <1>10, <1>11, <1>12 DEF Next, Looking

-----------------------------------------------------------------------------
(* The flags and the status.                                                *)
LEMMA FlagsHelp ==
  ASSUME FlagsOK
  PROVE  /\ \A next : SetStatus(next) => held' \in BOOLEAN /\ confirm' \in BOOLEAN
         /\ \A next : AutosaveGoesOn(next) =>
               waits' \in BOOLEAN /\ changed' \in BOOLEAN /\ timer' \in BOOLEAN
         /\ SaveBegins => noted' \in BOOLEAN
         /\ UNCHANGED statusVars => held' \in BOOLEAN /\ confirm' \in BOOLEAN
         /\ UNCHANGED autoVars => waits' \in BOOLEAN /\ changed' \in BOOLEAN /\ timer' \in BOOLEAN
<1>1. ASSUME NEW next, SetStatus(next) PROVE held' \in BOOLEAN /\ confirm' \in BOOLEAN
  BY <1>1, Zenon DEF SetStatus, ConflictAfter, FlagsOK
<1>2. ASSUME NEW next, AutosaveGoesOn(next)
      PROVE  waits' \in BOOLEAN /\ changed' \in BOOLEAN /\ timer' \in BOOLEAN
  BY <1>2, Zenon DEF AutosaveGoesOn, FlagsOK
<1>3. SaveBegins => noted' \in BOOLEAN
  BY Zenon DEF SaveBegins, FlagsOK
<1>4. /\ UNCHANGED statusVars => held' \in BOOLEAN /\ confirm' \in BOOLEAN
      /\ UNCHANGED autoVars => waits' \in BOOLEAN /\ changed' \in BOOLEAN /\ timer' \in BOOLEAN
  BY Zenon DEF statusVars, autoVars, FlagsOK
<1> QED BY <1>1, <1>2, <1>3, <1>4

(* Whoever ends a save sets a status that there is.                         *)
LEMMA FinishFlags ==
  ASSUME FlagsOK, status \in Statuses
  PROVE  /\ \A next \in Statuses : Finish(next) =>
              /\ status' \in Statuses /\ held' \in BOOLEAN /\ confirm' \in BOOLEAN
              /\ waits' \in BOOLEAN /\ changed' \in BOOLEAN /\ timer' \in BOOLEAN
         /\ FindsItThere =>
              /\ status' \in Statuses /\ held' \in BOOLEAN /\ confirm' \in BOOLEAN
              /\ waits' \in BOOLEAN /\ changed' \in BOOLEAN /\ timer' \in BOOLEAN
<1>1. ASSUME NEW next \in Statuses, Finish(next)
      PROVE  /\ status' \in Statuses /\ held' \in BOOLEAN /\ confirm' \in BOOLEAN
             /\ waits' \in BOOLEAN /\ changed' \in BOOLEAN /\ timer' \in BOOLEAN
  <2>1. PICK shown \in Statuses : SetStatus(shown) /\ AutosaveGoesOn(shown)
    BY <1>1 DEF Finish
  <2>2. status' = shown
    BY <2>1 DEF SetStatus
  <2> QED BY <2>1, <2>2, FlagsHelp
<1>2. ASSUME FindsItThere
      PROVE  /\ status' \in Statuses /\ held' \in BOOLEAN /\ confirm' \in BOOLEAN
             /\ waits' \in BOOLEAN /\ changed' \in BOOLEAN /\ timer' \in BOOLEAN
  <2>1. SetStatus("synced") /\ AutosaveGoesOn("synced")
    BY <1>2 DEF FindsItThere
  <2>2. status' = "synced"
    BY <2>1 DEF SetStatus
  <2> QED BY <2>1, <2>2, FlagsHelp DEF Statuses
<1> QED BY <1>1, <1>2

LEMMA StatusStep == DriveTypes /\ [Next]_vars => status' \in Statuses
<1> SUFFICES ASSUME DriveTypes, [Next]_vars PROVE status' \in Statuses
  OBVIOUS
<1>0. FlagsOK /\ status \in Statuses
  BY DEF DriveTypes
<1>1. CASE UNCHANGED status
  BY <1>0, <1>1
<1>2. ASSUME NEW next \in Statuses, SetStatus(next) PROVE status' \in Statuses
  BY <1>2 DEF SetStatus
<1>3. /\ "disconnected" \in Statuses /\ "connected" \in Statuses /\ "syncing" \in Statuses
      /\ "synced" \in Statuses /\ "unsynced" \in Statuses /\ "conflict" \in Statuses
  BY DEF Statuses
<1>4. CASE Edit \/ PressSave \/ TimerFires \/ LateArrives \/ Follows \/ Leads
  BY <1>1, <1>2, <1>3, <1>4
     DEF Edit, PressSave, TimerFires, LateArrives, Follows, Leads, statusVars
<1>5. CASE Export \/ LooksAtLatest \/ Reads \/ Checks
  BY <1>0, <1>1, <1>3, <1>5, FinishFlags DEF Export, LooksAtLatest, Reads, Checks, statusVars
<1>6. CASE Uploads \/ Creates \/ Confirms \/ SaveFails
  BY <1>0, <1>1, <1>3, <1>6, FinishFlags DEF Uploads, Creates, Confirms, SaveFails, statusVars
<1>7. CASE Disconnect \/ TokenExpires \/ Reload
  BY <1>2, <1>3, <1>7 DEF Disconnect, TokenExpires, Disconnected, Reload
<1>8. CASE Connect \/ ConnectLooks \/ ConnectReads
  BY <1>1, <1>2, <1>3, <1>8 DEF Connect, ConnectLooks, ConnectReads, statusVars
<1>9. CASE Open \/ PicksNothing \/ Imports \/ Opened
  BY <1>1, <1>2, <1>3, <1>9 DEF Open, PicksNothing, Imports, Opened, statusVars
<1>10. CASE HandoffLooks \/ HandoffEnds \/ LookFails
  BY <1>1, <1>3, <1>10 DEF HandoffLooks, HandoffEnds, LookFails, statusVars
<1>11. CASE OpenRoom \/ LeaveRoom \/ OthersWrite \/ Bump \/ UNCHANGED vars
  BY <1>1, <1>11 DEF OpenRoom, LeaveRoom, OthersWrite, Bump, vars, statusVars
<1> QED BY <1>4, <1>5, <1>6, <1>7, <1>8, <1>9, <1>10, <1>11 DEF Next, Saving, Looking

LEMMA FlagsStep == DriveTypes /\ [Next]_vars => FlagsOK'
<1> SUFFICES ASSUME DriveTypes, [Next]_vars PROVE FlagsOK'
  OBVIOUS
<1>0. FlagsOK /\ status \in Statuses
  BY DEF DriveTypes
<1>1. ASSUME UNCHANGED <<bound, creating, token, room, noted>>,
             \/ UNCHANGED <<held, confirm, timer, waits, changed>>
             \/ \E next \in Statuses : Finish(next)
             \/ FindsItThere
      PROVE  FlagsOK'
  <2>1. /\ held' \in BOOLEAN /\ confirm' \in BOOLEAN
        /\ waits' \in BOOLEAN /\ changed' \in BOOLEAN /\ timer' \in BOOLEAN
    <3>1. CASE UNCHANGED <<held, confirm, timer, waits, changed>>
      BY <1>0, <3>1, Zenon DEF FlagsOK
    <3> QED BY <1>0, <1>1, <3>1, FinishFlags
  <2> QED BY <1>0, <1>1, <2>1, Zenon DEF FlagsOK
<1>2. /\ "synced" \in Statuses /\ "unsynced" \in Statuses /\ "conflict" \in Statuses
  BY DEF Statuses
<1>3. CASE PressSave \/ TimerFires
  BY <1>0, <1>3, FlagsHelp, Zenon DEF PressSave, TimerFires, FlagsOK, linkVars, statusVars
<1>4. CASE Edit
  BY <1>0, <1>4, FlagsHelp, Zenon DEF Edit, FlagsOK, linkVars, Eligible, Ready
<1>5. CASE Export
  <2>1. CASE Finish(status) /\ UNCHANGED <<bound, creating, token, room, noted>>
    BY <1>0, <1>1, <2>1
  <2>2. CASE bound' = TRUE /\ creating' = (creating \/ ~bound)
             /\ UNCHANGED <<statusVars, autoVars, token, room, noted>>
    BY <1>0, <2>2, Zenon DEF FlagsOK, statusVars, autoVars
  <2> QED BY <1>5, <2>1, <2>2 DEF Export, ghosts
<1>6. CASE LooksAtLatest
  <2>1. CASE bound' = FALSE /\ creating' = FALSE
             /\ UNCHANGED <<statusVars, autoVars, token, room, noted>>
    BY <1>0, <2>1, Zenon DEF FlagsOK, statusVars, autoVars
  <2>2. CASE UNCHANGED <<bound, creating, token, room, noted>>
             /\ (UNCHANGED <<statusVars, autoVars>> \/ FindsItThere)
    BY <1>1, <2>2 DEF statusVars, autoVars
  <2> QED BY <1>6, <2>1, <2>2 DEF LooksAtLatest, ghosts
<1>7. CASE Reads \/ Checks
  BY <1>1, <1>2, <1>7 DEF Reads, Checks, linkVars, statusVars, autoVars, ghosts
<1>8. CASE Uploads \/ Creates \/ SaveFails
  BY <1>1, <1>2, <1>8 DEF Uploads, Creates, SaveFails, linkVars, statusVars, autoVars, ghosts
<1>9. CASE Confirms
  <2>1. CASE creating' = creating /\ Finish("conflict")
    BY <1>1, <1>2, <1>9, <2>1 DEF Confirms, ghosts
  <2>2. CASE creating' = FALSE /\ Finish("synced")
    BY <1>0, <1>2, <1>9, <2>2, FinishFlags, Zenon DEF Confirms, ghosts, FlagsOK
  <2> QED BY <1>9, <2>1, <2>2 DEF Confirms
<1>10. CASE Disconnect \/ TokenExpires
  BY <1>0, <1>10, FlagsHelp, Zenon DEF Disconnect, TokenExpires, Disconnected, FlagsOK
<1>11. CASE Reload
  BY <1>0, <1>11, Zenon DEF Reload, FlagsOK
<1>12. CASE Connect \/ ConnectLooks \/ ConnectReads
  BY <1>0, <1>12, FlagsHelp, Zenon
     DEF Connect, ConnectLooks, ConnectReads, FlagsOK, linkVars, statusVars, autoVars, ghosts
<1>13. CASE Open \/ PicksNothing \/ Imports \/ Opened
  BY <1>0, <1>13, FlagsHelp, Zenon
     DEF Open, PicksNothing, Imports, Opened, FlagsOK, linkVars, statusVars, autoVars, ghosts
<1>14. CASE Leads \/ HandoffLooks \/ LateArrives \/ OthersWrite \/ Bump
  BY <1>1, <1>14
     DEF Leads, HandoffLooks, LateArrives, OthersWrite, Bump, linkVars, statusVars, autoVars, ghosts
<1>15. CASE HandoffEnds \/ LookFails
  BY <1>0, <1>15, Zenon DEF HandoffEnds, LookFails, Holds, FlagsOK, linkVars, statusVars
<1>16. CASE Follows \/ OpenRoom \/ LeaveRoom
  BY <1>0, <1>16, Zenon DEF Follows, OpenRoom, LeaveRoom, FlagsOK, linkVars, autoVars, ghosts
<1>17. CASE UNCHANGED vars
  BY <1>1, <1>17 DEF vars, linkVars, statusVars, autoVars, ghosts
<1> QED BY <1>3, <1>4, <1>5, <1>6, <1>7, <1>8, <1>9, <1>10, <1>11, <1>12, <1>13, <1>14, <1>15,
           <1>16, <1>17 DEF Next, Saving, Looking

LEMMA WaitsStep == DriveTypes /\ [Next]_vars => WaitsOK'
<1> SUFFICES ASSUME DriveTypes, [Next]_vars PROVE WaitsOK'
  OBVIOUS
<1>0. WaitsOK /\ FlagsOK
  BY DEF DriveTypes
<1>1. CASE ~waits' /\ ~changed'
  BY <1>1 DEF WaitsOK
<1>2. CASE (waits' => waits) /\ (changed' => changed /\ waits') /\ (job.at # "none" => job'.at # "none")
  BY <1>0, <1>2 DEF WaitsOK
<1>3. \A next : AutosaveGoesOn(next) => ~waits' /\ ~changed'
  BY DEF AutosaveGoesOn
<1>4. job' = job \/ job'.at # "none" => (job.at # "none" => job'.at # "none")
  OBVIOUS
<1>5. SaveBegins => job'.at # "none"
  <2>1. [NoJob EXCEPT !.at = "export"].at = "export"
    BY DEF NoJob
  <2> QED BY <2>1 DEF SaveBegins
<1>6. JobOK /\ job \in JobType(Latest, made)
  BY DEF DriveTypes, JobOK
<1>7. CASE Edit
  BY <1>0, <1>7, Zenon DEF Edit, WaitsOK
<1>8. CASE PressSave \/ TimerFires
  <2>1. CASE PressSave
    BY <1>0, <1>5, <2>1 DEF PressSave, WaitsOK
  <2>2. CASE TimerFires
    BY <1>0, <1>5, <2>2 DEF TimerFires, WaitsOK
  <2> QED BY <1>8, <2>1, <2>2
<1>9. CASE (UNCHANGED <<waits, changed>> /\ job' = job) \/ UNCHANGED vars
  BY <1>0, <1>9 DEF WaitsOK, vars, autoVars
<1>10. ASSUME UNCHANGED autoVars, job'.at # "none" PROVE WaitsOK'
  BY <1>0, <1>10 DEF WaitsOK, autoVars
<1>11. CASE Export
  <2>1. CASE UNCHANGED autoVars
             /\ job' = [job EXCEPT !.content = doc, !.known = obs,
                          !.at = IF creating \/ ~bound THEN "create" ELSE "latest"]
    BY <1>6, <1>10, <2>1 DEF JobType
  <2> QED BY <1>1, <1>3, <1>11, <2>1 DEF Export, Finish
<1>12. CASE LooksAtLatest
  <2>1. ASSUME UNCHANGED autoVars, job' = [job EXCEPT !.at = "export"]
               \/ job' = [job EXCEPT !.at = "check"]
               \/ job' = [job EXCEPT !.at = "read", !.latest = Latest]
        PROVE  WaitsOK'
    BY <1>6, <1>10, <2>1 DEF JobType
  <2> QED BY <1>1, <1>3, <1>12, <2>1 DEF LooksAtLatest, FindsItThere
<1>13. CASE Reads
  <2>1. ASSUME UNCHANGED autoVars, job' = [job EXCEPT !.known = obs', !.latest = 0, !.at = "check"]
        PROVE  WaitsOK'
    BY <1>6, <1>10, <2>1 DEF JobType
  <2> QED BY <1>1, <1>3, <1>13, <2>1 DEF Reads, FindsItThere, Finish
<1>14. CASE Checks
  <2>1. ASSUME UNCHANGED autoVars, job' = [job EXCEPT !.at = "upload", !.known = NoObs]
        PROVE  WaitsOK'
    BY <1>6, <1>10, <2>1 DEF JobType
  <2> QED BY <1>1, <1>3, <1>14, <2>1 DEF Checks, Finish
<1>15. CASE Uploads \/ Creates
  <2>1. ASSUME UNCHANGED autoVars, job' = [job EXCEPT !.at = "confirm", !.wrote = Latest + 1]
               \/ job' = [job EXCEPT !.at = "confirm", !.wrote = 1]
        PROVE  WaitsOK'
    BY <1>6, <1>10, <2>1 DEF JobType
  <2> QED BY <1>1, <1>3, <1>15, <2>1 DEF Uploads, Creates, Finish, autoVars
<1>16. CASE Confirms \/ SaveFails
  BY <1>1, <1>3, <1>16 DEF Confirms, SaveFails, Finish
<1>17. CASE Disconnect \/ TokenExpires \/ Reload
  BY <1>1, <1>17 DEF Disconnect, TokenExpires, Disconnected, Reload
<1>18. CASE Imports
  <2>1. job'.at # "none" \/ job' = job
    BY <1>6, <1>18 DEF Imports, JobType
  <2> QED BY <1>0, <1>18, <2>1 DEF Imports, WaitsOK
<1>19. CASE Connect \/ ConnectLooks \/ ConnectReads \/ Open \/ PicksNothing \/ Opened
  BY <1>9, <1>19 DEF Connect, ConnectLooks, ConnectReads, Open, PicksNothing, Opened, autoVars
<1>20. CASE Leads \/ HandoffLooks \/ LateArrives \/ OthersWrite \/ Bump \/ Follows \/ OpenRoom
  BY <1>9, <1>20
     DEF Leads, HandoffLooks, LateArrives, OthersWrite, Bump, Follows, OpenRoom, autoVars
<1>21. CASE HandoffEnds \/ LookFails \/ LeaveRoom
  <2>1. UNCHANGED <<waits, job>>
    BY <1>21 DEF HandoffEnds, LookFails, LeaveRoom
  <2>2. changed' => changed
    BY <1>21, Zenon DEF HandoffEnds, LookFails, LeaveRoom, Holds
  <2> QED BY <1>0, <2>1, <2>2 DEF WaitsOK
<1> QED BY <1>7, <1>8, <1>9, <1>11, <1>12, <1>13, <1>14, <1>15, <1>16, <1>17, <1>18, <1>19,
           <1>20, <1>21 DEF Next, Saving, Looking

LEMMA DriveTypesStep == DriveTypes /\ [Next]_vars => DriveTypes'
BY FileStep, MadeStep, FlagsStep, StatusStep, ObsStep, JobStep, LookStep, WaitsStep DEF DriveTypes

(* The variables of the synchronisation have their types.                   *)
THEOREM DriveTypeCorrect == Spec => []TypeOK
<1>1. Init => DriveTypes
  BY TypesInit
<1>2. DriveTypes /\ [Next]_vars => DriveTypes'
  BY DriveTypesStep
<1>3. DriveTypes => TypeOK
  BY TypesOK
<1> QED BY <1>1, <1>2, <1>3, PTL DEF Spec

-----------------------------------------------------------------------------
(* What the tab knows.                                                      *)

(* The versions that bring nothing new have the content of the one that     *)
(* brought it; what a save has written is found where it wrote it.          *)
HistoryOK ==
    /\ \A v \in 1..Latest : file[v].content = file[file[v].set].content
    /\ job.at = "confirm" =>
          job.wrote \in 1..Latest /\ file[job.wrote].content = job.content

(* What the tab has at hand is never news.                                  *)
OwnIsNoNews ==
    /\ doc \notin news /\ job.content \notin news /\ look.local \notin news
    /\ late \cap news = {}

(* The newest content is what others wrote and the tab has not seen.        *)
Unseen == file # <<>> /\ Remote \in news /\ Remote \notin raced \cup torn

(* The tab takes the newest version for one that it has looked at.          *)
TakenAsSeen ==
    \/ obs.version = Latest
    \/ job.known.version = Latest
    \/ job.at = "upload"
    \/ look.at = "opened"
    \/ look.at = "handoff" /\ "bytes" \notin look.left
         /\ ("metadata" \in look.left \/ look.meta = Latest)

SeenInv == HistoryOK /\ OwnIsNoNews /\ ~(Unseen /\ TakenAsSeen)

(* How a step changes the file.                                             *)
LEMMA FileChanges ==
  DriveTypes /\ [Next]_vars =>
    \/ UNCHANGED file
    \/ \E c \in late \cup {job.content} :
          file' = Written(c) /\ UNCHANGED <<news, raced, torn>>
    \/ OthersWrite
    \/ Bump
<1> SUFFICES ASSUME DriveTypes, [Next]_vars, file' # file, ~OthersWrite, ~Bump
             PROVE  \E c \in late \cup {job.content} :
                      file' = Written(c) /\ UNCHANGED <<news, raced, torn>>
  OBVIOUS
<1>1. CASE Uploads \/ Creates
  BY <1>1 DEF Uploads, Creates, ghosts
<1>2. CASE LateArrives
  BY <1>2 DEF LateArrives, ghosts
<1>3. CASE SaveFails
  BY <1>3 DEF SaveFails, Fate, driveVars, ghosts, Finish, NoJob
<1>4. CASE Disconnect \/ TokenExpires \/ Reload
  BY <1>4 DEF Disconnect, TokenExpires, Disconnected, Reload, Fate, driveVars, NoJob
<1>5. CASE Edit \/ PressSave \/ TimerFires \/ Export \/ LooksAtLatest \/ Reads \/ Checks \/ Confirms
  BY <1>5 DEF Edit, PressSave, TimerFires, Export, LooksAtLatest, Reads, Checks, Confirms, driveVars
<1>6. CASE Connect \/ Open \/ Leads \/ Follows \/ Looking \/ LookFails \/ OpenRoom \/ LeaveRoom
  BY <1>6 DEF Connect, Open, Leads, Follows, Looking, ConnectLooks, ConnectReads, PicksNothing,
       Imports, Opened, HandoffLooks, HandoffEnds, LookFails, OpenRoom, LeaveRoom, driveVars
<1>7. CASE UNCHANGED vars
  BY <1>7 DEF vars, driveVars
<1> QED BY <1>1, <1>2, <1>3, <1>4, <1>5, <1>6, <1>7 DEF Next, Saving

(* Where the content of a save, of a look and of late uploads comes from.   *)
LEMMA JobChanges ==
  DriveTypes /\ [Next]_vars =>
    /\ job'.content \in {job.content, doc, 0}
    /\ late' \subseteq late \cup {job.content}
    /\ \/ job'.at # "confirm"
       \/ job.at = "confirm" /\ job'.content = job.content /\ job'.wrote = job.wrote
       \/ Uploads \/ Creates
<1> DEFINE goal == /\ job'.content \in {job.content, doc, 0}
                   /\ late' \subseteq late \cup {job.content}
                   /\ \/ job'.at # "confirm"
                      \/ job.at = "confirm" /\ job'.content = job.content /\ job'.wrote = job.wrote
                      \/ Uploads \/ Creates
<1> SUFFICES ASSUME DriveTypes, [Next]_vars PROVE goal
  OBVIOUS
<1>0. job \in JobType(Latest, made)
  BY DEF DriveTypes, JobOK
<1>1. CASE job' = job /\ (UNCHANGED driveVars \/ UNCHANGED late)
  BY <1>1 DEF driveVars
<1>2. CASE job' = NoJob /\ (UNCHANGED driveVars \/ UNCHANGED late \/ Fate(job.content))
  BY <1>2 DEF NoJob, driveVars, Fate
<1>3. CASE SaveBegins /\ UNCHANGED driveVars
  <2>1. [NoJob EXCEPT !.at = "export"].at = "export" /\ [NoJob EXCEPT !.at = "export"].content = 0
    BY DEF NoJob
  <2> QED BY <1>1, <1>3, <2>1 DEF SaveBegins, driveVars
<1>4. ASSUME NEW at \in {"export", "check", "upload"}, NEW k, NEW l,
             job' = [job EXCEPT !.at = at] \/ job' = [job EXCEPT !.at = at, !.known = k]
             \/ job' = [job EXCEPT !.known = k, !.latest = l, !.at = at],
             UNCHANGED driveVars
      PROVE  goal
  BY <1>0, <1>4 DEF JobType, driveVars
<1>5. CASE PressSave \/ TimerFires
  BY <1>1, <1>3, <1>5 DEF PressSave, TimerFires
<1>6. CASE Export
  <2>1. CASE job' = [job EXCEPT !.content = doc, !.known = obs,
                          !.at = IF creating \/ ~bound THEN "create" ELSE "latest"]
    BY <1>0, <1>6, <2>1 DEF JobType, Export, driveVars
  <2> QED BY <1>2, <1>6, <2>1 DEF Export, Finish
<1>7. CASE LooksAtLatest
  <2>1. CASE job' = [job EXCEPT !.at = "read", !.latest = Latest]
    BY <1>0, <1>7, <2>1 DEF JobType, LooksAtLatest, driveVars
  <2> QED BY <1>2, <1>4, <1>7, <2>1 DEF LooksAtLatest, FindsItThere
<1>8. CASE Reads \/ Checks
  BY <1>2, <1>4, <1>8 DEF Reads, Checks, FindsItThere, Finish
<1>9. CASE Uploads
  BY <1>0, <1>9 DEF Uploads, JobType
<1>10. CASE Creates
  <2>1. CASE job' = [job EXCEPT !.at = "confirm", !.wrote = 1]
    BY <1>0, <1>10, <2>1 DEF Creates, JobType
  <2> QED BY <1>2, <1>10, <2>1 DEF Creates, Finish
<1>11. CASE Confirms \/ SaveFails
  BY <1>2, <1>11 DEF Confirms, SaveFails, Finish
<1>12. CASE Disconnect \/ TokenExpires \/ Reload
  BY <1>2, <1>12 DEF Disconnect, TokenExpires, Disconnected, Reload
<1>13. CASE LateArrives
  BY <1>13 DEF LateArrives
<1>14. CASE Imports
  <2>1. CASE job' = [job EXCEPT !.moved = TRUE]
    BY <1>0, <1>14, <2>1 DEF Imports, JobType, driveVars
  <2> QED BY <1>1, <1>14, <2>1 DEF Imports
<1>15. CASE Edit \/ OthersWrite \/ Bump \/ Connect \/ Open \/ Leads \/ Follows
  BY <1>1, <1>15 DEF Edit, OthersWrite, Bump, Connect, Open, Leads, Follows
<1>16. CASE ConnectLooks \/ ConnectReads \/ PicksNothing \/ Opened \/ HandoffLooks \/ HandoffEnds
  BY <1>1, <1>16 DEF ConnectLooks, ConnectReads, PicksNothing, Opened, HandoffLooks, HandoffEnds
<1>17. CASE LookFails \/ OpenRoom \/ LeaveRoom \/ UNCHANGED vars
  BY <1>1, <1>17 DEF LookFails, OpenRoom, LeaveRoom, vars
<1> QED BY <1>5, <1>6, <1>7, <1>8, <1>9, <1>10, <1>11, <1>12, <1>13, <1>14, <1>15, <1>16, <1>17
        DEF Next, Saving, Looking

LEMMA LookChanges == DriveTypes /\ [Next]_vars => look'.local \in {look.local, doc, 0}
<1> SUFFICES ASSUME DriveTypes, [Next]_vars PROVE look'.local \in {look.local, doc, 0}
  OBVIOUS
<1>0. look \in LookType(Latest, made) /\ NoLook.local = 0
  BY DEF DriveTypes, LookOK, NoLook
<1>1. CASE look' = look \/ look' = NoLook
  BY <1>0, <1>1
<1>2. CASE Connect
  <2>1. [NoLook EXCEPT !.at = "connect", !.local = doc].local = doc
    BY DEF NoLook
  <2> QED BY <1>1, <1>2, <2>1 DEF Connect
<1>3. CASE ConnectLooks
  <2>1. [look EXCEPT !.at = "connectReads", !.meta = Latest].local = look.local
    BY <1>0 DEF LookType
  <2> QED BY <1>1, <1>3, <2>1 DEF ConnectLooks
<1>4. CASE Open \/ Leads
  BY <1>4 DEF Open, Leads, NoLook
<1>5. CASE Imports
  BY <1>0, <1>5 DEF Imports, LookType
<1>6. CASE HandoffLooks
  BY <1>0, <1>6 DEF HandoffLooks, LookType
<1>7. CASE ConnectReads \/ PicksNothing \/ Opened \/ HandoffEnds \/ LookFails
  BY <1>1, <1>7 DEF ConnectReads, PicksNothing, Opened, HandoffEnds, LookFails
<1>8. CASE Disconnect \/ TokenExpires \/ Reload
  BY <1>1, <1>8 DEF Disconnect, TokenExpires, Disconnected, Reload
<1>9. CASE Edit \/ PressSave \/ TimerFires \/ LateArrives \/ OthersWrite \/ Bump \/ Follows
  BY <1>1, <1>9 DEF Edit, PressSave, TimerFires, LateArrives, OthersWrite, Bump, Follows
<1>10. CASE Saving \/ SaveFails \/ OpenRoom \/ LeaveRoom \/ UNCHANGED vars
  BY <1>1, <1>10 DEF Saving, Export, LooksAtLatest, Reads, Checks, Uploads, Creates, Confirms,
       SaveFails, OpenRoom, LeaveRoom, vars
<1> QED BY <1>2, <1>3, <1>4, <1>5, <1>6, <1>7, <1>8, <1>9, <1>10 DEF Next, Looking

(* What is news, and what the project is, after a step.                     *)
LEMMA NewsChanges ==
  DriveTypes /\ [Next]_vars =>
    /\ \/ UNCHANGED <<news, raced, torn>> /\ (doc' = doc \/ doc' = made + 1)
       \/ Sees /\ doc' \in {doc, Remote}
       \/ OthersWrite
<1> SUFFICES ASSUME DriveTypes, [Next]_vars, ~OthersWrite
             PROVE  \/ UNCHANGED <<news, raced, torn>> /\ (doc' = doc \/ doc' = made + 1)
                    \/ Sees /\ doc' \in {doc, Remote}
  OBVIOUS
<1>1. CASE Edit \/ PressSave \/ TimerFires \/ LateArrives \/ Bump \/ Follows
  BY <1>1 DEF Edit, PressSave, TimerFires, LateArrives, Bump, Follows, ghosts
<1>2. CASE Saving
  BY <1>2 DEF Saving, Export, LooksAtLatest, Reads, Checks, Uploads, Creates, Confirms, ghosts
<1>3. CASE Imports \/ ConnectReads \/ HandoffLooks
  BY <1>3 DEF Imports, ConnectReads, HandoffLooks
<1>4. CASE ConnectLooks \/ PicksNothing \/ Opened \/ HandoffEnds
  BY <1>4 DEF ConnectLooks, PicksNothing, Opened, HandoffEnds, ghosts
<1>5. CASE Disconnect \/ TokenExpires \/ Reload \/ SaveFails
  BY <1>5 DEF Disconnect, TokenExpires, Disconnected, Reload, SaveFails, ghosts
<1>6. CASE Connect \/ Open \/ Leads \/ LookFails \/ OpenRoom \/ LeaveRoom \/ UNCHANGED vars
  BY <1>6 DEF Connect, Open, Leads, LookFails, OpenRoom, LeaveRoom, vars, ghosts
<1> QED BY <1>1, <1>2, <1>3, <1>4, <1>5, <1>6 DEF Next, Looking

LEMMA HistoryStep == DriveTypes /\ HistoryOK /\ [Next]_vars => HistoryOK'
<1> SUFFICES ASSUME DriveTypes, HistoryOK, [Next]_vars PROVE HistoryOK'
  OBVIOUS
<1>0. /\ Latest <= Latest' /\ Latest \in Nat /\ Latest' \in Nat
      /\ \A v \in 1..Latest : file'[v] = file[v]
      /\ \A e : file' = Append(file, e) => Latest' = Latest + 1 /\ file'[Latest'] = e
      /\ \A v \in 1..Latest : file[v].set \in 1..v
      /\ file # <<>> => Latest \in 1..Latest
      /\ job \in JobType(Latest, made)
  BY FileStep, RemoteType DEF DriveTypes, FileOK, JobOK
<1>1. \A v \in 1..Latest : file[v].set \in 1..Latest /\ file'[v].content = file'[file'[v].set].content
  BY <1>0 DEF HistoryOK
<1>2. ASSUME NEW v \in 1..Latest' PROVE file'[v].content = file'[file'[v].set].content
  <2>1. CASE v \in 1..Latest
    BY <1>1, <2>1
  <2>2. CASE Latest' = Latest + 1 /\ v = Latest'
    <3>1. ASSUME NEW c, file' = Written(c) PROVE file'[v].content = file'[file'[v].set].content
      <4>1. file'[v] = [content |-> c, set |-> v]
        BY <1>0, <2>2, <3>1 DEF Written
      <4> QED BY <4>1
    <3>2. CASE Bump
      <4>1. file # <<>> /\ file' = Append(file, file[Latest])
        BY <3>2 DEF Bump
      <4>2. Latest \in 1..Latest /\ file'[v] = file[Latest]
        BY <1>0, <2>2, <4>1
      <4>3. file'[Latest].content = file'[file'[Latest].set].content /\ file'[Latest] = file[Latest]
        BY <1>0, <1>1, <4>2
      <4> QED BY <4>2, <4>3
    <3>3. file' # file
      BY <2>2, <1>0 DEF Latest
    <3> QED BY <3>1, <3>2, <3>3, FileChanges DEF OthersWrite
  <2>3. file' = file \/ Latest' = Latest + 1
    BY <1>0, FileChanges DEF OthersWrite, Bump, Written
  <2> QED BY <1>0, <2>1, <2>2, <2>3 DEF Latest
<1>3. ASSUME job'.at = "confirm"
      PROVE  job'.wrote \in 1..Latest' /\ file'[job'.wrote].content = job'.content
  <2>1. CASE job.at = "confirm" /\ job'.content = job.content /\ job'.wrote = job.wrote
    BY <1>0, <2>1 DEF HistoryOK
  <2>2. CASE Uploads
    <3>1. /\ job' = [job EXCEPT !.at = "confirm", !.wrote = Latest + 1]
          /\ file' = Append(file, [content |-> job.content, set |-> Latest + 1])
      BY <2>2 DEF Uploads, Written
    <3>2. job'.content = job.content /\ job'.wrote = Latest + 1
      BY <1>0, <3>1 DEF JobType
    <3> QED BY <1>0, <3>1, <3>2
  <2>3. CASE Creates
    <3>1. /\ job' = [job EXCEPT !.at = "confirm", !.wrote = 1] /\ file = <<>>
          /\ file' = Append(file, [content |-> job.content, set |-> Latest + 1])
      BY <1>3, <2>3 DEF Creates, Written, Finish, NoJob
    <3>2. job'.content = job.content /\ job'.wrote = 1 /\ Latest = 0
      BY <1>0, <3>1 DEF JobType, Latest
    <3> QED BY <1>0, <3>1, <3>2
  <2> QED BY <1>3, <2>1, <2>2, <2>3, JobChanges
<1> QED BY <1>2, <1>3 DEF HistoryOK

LEMMA OwnStep == DriveTypes /\ OwnIsNoNews /\ [Next]_vars => OwnIsNoNews'
<1> SUFFICES ASSUME DriveTypes, OwnIsNoNews, [Next]_vars PROVE OwnIsNoNews'
  OBVIOUS
<1>0. /\ news \subseteq 1..made /\ made \in Nat /\ doc \in 0..made /\ late \subseteq 0..made
      /\ job.content \in 0..made /\ look.local \in 0..made
  BY CarriedTypes DEF DriveTypes, NewsOK, MadeOK, FileOK
<1>1. \/ news' \subseteq news /\ (doc' \in {doc, made + 1} \/ doc' \notin news')
      \/ news' = news \cup {made + 1} /\ doc' = doc
  BY NewsChanges DEF Sees, OthersWrite
<1>2. made + 1 \notin news /\ 0 \notin news' /\ made + 1 \notin late \cup {doc, job.content, look.local}
  BY <1>0, <1>1
<1>3. doc' \notin news' /\ \A c \in late \cup {doc, job.content, look.local, 0} : c \notin news'
  BY <1>0, <1>1, <1>2 DEF OwnIsNoNews
<1> QED BY <1>3, JobChanges, LookChanges DEF OwnIsNoNews

(* A step that does not change the file: the tab comes to take a version    *)
(* for one it has looked at only by looking at it.                          *)
LEMMA UnseenStays ==
  ASSUME DriveTypes, HistoryOK, OwnIsNoNews, [Next]_vars, UNCHANGED file, ~OthersWrite,
         Unseen, ~TakenAsSeen, ~Sees
  PROVE  ~TakenAsSeen'
<1>0. /\ job \in JobType(Latest, made) /\ look \in LookType(Latest, made) /\ FileIsThere
      /\ Latest' = Latest /\ Latest \in Nat /\ Latest # 0
      /\ Remote \notin {doc, job.content, look.local}
  BY RemoteType DEF DriveTypes, JobOK, LookOK, Latest, FileOK, Unseen, OwnIsNoNews
<1>1. /\ obs.version # Latest /\ job.known.version # Latest /\ job.at # "upload"
      /\ look.at # "opened"
      /\ ~(look.at = "handoff" /\ "bytes" \notin look.left
              /\ ("metadata" \in look.left \/ look.meta = Latest))
  BY DEF TakenAsSeen
<1> DEFINE quietObs == obs'.version # Latest
           quietJob == job'.known.version # Latest /\ job'.at # "upload"
           quietLook == /\ look'.at # "opened"
                        /\ ~(look'.at = "handoff" /\ "bytes" \notin look'.left
                                /\ ("metadata" \in look'.left \/ look'.meta = Latest))
<1>2. obs' = obs \/ obs' = NoObs => quietObs
  BY <1>0, <1>1 DEF NoObs
<1>3. job' = job \/ job' = NoJob \/ SaveBegins => quietJob
  <2>1. ASSUME job' \in {job, NoJob, [NoJob EXCEPT !.at = "export"]} PROVE quietJob
    BY <1>0, <1>1, <2>1 DEF NoJob, NoObs
  <2> QED BY <2>1 DEF SaveBegins
<1>4. look' = look \/ look' = NoLook => quietLook
  BY <1>1 DEF NoLook
<1>5. quietObs /\ quietJob /\ quietLook => ~TakenAsSeen'
  BY <1>0 DEF TakenAsSeen
<1>6. ASSUME NEW at \in {"export", "latest", "create", "read", "check"}, job'.at = at,
             job'.known = job.known \/ job'.known = obs
      PROVE  quietJob
  BY <1>1, <1>6
<1> HIDE DEF quietObs, quietJob, quietLook
<1>7. CASE Edit \/ PressSave \/ TimerFires \/ LateArrives \/ Bump \/ Follows
  BY <1>2, <1>3, <1>4, <1>5, <1>7
     DEF Edit, PressSave, TimerFires, LateArrives, Bump, Follows, linkVars
<1>8. CASE Export
  <2>1. CASE job' = [job EXCEPT !.content = doc, !.known = obs,
                          !.at = IF creating \/ ~bound THEN "create" ELSE "latest"]
    <3>1. PICK at \in {"create", "latest"} :
            job' = [job EXCEPT !.content = doc, !.known = obs, !.at = at]
      BY <2>1
    <3>2. job'.at = at /\ job'.known = obs
      BY <1>0, <3>1 DEF JobType
    <3>3. quietJob
      BY <1>6, <3>2
    <3> QED BY <1>2, <1>4, <1>5, <1>8, <3>3 DEF Export
  <2> QED BY <1>2, <1>3, <1>4, <1>5, <1>8, <2>1 DEF Export, Finish
<1>9. CASE LooksAtLatest
  <2>1. job' = [job EXCEPT !.at = "export"] \/ job' = [job EXCEPT !.at = "read", !.latest = Latest]
    BY <1>0, <1>1, <1>9 DEF LooksAtLatest, Unchanged
  <2>2. quietJob
    BY <1>0, <1>6, <2>1 DEF JobType
  <2>3. obs' = obs \/ obs' = NoObs
    BY <1>0, <1>1, <1>9 DEF LooksAtLatest, Unchanged
  <2> QED BY <1>2, <1>4, <1>5, <1>9, <2>2, <2>3 DEF LooksAtLatest
<1>10. CASE Checks
  <2>1. job' = NoJob /\ obs' = obs /\ look' = look
    BY <1>1, <1>10 DEF Checks, AsKnown, Finish, linkVars
  <2> QED BY <1>2, <1>3, <1>4, <1>5, <2>1
<1>11. CASE Uploads
  BY <1>1, <1>11 DEF Uploads
<1>12. CASE Creates
  <2>1. job' = NoJob
    BY <1>0, <1>12 DEF Creates, Finish, Unseen
  <2> QED BY <1>2, <1>3, <1>4, <1>5, <1>12, <2>1 DEF Creates, linkVars
<1>13. CASE Confirms
  <2>1. ~StillThere(job.wrote)
    <3> SUFFICES ASSUME file[Latest].set = job.wrote PROVE FALSE
      BY DEF StillThere
    <3>1. Remote = job.content
      BY <1>0, <1>13 DEF Confirms, HistoryOK, Remote
    <3> QED BY <1>0, <3>1
  <2> QED BY <1>2, <1>3, <1>4, <1>5, <1>13, <2>1 DEF Confirms, Finish
<1>14. CASE SaveFails \/ Disconnect \/ TokenExpires \/ Reload
  BY <1>2, <1>3, <1>4, <1>5, <1>14
     DEF SaveFails, Finish, Disconnect, TokenExpires, Disconnected, Reload, linkVars
<1>15. CASE Connect
  <2>1. look' = look \/ look'.at = "connect"
    BY <1>15 DEF Connect, NoLook
  <2> QED BY <1>2, <1>3, <1>4, <1>5, <1>15, <2>1 DEF Connect, linkVars, quietLook
<1>16. CASE ConnectLooks
  <2>1. look' = [look EXCEPT !.at = "connectReads", !.meta = Latest] /\ UNCHANGED <<obs, job>>
    BY <1>0, <1>16 DEF ConnectLooks, Unseen
  <2>2. quietLook
    BY <1>0, <2>1 DEF LookType, quietLook
  <2> QED BY <1>2, <1>3, <1>5, <2>1, <2>2
<1>17. CASE Open \/ Leads
  <2>1. quietLook
    BY <1>17 DEF Open, Leads, NoLook, quietLook
  <2> QED BY <1>2, <1>3, <1>5, <1>17, <2>1 DEF Open, Leads, linkVars
<1>18. CASE PicksNothing \/ LookFails \/ OpenRoom \/ LeaveRoom \/ UNCHANGED vars
  BY <1>2, <1>3, <1>4, <1>5, <1>18
     DEF PicksNothing, LookFails, OpenRoom, LeaveRoom, vars, linkVars
<1>19. CASE Reads \/ ConnectReads \/ Imports \/ Opened
  BY <1>1, <1>19 DEF Reads, ConnectReads, Imports, Opened
<1>20. CASE HandoffLooks
  <2>1. PICK what \in look.left :
          /\ look' = [look EXCEPT !.left = @ \ {what},
                         !.meta = IF what = "metadata" THEN Latest ELSE @,
                         !.remote = IF what = "bytes" THEN Remote ELSE @,
                         !.local = IF what = "project" THEN doc ELSE @]
          /\ what # "bytes"
    BY <1>20 DEF HandoffLooks
  <2>2. /\ look'.at = "handoff" /\ look'.left = look.left \ {what}
        /\ look'.meta = IF what = "metadata" THEN Latest ELSE look.meta
    BY <1>0, <1>20, <2>1 DEF LookType, HandoffLooks
  <2>3. "bytes" \in look.left => "bytes" \in look'.left
    BY <2>1, <2>2
  <2>4. "bytes" \notin look.left => "metadata" \notin look.left /\ look.meta # Latest
    BY <1>1, <1>20 DEF HandoffLooks
  <2>5. quietLook
    BY <2>1, <2>2, <2>3, <2>4 DEF quietLook
  <2> QED BY <1>2, <1>3, <1>5, <1>20, <2>5 DEF HandoffLooks, linkVars
<1>21. CASE HandoffEnds
  <2>1. look.meta # Latest
    BY <1>1, <1>21 DEF HandoffEnds
  <2>2. quietObs
    BY <1>2, <1>21, <2>1 DEF HandoffEnds, Track, quietObs
  <2> QED BY <1>3, <1>4, <1>5, <1>21, <2>2 DEF HandoffEnds
<1> QED BY <1>7, <1>8, <1>9, <1>10, <1>11, <1>12, <1>13, <1>14, <1>15, <1>16, <1>17, <1>18,
           <1>19, <1>20, <1>21 DEF Next, Saving, Looking

LEMMA SeenStep == DriveTypes /\ SeenInv /\ [Next]_vars => SeenInv'
<1> SUFFICES ASSUME DriveTypes, SeenInv, [Next]_vars, Unseen' PROVE ~TakenAsSeen'
  BY HistoryStep, OwnStep DEF SeenInv
<1>0. /\ Latest \in Nat /\ obs.version \in 0..Latest /\ job.known.version \in 0..Latest
      /\ look.meta \in 0..Latest
      /\ \A e : file' = Append(file, e) => Latest' = Latest + 1 /\ file'[Latest'] = e
      /\ HistoryOK /\ OwnIsNoNews /\ (Unseen => ~TakenAsSeen)
  BY FileStep DEF DriveTypes, ObsOK, JobOK, LookOK, ObsType, JobType, LookType, SeenInv
<1>a. ASSUME NEW c, file' = Written(c) PROVE Latest' = Latest + 1 /\ Remote' = c
  <2>1. Latest' = Latest + 1 /\ file'[Latest'] = [content |-> c, set |-> Latest + 1]
    BY <1>0, <1>a DEF Written
  <2> QED BY <2>1 DEF Remote
<1>1. CASE OthersWrite
  <2>1. /\ Latest' = Latest + 1 /\ Remote' = made'
        /\ UNCHANGED <<obs, job, look>>
        /\ raced' = IF job.at = "upload" THEN raced \cup {made'} ELSE raced
        /\ torn' = IF Downloaded THEN torn \cup {made'} ELSE torn
    BY <1>a, <1>1 DEF OthersWrite, linkVars
  <2>2. job.at # "upload" /\ ~Downloaded
    BY <2>1 DEF Unseen
  <2> QED BY <1>0, <2>1, <2>2 DEF TakenAsSeen, Downloaded
<1>2. CASE Bump
  <2>1. /\ Latest' = Latest + 1 /\ Remote' = Remote /\ file # <<>>
        /\ UNCHANGED <<obs, job, look, news, raced, torn>>
    BY <1>0, <1>2 DEF Bump, Remote, linkVars
  <2>2. ~TakenAsSeen
    BY <1>0, <2>1 DEF Unseen
  <2> QED BY <1>0, <2>1, <2>2 DEF TakenAsSeen
<1>3. ASSUME NEW c \in late \cup {job.content}, file' = Written(c), UNCHANGED <<news, raced, torn>>
      PROVE  FALSE
  <2>1. Remote' = c
    BY <1>a, <1>3
  <2> QED BY <1>0, <1>3, <2>1 DEF Unseen, OwnIsNoNews
<1>4. CASE UNCHANGED file /\ ~OthersWrite
  <2>1. Remote' = Remote
    BY <1>4 DEF Remote, Latest
  <2>2. ~Sees
    BY <2>1 DEF Sees, Unseen
  <2>3. Unseen
    BY <1>4, <2>1, <2>2, NewsChanges DEF Unseen
  <2> QED BY <1>0, <1>4, <2>2, <2>3, UnseenStays
<1> QED BY <1>1, <1>2, <1>3, <1>4, FileChanges

LEMMA InitSeen == Init => SeenInv
<1>1. Init => HistoryOK
  <2> SUFFICES ASSUME Init PROVE HistoryOK
    OBVIOUS
  <2>1. CASE file = <<>>
    BY <2>1 DEF Init, HistoryOK, Latest, NoJob
  <2>2. CASE file = <<[content |-> 0, set |-> 1]>>
    BY <2>2 DEF Init, HistoryOK, Latest, NoJob
  <2> QED BY <2>1, <2>2 DEF Init
<1>2. Init => OwnIsNoNews /\ ~Unseen
  BY DEF Init, OwnIsNoNews, Unseen
<1> QED BY <1>1, <1>2 DEF SeenInv

(* A save replaces what others wrote and the tab never looked at only if it *)
(* was written after the last look of that save, or between the two         *)
(* requests of an open or a handoff.                                        *)
THEOREM ReplacesOnlySeen == Spec => OverwritesWhatItSaw
<1>1. DriveTypes /\ SeenInv /\ [Next]_vars => SeenInv'
  BY SeenStep
<1>2. SeenInv => \A c \in news : Replaces(c) => c \in raced \cup torn
  BY DEF SeenInv, Unseen, TakenAsSeen, Replaces
<1> QED BY InitSeen, <1>1, <1>2, TypesInit, DriveTypesStep, PTL DEF Spec, OverwritesWhatItSaw

-----------------------------------------------------------------------------
(* What becomes of an edit.                                                 *)

(* The save under way brings the project as it is now.                      *)
Carried == job.at # "none" /\ ~job.moved /\ (job.at = "export" \/ job.content = doc)

(* A noted edit is on Drive, on its way there, or waited for by the         *)
(* autosave -- or its save has ended otherwise, and the tab does not show   *)
(* "synced".                                                                *)
NotedInv ==
    noted => \/ Held(doc) \/ Carried
             \/ timer /\ Eligible
             \/ changed /\ Eligible
             \/ status # "synced" /\ job.at = "none"

LEMMA HeldStays ==
  ASSUME DriveTypes, [Next]_vars, NEW c, Held(c)
  PROVE  \E v \in DOMAIN file' : file'[v].content = c
<1>1. PICK v \in DOMAIN file : file[v].content = c
  BY DEF Held
<1>2. v \in 1..Latest /\ v \in 1..Latest'
  BY FileStep DEF DriveTypes, FileOK, Latest
<1>3. v \in DOMAIN file' /\ file'[v] = file[v]
  BY <1>2, FileStep DEF FileOK, Latest
<1> QED BY <1>1, <1>3

(* A step after which the edit is where it was.                             *)
LEMMA NotedStays ==
  ASSUME DriveTypes, [Next]_vars, NotedInv, doc' = doc, noted' => noted,
         Carried => Carried' \/ Held(doc),
         timer /\ Eligible => timer' /\ Eligible',
         changed /\ Eligible => changed' /\ Eligible',
         status # "synced" /\ job.at = "none" => (status' # "synced" /\ job'.at = "none") \/ Carried'
  PROVE  NotedInv'
<1>1. Held(doc) => Held(doc)'
  BY HeldStays DEF Held
<1> QED BY <1>1, Zenon DEF NotedInv

(* A save ends with what the tab then shows.                                *)
LEMMA SaveEnds ==
  ASSUME DriveTypes, [Next]_vars, NotedInv, UNCHANGED <<doc, token, room, bound, noted>>,
         job.at # "none", job' = NoJob, NEW shown, SetStatus(shown), AutosaveGoesOn(shown),
         shown = "synced" /\ Carried => Held(doc)
  PROVE  NotedInv'
<1>1. job'.at = "none" /\ status' = shown
  BY DEF NoJob, SetStatus
<1>2. CASE shown # "synced"
  BY <1>1, <1>2, Zenon DEF NotedInv
<1>3. CASE shown = "synced" /\ noted
  <2>1. ~held' /\ ~confirm' /\ (room /\ shown = "conflict" <=> FALSE)
    <3>1. ~held'
      BY <1>3 DEF SetStatus, ConflictAfter
    <3>2. ~confirm'
      BY <1>3 DEF SetStatus
    <3> QED BY <1>3, <3>1, <3>2
  <2>2. Eligible => Eligible'
    BY <2>1, Zenon DEF Eligible, Ready
  <2>3. timer /\ Eligible => timer'
    BY <2>1, Zenon DEF AutosaveGoesOn
  <2>4. changed /\ Eligible => timer'
    <3>1. changed => waits
      BY DEF DriveTypes, WaitsOK
    <3>2. Eligible => Ready(held', confirm')
      BY <2>1, Zenon DEF Eligible, Ready
    <3> QED BY <2>1, <3>1, <3>2, Zenon DEF AutosaveGoesOn
  <2>5. Held(doc) => Held(doc)'
    BY HeldStays DEF Held
  <2> QED BY <1>3, <2>2, <2>3, <2>4, <2>5, Zenon DEF NotedInv
<1>4. CASE ~noted
  BY <1>4, Zenon DEF NotedInv
<1> QED BY <1>2, <1>3, <1>4

(* A save begins for what was noted, or what was noted is forgotten.        *)
LEMMA SaveBeginsNoted ==
  ASSUME SaveBegins
  PROVE  noted' => job' = [NoJob EXCEPT !.at = "export"] /\ Carried' /\ job.at = "none"
<1>1. ASSUME job' = [NoJob EXCEPT !.at = "export"] PROVE Carried'
  <2>1. job'.at = "export" /\ job'.moved = FALSE
    BY <1>1 DEF NoJob
  <2> QED BY <2>1 DEF Carried
<1>2. noted' => job.at = "none"
  BY DEF SaveBegins
<1>3. job.at = "none" => job' = [NoJob EXCEPT !.at = "export"]
  BY DEF SaveBegins
<1> QED BY <1>1, <1>2, <1>3

LEMMA SaveNoted ==
  ASSUME DriveTypes, HistoryOK, NotedInv, Saving \/ SaveFails, [Next]_vars
  PROVE  NotedInv'
<1>0. /\ job \in JobType(Latest, made) /\ FileIsThere
      /\ file # <<>> => Latest \in DOMAIN file
      /\ \A v \in 1..Latest : v \in DOMAIN file
  BY RemoteType DEF DriveTypes, JobOK, FileOK, Latest
<1>1. ASSUME NEW next, Finish(next), job.at # "none",
             UNCHANGED <<doc, token, room, bound, noted>>,
             next = "synced" /\ ~job.moved /\ Carried => Held(doc)
      PROVE  NotedInv'
  <2>1. PICK shown : /\ shown = IF job.moved THEN status ELSE next
                     /\ SetStatus(shown) /\ AutosaveGoesOn(shown) /\ job' = NoJob
    BY <1>1 DEF Finish
  <2>2. shown = "synced" /\ Carried => Held(doc)
    BY <1>1, <2>1 DEF Carried
  <2> QED BY <1>1, <2>1, <2>2, SaveEnds
<1>2. ASSUME FindsItThere, job.at # "none", job.at # "export", file # <<>>, Remote = job.content,
             UNCHANGED <<doc, token, room, bound, noted>>
      PROVE  NotedInv'
  <2>1. Carried => Held(doc)
    BY <1>0, <1>2 DEF Carried, Held, Remote
  <2> QED BY <1>2, <2>1, SaveEnds DEF FindsItThere
<1>3. ASSUME job.at # "none", job'.at # "none", Carried => Carried',
             UNCHANGED <<doc, token, room, bound, noted, statusVars, autoVars>>
      PROVE  NotedInv'
  <2>1. timer /\ Eligible => timer' /\ Eligible'
    BY <1>3, Zenon DEF Eligible, Ready, statusVars, autoVars
  <2>2. changed /\ Eligible => changed' /\ Eligible'
    BY <1>3, Zenon DEF Eligible, Ready, statusVars, autoVars
  <2> QED BY <1>3, <2>1, <2>2, NotedStays, Zenon
<1>4. CASE Export
  <2>1. CASE job.moved
    BY <1>1, <1>4, <2>1 DEF Export, ghosts
  <2>2. CASE ~job.moved
    <3>1. /\ job.at # "none" /\ UNCHANGED <<doc, token, room, noted, statusVars, autoVars>>
          /\ bound' = TRUE
          /\ job' = [job EXCEPT !.content = doc, !.known = obs,
                          !.at = IF creating \/ ~bound THEN "create" ELSE "latest"]
      BY <1>4, <2>2 DEF Export, ghosts
    <3>2. job'.at # "none" /\ job'.content = doc /\ job'.moved = job.moved
      BY <1>0, <3>1 DEF JobType
    <3>3. Carried'
      BY <2>2, <3>1, <3>2 DEF Carried
    <3> QED BY <3>3, Zenon DEF NotedInv
  <2> QED BY <2>1, <2>2
<1>5. CASE LooksAtLatest
  <2>1. CASE file = <<>>
    <3>1. noted' = noted /\ doc' = doc /\ job' = [job EXCEPT !.at = "export"]
          /\ UNCHANGED <<statusVars, autoVars, token, room>> /\ job.at = "latest"
      BY <1>5, <2>1 DEF LooksAtLatest, ghosts
    <3>2. job'.at = "export" /\ job'.moved = job.moved
      BY <1>0, <3>1 DEF JobType
    <3>3. CASE ~job.moved
      <4>1. Carried'
        BY <3>2, <3>3 DEF Carried
      <4> QED BY <4>1, Zenon DEF NotedInv
    <3>4. CASE job.moved
      <4>1. FALSE
        BY <1>0, <2>1, <3>4 DEF FileIsThere
      <4> QED BY <4>1
    <3> QED BY <3>3, <3>4
  <2>2. CASE file # <<>>
    <3>1. UNCHANGED <<doc, token, room, bound, noted>> /\ job.at = "latest"
      BY <1>5, <2>2 DEF LooksAtLatest, ghosts
    <3>2. CASE FindsItThere /\ Remote = job.content
      BY <1>2, <2>2, <3>1, <3>2
    <3>3. ASSUME UNCHANGED <<statusVars, autoVars>>,
                 job' = [job EXCEPT !.at = "check"]
                   \/ job' = [job EXCEPT !.at = "read", !.latest = Latest]
          PROVE  NotedInv'
      <4>1. job'.at \in {"check", "read"} /\ job'.moved = job.moved /\ job'.content = job.content
        BY <1>0, <3>3 DEF JobType
      <4>2. Carried => Carried'
        BY <3>1, <4>1 DEF Carried
      <4> QED BY <1>3, <3>1, <3>3, <4>1, <4>2
    <3> QED BY <1>5, <2>2, <3>2, <3>3 DEF LooksAtLatest
  <2> QED BY <2>1, <2>2
<1>6. CASE Reads
  <2>1. UNCHANGED <<doc, token, room, bound, noted>> /\ job.at = "read" /\ file # <<>>
    BY <1>0, <1>6 DEF Reads, FileIsThere
  <2>2. CASE FindsItThere /\ Remote = job.content
    BY <1>2, <2>1, <2>2
  <2>3. CASE Finish("conflict")
    BY <1>1, <2>1, <2>3
  <2>4. ASSUME UNCHANGED <<statusVars, autoVars>>,
               job' = [job EXCEPT !.known = obs', !.latest = 0, !.at = "check"]
        PROVE  NotedInv'
    <3>1. job'.at = "check" /\ job'.moved = job.moved /\ job'.content = job.content
      BY <1>0, <2>4 DEF JobType
    <3>2. Carried => Carried'
      BY <2>1, <3>1 DEF Carried
    <3> QED BY <1>3, <2>1, <2>4, <3>1, <3>2
  <2> QED BY <1>6, <2>2, <2>3, <2>4 DEF Reads
<1>7. ASSUME Checks \/ Uploads \/ Creates PROVE NotedInv'
  <2>1. UNCHANGED <<doc, token, room, bound, noted>> /\ job.at \in {"check", "upload", "create"}
    BY <1>7 DEF Checks, Uploads, Creates, linkVars, ghosts
  <2>2. CASE Finish("conflict") \/ Finish("unsynced")
    BY <1>1, <2>1, <2>2
  <2>3. ASSUME UNCHANGED <<statusVars, autoVars>>,
               \/ job' = [job EXCEPT !.at = "upload", !.known = NoObs]
               \/ job' = [job EXCEPT !.at = "confirm", !.wrote = 1]
               \/ job' = [job EXCEPT !.at = "confirm", !.wrote = Latest + 1]
        PROVE  NotedInv'
    <3>1. job'.at \in {"upload", "confirm"} /\ job'.moved = job.moved /\ job'.content = job.content
      BY <1>0, <2>3 DEF JobType
    <3>2. Carried => Carried'
      BY <2>1, <3>1 DEF Carried
    <3> QED BY <1>3, <2>1, <2>3, <3>1, <3>2
  <2>4. UNCHANGED <<statusVars, autoVars>> \/ Finish("conflict") \/ Finish("unsynced")
    BY <1>7 DEF Checks, Uploads, Creates
  <2> QED BY <1>7, <2>2, <2>3, <2>4 DEF Checks, Uploads, Creates
<1>8. CASE Confirms
  <2>1. UNCHANGED <<doc, token, room, bound, noted>> /\ job.at = "confirm"
    BY <1>8 DEF Confirms, ghosts
  <2>2. Carried => Held(doc)
    BY <1>0, <2>1 DEF Carried, Held, HistoryOK
  <2> QED BY <1>1, <1>8, <2>1, <2>2 DEF Confirms
<1>9. CASE SaveFails
  BY <1>1, <1>9 DEF SaveFails, linkVars, ghosts
<1> QED BY <1>4, <1>5, <1>6, <1>7, <1>8, <1>9 DEF Saving

LEMMA OtherStatus ==
  ASSUME NEW next \in {"connected", "syncing", "unsynced"}, SetStatus(next)
  PROVE  status' # "synced" /\ (held' <=> held) /\ (confirm' <=> confirm)
<1>1. next # "synced" /\ next # "disconnected" /\ next # "conflict"
  OBVIOUS
<1>2. status' # "synced"
  BY <1>1 DEF SetStatus
<1>3. held' <=> held
  BY <1>1 DEF SetStatus, ConflictAfter
<1>4. confirm' <=> confirm
  BY <1>1 DEF SetStatus
<1> QED BY <1>2, <1>3, <1>4

LEMMA NotedStep == DriveTypes /\ HistoryOK /\ NotedInv /\ [Next]_vars => NotedInv'
<1> SUFFICES ASSUME DriveTypes, HistoryOK, NotedInv, [Next]_vars PROVE NotedInv'
  OBVIOUS
<1>1. ASSUME noted' => noted, UNCHANGED <<doc, job, token, room, bound>>,
             timer /\ Eligible /\ noted' => timer', changed /\ Eligible /\ noted' => changed',
             noted' => (held' => held) /\ (confirm' => confirm),
             status # "synced" => status' # "synced"
      PROVE  NotedInv'
  <2>1. CASE ~noted'
    BY <2>1, Zenon DEF NotedInv
  <2>2. CASE noted'
    <3>1. Carried => Carried'
      BY <1>1 DEF Carried
    <3>2. Eligible => Eligible'
      BY <1>1, <2>2, Zenon DEF Eligible, Ready
    <3>3. job'.at = job.at
      BY <1>1
    <3> QED BY <1>1, <2>2, <3>1, <3>2, <3>3, NotedStays, Zenon
  <2> QED BY <2>1, <2>2
<1>2. CASE ~noted'
  BY <1>2, Zenon DEF NotedInv
<1>3. CASE status' = "disconnected" /\ job' = NoJob
  <2>1. status' # "synced" /\ job'.at = "none"
    BY <1>3 DEF NoJob
  <2> QED BY <2>1, Zenon DEF NotedInv
<1>4. CASE Edit
  <2>1. /\ noted' <=> Eligible
        /\ Eligible => timer' \/ changed'
    <3>1. noted' <=> Eligible
      BY <1>4, Zenon DEF Edit
    <3>2. Eligible /\ ~waits => timer'
      BY <1>4, Zenon DEF Edit
    <3>3. Eligible /\ waits => changed'
      BY <1>4, Zenon DEF Edit
    <3> QED BY <3>1, <3>2, <3>3, Zenon
  <2>2. (held' <=> held) /\ (confirm' <=> confirm) /\ UNCHANGED <<token, room, bound>>
    <3>1. CASE status = "synced"
      BY <1>4, <3>1, OtherStatus DEF Edit, linkVars
    <3>2. CASE status # "synced"
      BY <1>4, <3>2 DEF Edit, linkVars, statusVars
    <3> QED BY <3>1, <3>2
  <2>3. Eligible => Eligible'
    BY <2>2, Zenon DEF Eligible, Ready
  <2> QED BY <2>1, <2>3, Zenon DEF NotedInv
<1>5. CASE PressSave \/ (TimerFires /\ Eligible)
  <2>1. SaveBegins
    BY <1>5 DEF PressSave, TimerFires
  <2> QED BY <2>1, SaveBeginsNoted, Zenon DEF NotedInv
<1>6. CASE TimerFires /\ ~Eligible
  BY <1>1, <1>6 DEF TimerFires, linkVars, statusVars
<1>7. CASE Disconnect \/ TokenExpires
  BY <1>3, <1>7 DEF Disconnect, TokenExpires, Disconnected, SetStatus
<1>8. CASE Reload
  BY <1>3, <1>8 DEF Reload
<1>9. CASE Imports \/ Opened \/ LeaveRoom
  BY <1>2, <1>9 DEF Imports, Opened, LeaveRoom
<1>10. CASE LateArrives \/ OthersWrite \/ Bump \/ Leads \/ HandoffLooks
  BY <1>1, <1>10
     DEF LateArrives, OthersWrite, Bump, Leads, HandoffLooks, linkVars, statusVars, autoVars, ghosts
<1>11. CASE UNCHANGED vars
  BY <1>1, <1>11 DEF vars, linkVars, statusVars, autoVars, ghosts
<1>12. CASE Follows
  BY <1>1, <1>12 DEF Follows, linkVars, autoVars, ghosts
<1>13. CASE OpenRoom
  <2>1. ~Eligible /\ UNCHANGED <<doc, job, status, noted>>
    BY <1>13 DEF OpenRoom, Eligible, Ready, ghosts
  <2>2. Carried => Carried'
    BY <2>1 DEF Carried
  <2>3. job'.at = job.at
    BY <2>1
  <2> QED BY <2>1, <2>2, <2>3, NotedStays, Zenon
<1>14. CASE ConnectLooks \/ ConnectReads \/ Open \/ PicksNothing
  <2>1. (\E next \in {"connected", "syncing", "unsynced"} : SetStatus(next)) \/ UNCHANGED statusVars
    BY <1>14 DEF ConnectLooks, ConnectReads, Open, PicksNothing
  <2>2. (held' <=> held) /\ (confirm' <=> confirm) /\ (status # "synced" => status' # "synced")
    BY <2>1, OtherStatus DEF statusVars
  <2>3. UNCHANGED <<doc, job, token, room, bound, timer, changed, noted>>
    BY <1>14 DEF ConnectLooks, ConnectReads, Open, PicksNothing, linkVars, autoVars, ghosts
  <2> QED BY <1>1, <2>2, <2>3
<1>15. CASE Connect
  <2>1. SetStatus("connected") \/ UNCHANGED statusVars
    BY <1>15 DEF Connect
  <2>2. (held' <=> held) /\ (confirm' <=> confirm) /\ (status # "synced" => status' # "synced")
    BY <2>1, OtherStatus DEF statusVars
  <2>3. UNCHANGED <<doc, job, room, bound, timer, changed, noted>> /\ token'
    BY <1>15 DEF Connect, linkVars, autoVars, ghosts
  <2>4. Eligible => Eligible'
    BY <2>2, <2>3, Zenon DEF Eligible, Ready
  <2>5. (Carried => Carried') /\ job'.at = job.at
    BY <2>3 DEF Carried
  <2> QED BY <2>2, <2>3, <2>4, <2>5, NotedStays, Zenon
<1>16. CASE HandoffEnds \/ LookFails
  <2>1. /\ UNCHANGED <<doc, job, token, room, bound>>
        /\ \/ UNCHANGED <<statusVars, timer, changed, noted>>
           \/ status' = "unsynced" /\ Holds /\ UNCHANGED confirm /\ (held' => held \/ held')
    BY <1>16 DEF HandoffEnds, LookFails, linkVars
  <2>2. CASE UNCHANGED <<statusVars, timer, changed, noted>>
    BY <1>1, <2>1, <2>2 DEF statusVars
  <2>3. CASE status' = "unsynced" /\ Holds /\ UNCHANGED confirm
    <3>1. /\ noted' => noted /\ ~held'
          /\ timer /\ ~held' => timer'
          /\ changed /\ ~held' => changed'
      BY <2>3, Zenon DEF Holds
    <3>2. confirm' => confirm
      BY <2>3
    <3>3. status' # "synced"
      BY <2>3
    <3> QED BY <1>1, <2>1, <3>1, <3>2, <3>3, Zenon
  <2> QED BY <2>1, <2>2, <2>3
<1>17. CASE Saving \/ SaveFails
  BY <1>17, SaveNoted
<1>18. CASE TimerFires
  BY <1>5, <1>6, <1>18, Zenon
<1> QED BY <1>4, <1>5, <1>7, <1>8, <1>9, <1>10, <1>11, <1>12, <1>13, <1>14, <1>15, <1>16,
           <1>17, <1>18 DEF Next, Looking

(* An edit the autosave took note of is on Drive once the tab is at rest    *)
(* and shows "synced".                                                      *)
THEOREM NotedEditsAreSaved == Spec => []NotedEditsReachDrive
<1>1. Init => HistoryOK /\ NotedInv
  <2>1. Init => NotedInv
    BY Zenon DEF Init, NotedInv
  <2>2. Init => HistoryOK
    BY InitSeen DEF SeenInv
  <2> QED BY <2>1, <2>2
<1>2. DriveTypes /\ HistoryOK /\ NotedInv /\ [Next]_vars => HistoryOK' /\ NotedInv'
  BY HistoryStep, NotedStep
<1>3. DriveTypes /\ NotedInv => NotedEditsReachDrive
  <2> SUFFICES ASSUME DriveTypes, NotedInv, AtRest, noted, status = "synced" PROVE Held(doc)
    BY DEF NotedEditsReachDrive
  <2>1. job.at = "none" /\ ~timer
    BY DEF AtRest, NoJob
  <2>2. ~changed
    BY <2>1 DEF DriveTypes, WaitsOK
  <2>3. ~Carried
    BY <2>1 DEF Carried
  <2> QED BY <2>1, <2>2, <2>3 DEF NotedInv
<1> QED BY <1>1, <1>2, <1>3, TypesInit, DriveTypesStep, PTL DEF Spec
=============================================================================
