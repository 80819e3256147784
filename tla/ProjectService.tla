--------------------------- MODULE ProjectService ---------------------------
(***************************************************************************)
(* One project on the server: the revisions and snapshots it keeps and how *)
(* it answers a request to save or to restore (packages/project-service    *)
(* over project-store-sqlite and project-snapshots-fs).  A handler runs to *)
(* completion between two awaits and commits in one immediate transaction, *)
(* so answering is one step; a snapshot is two, its file and its row, with *)
(* a crash or the sweep of a booting server possible in between.           *)
(*                                                                         *)
(* A document is a number (0 is the empty one of createProject): what the  *)
(* content hash tells apart, and no more.  Revision 0 is not in revs.      *)
(***************************************************************************)
EXTENDS Naturals, Sequences

CONSTANTS
    Documents,   \* the documents there are, 0 among them
    MaxOutside   \* bound on what others do (ask, take a snapshot, boot) and on
                 \* the requests and answers that are lost

ASSUME ServiceAssumption ==
    /\ Documents \subseteq Nat /\ 0 \in Documents
    /\ MaxOutside \in Nat

VARIABLES
    revs,       \* project_revisions: the transaction, its hash, its document
    metas,      \* project_snapshots: the document each row points at
    blobs,      \* the snapshot files, by content
    snapping,   \* the document of the snapshot whose row is not yet there, in a set
    sweeping,   \* the keys a booting server listed before its sweep, in a set
    boots,      \* how often a second server booted
    outside     \* how much of this happened so far

serviceVars == <<revs, metas, blobs, snapping, sweeping, boots, outside>>

\* A request names its transaction (who asks, under which id), what it is to
\* do and the revision it builds on; snap is 0 for a save.
Transactions == [by : {"client", "other"}, id : Nat]
Requests == [tx : Transactions, base : Nat, doc : Documents, snap : Nat]
Revisions == [tx : Transactions, doc : Documents, snap : Nat]

\* requestHash leaves the base out: a retry may build on another revision.
Hash(r) == <<r.doc, r.snap>>

HeadDoc == IF revs = <<>> THEN 0 ELSE revs[Len(revs)].doc

\* listAllSnapshotStorageKeys
StorageKeys == {metas[i] : i \in DOMAIN metas}

ServiceInit ==
    /\ revs = <<>>
    /\ metas = <<>>
    /\ blobs = {}
    /\ snapping = {}
    /\ sweeping = {}
    /\ boots = 0
    /\ outside = 0

-----------------------------------------------------------------------------
(* saveDocument and restoreSnapshot: a transaction that is known is         *)
(* answered as it was the first time, or refused when it now carries        *)
(* something else; a new one is written if it builds on the head.           *)
Earlier(r) == {i \in DOMAIN revs : revs[i].tx = r.tx}

Replays(r) == \E i \in Earlier(r) : Hash(revs[i]) = Hash(r)

(* A definition named Slip* is a deliberate mistake, used by no action. *)
SlipAnyBase(r) == Earlier(r) = {} /\ (r.snap # 0 => r.doc \in blobs)

Commits(r) ==
    /\ Earlier(r) = {}
    /\ r.snap # 0 => r.doc \in blobs
    /\ r.base = Len(revs)

Refused == 0

AnswerTo(r) ==
    CASE Commits(r)              -> Len(revs) + 1
      [] Replays(r)              -> CHOOSE i \in Earlier(r) : TRUE
      [] ~Commits(r) /\ ~Replays(r) -> Refused

RevsAfter(r) ==
    IF Commits(r)
    THEN Append(revs, [tx |-> r.tx, doc |-> r.doc, snap |-> r.snap])
    ELSE revs

Handle(r) ==
    /\ revs' = RevsAfter(r)
    /\ UNCHANGED <<metas, blobs, snapping, sweeping, boots>>

-----------------------------------------------------------------------------
FromOutside ==
    /\ outside < MaxOutside
    /\ outside' = outside + 1

(* createSnapshot: read the head, put its file if it is not there, then     *)
(* insert the row.  One process answers nothing in between; here it may.    *)
PutSnapshotFile ==
    /\ snapping = {}
    /\ FromOutside
    /\ snapping' = {HeadDoc}
    /\ blobs' = blobs \cup {HeadDoc}
    /\ UNCHANGED <<revs, metas, sweeping, boots>>

InsertSnapshotRow ==
    /\ \E d \in snapping : metas' = Append(metas, d)
    /\ snapping' = {}
    /\ UNCHANGED <<revs, blobs, sweeping, boots, outside>>

\* gcOrphans: the files of the listed keys stay.
SlipSweepAll(keys) == {}

Kept(keys) == blobs \cap keys

\* The server dies and boots again: a snapshot half made is lost, and its
\* file swept with the other orphans before anything is served.
Restart ==
    /\ snapping' = {}
    /\ blobs' = Kept(StorageKeys)
    /\ UNCHANGED <<revs, metas, sweeping, boots, outside>>

\* A second server boots on the same directory while the first one serves:
\* it lists the keys, and sweeps by that list.
BootLists ==
    /\ sweeping = {}
    /\ FromOutside
    /\ boots' = boots + 1
    /\ sweeping' = {StorageKeys}
    /\ UNCHANGED <<revs, metas, blobs, snapping>>

BootSweeps ==
    /\ sweeping # {}
    /\ blobs' = Kept(UNION sweeping)
    /\ sweeping' = {}
    /\ UNCHANGED <<revs, metas, snapping, boots, outside>>

ServiceNext ==
    PutSnapshotFile \/ InsertSnapshotRow \/ Restart \/ BootLists \/ BootSweeps

-----------------------------------------------------------------------------
ServiceTypeOK ==
    /\ revs \in Seq(Revisions)
    /\ metas \in Seq(Documents)
    /\ blobs \subseteq Documents
    /\ snapping \subseteq Documents
    /\ sweeping \subseteq SUBSET Documents
    /\ boots \in Nat
    /\ outside \in 0..MaxOutside

\* While one server runs at a time, every snapshot that is listed can be
\* restored: its file is there, whatever the server was doing when it died
\* (createSnapshot's order, gcOrphans at boot).
SnapshotsRestorable == boots = 0 => StorageKeys \subseteq blobs

\* What the design says of gcOrphans: "Never delete a file still referenced by
\* DB".
ReferencedFilesKept == StorageKeys \subseteq blobs
=============================================================================
