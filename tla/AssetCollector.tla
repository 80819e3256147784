--------------------------- MODULE AssetCollector ---------------------------
(***************************************************************************)
(* The asset files of the persist server and their collector.  An import   *)
(* or a save may name an asset only while its row says "live"; a booting   *)
(* worker moves what nothing refers to into quarantine and, a week later,  *)
(* deletes it (apps/r1-persist-server, project-store-sqlite,               *)
(* project-assets-fs).  Rows change in transactions, files do not: between *)
(* the two a worker may die, and another may boot, import or save.         *)
(*                                                                         *)
(* Collectors exclude each other by a row with a lease (asset-gc-lock.ts). *)
(* A worker renews it before each step; when the step is a transaction the *)
(* fence is checked in it, so renewal and step are one action here.  When  *)
(* it is a file operation they are two: the worker is poised in between.   *)
(***************************************************************************)
EXTENDS Naturals

CONSTANTS
    Shas,               \* assets, by content
    Orgs,               \* organisations; each has one import at a time
    Workers,            \* server processes
    Nobody, Ghost,      \* no owner of the lock; an owner that has died
    MayStall            \* may a poised worker outlive its lease?

ASSUME CollectorAssumption ==
    /\ Nobody \notin Workers /\ Ghost \notin Workers /\ Nobody # Ghost
    /\ MayStall \in BOOLEAN

VARIABLES
    row,      \* asset_objects.gc_state, "none" without a row
    overdue,  \* quarantined for longer than the grace period
    live,     \* the files under assets/
    quar,     \* the files under assets/.quarantine/
    grants,   \* organization_asset_grants
    refs,     \* which organisation's revisions refer to which asset
    leases,   \* asset_import_leases
    expired,  \* the organisations whose leases are there, past their expires_at
    import,   \* the import of each organisation
    lock,     \* asset_gc_lock: its owner, and whether expires_at has passed
    worker    \* what each process does

fileVars == <<live, quar>>
importVars == <<leases, expired, import>>
vars == <<row, overdue, fileVars, grants, refs, importVars, lock, worker>>

RowStates == {"none", "live", "quarantining", "quarantined"}

\* The stages of runPersistBootGc, in their order.
Collecting == {"recover", "relocate", "adopt", "orphans", "cycle", "delete"}

Off == [stage |-> "off", todo |-> {}, step |-> "next", sha |-> {}, why |-> "none",
        ctx |-> {}, old |-> {}]

Init ==
    /\ row = [s \in Shas |-> "none"] /\ overdue = {}
    /\ live = {} /\ quar = {}
    /\ grants = {} /\ refs = {}
    /\ leases = {} /\ expired = {}
    /\ import = [o \in Orgs |-> [at |-> "idle", wants |-> {}, put |-> {}]]
    /\ lock = [owner |-> Nobody, lapsed |-> FALSE]
    /\ worker = [w \in Workers |-> Off]

-----------------------------------------------------------------------------
(* The lock, a quarter of an hour at a time.                                *)
Holds(w) == lock.owner = w

Renewed(w) == lock' = [owner |-> w, lapsed |-> FALSE]

SlipExpiryKept(w) == lock' = IF Holds(w) THEN [lock EXCEPT !.owner = Nobody] ELSE lock

Released(w) == lock' = IF Holds(w) THEN [owner |-> Nobody, lapsed |-> FALSE] ELSE lock

Poised(w) == worker[w].step \in {"after", "move", "drop"}

\* As much time as a lease takes goes by: not between a renewal and the file
\* operation it is for, unless the worker stalls there.
TimePasses == MayStall \/ \A w \in Workers : Holds(w) => ~Poised(w)

-----------------------------------------------------------------------------
(* Imports and saves.  importSb3Project: leases, then the files, then all   *)
(* rows, grants and the revision in one transaction.                        *)
Leased(o) == {s \in Shas : <<o, s>> \in leases}

NoImport == [at |-> "idle", wants |-> {}, put |-> {}]

CreateImportLeases(o) ==
    /\ import[o].at = "idle" /\ Leased(o) = {}
    /\ \E S \in SUBSET Shas \ {{}} :
          /\ leases' = leases \cup ({o} \X S)
          /\ import' = [import EXCEPT ![o] = [at |-> "leased", wants |-> S, put |-> {}]]
    /\ UNCHANGED <<row, overdue, fileVars, grants, refs, expired, lock, worker>>

PutIfAbsent(o, s) ==
    /\ import[o].at = "leased" /\ s \in import[o].wants \ import[o].put
    /\ live' = live \cup {s}
    /\ import' = [import EXCEPT ![o].put = @ \cup {s}]
    /\ UNCHANGED <<row, overdue, quar, grants, refs, leases, expired, lock, worker>>

\* verifyImportAssetBundle reads the files before the transaction.
VerifyBytes(o) ==
    /\ import[o].at = "leased" /\ import[o].put = import[o].wants
    /\ import[o].wants \subseteq live
    /\ import' = [import EXCEPT ![o].at = "verified"]
    /\ UNCHANGED <<row, overdue, fileVars, grants, refs, leases, expired, lock, worker>>

SlipRowNotLookedAt(s) == TRUE

Importable(s) == row[s] \in {"none", "live"}

CommitImport(o) ==
    LET S == import[o].wants
    IN  /\ import[o].at = "verified"
        /\ o \notin expired /\ Leased(o) = S
        /\ \A s \in S : Importable(s)
        /\ row' = [s \in Shas |-> IF s \in S THEN "live" ELSE row[s]]
        /\ grants' = grants \cup ({o} \X S)
        /\ refs' = refs \cup ({o} \X S)
        /\ leases' = leases \ ({o} \X Shas)
        /\ import' = [import EXCEPT ![o] = NoImport]
        /\ UNCHANGED <<overdue, fileVars, expired, lock, worker>>

\* Anything else that goes wrong, a row that is not live included.
FailImport(o) ==
    /\ import[o].at # "idle"
    /\ leases' = leases \ ({o} \X Shas)
    /\ expired' = expired \ {o}
    /\ import' = [import EXCEPT ![o] = NoImport]
    /\ UNCHANGED <<row, overdue, fileVars, grants, refs, lock, worker>>

\* The process that imports dies: the leases stay behind.
ImportDies(o) ==
    /\ import[o].at # "idle"
    /\ import' = [import EXCEPT ![o] = NoImport]
    /\ UNCHANGED <<row, overdue, fileVars, grants, refs, leases, expired, lock, worker>>

LeasesExpire(o) ==
    /\ o \notin expired /\ Leased(o) # {}
    /\ expired' = expired \cup {o}
    /\ UNCHANGED <<row, overdue, fileVars, grants, refs, leases, import, lock, worker>>

\* saveDocument: bytes, row and grant are looked at in the commit.
Savable(o, s) == s \in live /\ row[s] = "live" /\ <<o, s>> \in grants

Save(o, s) ==
    /\ Savable(o, s)
    /\ refs' = refs \cup {<<o, s>>}
    /\ UNCHANGED <<row, overdue, fileVars, grants, importVars, lock, worker>>

\* The grace period is a week and a lease is a quarter of an hour: what was
\* leased before its end has expired by then.
GraceEnds(s) ==
    /\ row[s] = "quarantined" /\ s \notin overdue /\ TimePasses
    /\ overdue' = overdue \cup {s}
    /\ expired' = expired \cup {o \in Orgs : Leased(o) # {}}
    /\ UNCHANGED <<row, fileVars, grants, refs, leases, import, lock, worker>>

-----------------------------------------------------------------------------
LockLapses ==
    /\ lock.owner # Nobody /\ ~lock.lapsed
    /\ TimePasses
    /\ lock' = [lock EXCEPT !.lapsed = TRUE]
    /\ UNCHANGED <<row, overdue, fileVars, grants, refs, importVars, worker>>

\* renewOrAbort, or the fence in a transaction, finds the lock lost.
Abort(w) ==
    /\ worker[w].stage \in Collecting /\ ~Poised(w) /\ ~Holds(w)
    /\ worker' = [worker EXCEPT ![w] = Off]
    /\ UNCHANGED <<row, overdue, fileVars, grants, refs, importVars, lock>>

\* The process dies, or is stopped.  Its next incarnation has another name, so
\* a lock it held belongs to nobody who is alive.
Die(w) ==
    /\ worker[w].stage # "off"
    /\ worker' = [worker EXCEPT ![w] = Off]
    /\ lock' = IF Holds(w) THEN [lock EXCEPT !.owner = Ghost] ELSE lock
    /\ UNCHANGED <<row, overdue, fileVars, grants, refs, importVars>>

-----------------------------------------------------------------------------
(* Booting: expired leases go, the revisions are scanned, the lock is tried.*)
(* The collector judges leases by the time of its boot, when those that had *)
(* expired were deleted: to it, every lease that is left is active, and what *)
(* becomes overdue during the boot is left for the next one.                 *)
Boot(w) ==
    /\ worker[w].stage = "off"
    /\ leases' = leases \ (expired \X Shas)
    /\ expired' = {}
    /\ worker' = [worker EXCEPT ![w] =
                    [Off EXCEPT !.stage = "scanned", !.ctx = refs, !.old = overdue]]
    /\ UNCHANGED <<row, overdue, fileVars, grants, refs, import, lock>>

Scanned(w, s) == \E o \in Orgs : <<o, s>> \in worker[w].ctx
HasLease(s) == \E o \in Orgs : <<o, s>> \in leases

\* isShaReferenced, by the scan; isSha256ReferencedLive, by the tables as they are.
ReferencedByScan(w, s) == Scanned(w, s) \/ HasLease(s)

SlipOnlyTheScan(s) == HasLease(s)

ReferencedLive(s) == HasLease(s) \/ \E o \in Orgs : <<o, s>> \in refs

\* What a stage of the collector will look at, listed when it begins.
Listed(w, stage) ==
    CASE stage = "recover"  -> {s \in Shas : row[s] = "quarantining"}
      [] stage = "relocate" -> {s \in Shas : row[s] = "quarantined"}
      [] stage = "adopt"    -> {s \in quar : row[s] \notin {"quarantining", "quarantined"}}
      [] stage = "orphans"  -> live
      [] stage = "cycle"    -> {s \in Shas : row[s] = "live" /\ ~ReferencedByScan(w, s)}
      [] stage = "delete"   -> {s \in worker[w].old \cap overdue : row[s] = "quarantined"}

Enter(w, stage) ==
    worker' = [worker EXCEPT ![w].stage = stage, ![w].todo = Listed(w, stage),
                             ![w].step = "next", ![w].sha = {}, ![w].why = "none"]

LockIsFree == lock.owner = Nobody \/ lock.lapsed

TryAcquire(w) ==
    /\ worker[w].stage = "scanned"
    /\ IF LockIsFree
       THEN Renewed(w) /\ Enter(w, "recover")
       ELSE /\ worker' = [worker EXCEPT ![w] = Off]
            /\ UNCHANGED lock
    /\ UNCHANGED <<row, overdue, fileVars, grants, refs, importVars>>

NextStage == [recover |-> "relocate", relocate |-> "adopt", adopt |-> "orphans",
              orphans |-> "cycle", cycle |-> "delete"]

\* A stage has no more to look at.
Advance(w) ==
    /\ worker[w].stage \in Collecting
    /\ worker[w].step = "next" /\ worker[w].todo = {} /\ Holds(w)
    /\ IF worker[w].stage = "delete"
       THEN /\ worker' = [worker EXCEPT ![w] = Off]
            /\ Released(w)
       ELSE Enter(w, NextStage[worker[w].stage]) /\ Renewed(w)
    /\ UNCHANGED <<row, overdue, fileVars, grants, refs, importVars>>

At(w, stage, s) ==
    worker[w].stage = stage /\ worker[w].step = "next" /\ s \in worker[w].todo /\ Holds(w)

\* The worker goes on to a step for s that belongs to what it found (why).
Step(w, s, step, why) ==
    /\ worker' = [worker EXCEPT ![w].todo = @ \ {s}, ![w].step = step,
                     ![w].sha = IF step = "next" THEN {} ELSE {s}, ![w].why = why]
    /\ Renewed(w)

-----------------------------------------------------------------------------
(* Rows a dead collector left in "quarantining": the row first              *)
(* (reconcileQuarantiningRow), then, looking at the files again, the files. *)
Outcome(w, s) ==
    CASE row[s] # "quarantining"                 -> "noop"
      [] row[s] = "quarantining" /\ s \notin live /\ s \in quar  -> "marked"
      [] row[s] = "quarantining" /\ s \notin live /\ s \notin quar ->
            IF ReferencedByScan(w, s) THEN "kept" ELSE "deleted"
      [] row[s] = "quarantining" /\ s \in live ->
            IF ReferencedByScan(w, s) THEN "restored"
            ELSE IF s \in quar THEN "marked" ELSE "kept"

ReferencingOrgs(w, s) == {o \in Orgs : <<o, s>> \in worker[w].ctx \/ <<o, s>> \in leases}

ReconcileQuarantiningRow(w, s) ==
    /\ At(w, "recover", s)
    /\ row' = [row EXCEPT ![s] =
                 CASE Outcome(w, s) = "marked"   -> "quarantined"
                   [] Outcome(w, s) = "deleted"  -> "none"
                   [] Outcome(w, s) = "restored" -> "live"
                   [] Outcome(w, s) \in {"kept", "noop"} -> @]
    /\ grants' = IF Outcome(w, s) = "restored"
                 THEN grants \cup (ReferencingOrgs(w, s) \X {s}) ELSE grants
    /\ Step(w, s, "after", Outcome(w, s))
    /\ UNCHANGED <<overdue, fileVars, refs, importVars>>

\* moveLiveToQuarantine; it throws when both files are there.
Renames(s) == s \in live /\ s \notin quar

Move(s) ==
    IF Renames(s) THEN live' = live \ {s} /\ quar' = quar \cup {s}
    ELSE UNCHANGED fileVars

SettleFiles(w) ==
    /\ worker[w].step = "after"
    /\ \E s \in worker[w].sha :
        LET why == worker[w].why
        IN  /\ CASE why = "restored" -> quar' = quar \ {s} /\ UNCHANGED live
                 [] why = "marked" /\ s \in quar -> live' = live \ {s} /\ UNCHANGED quar
                 [] why = "kept" -> Move(s)
                 [] why \notin {"restored", "kept"} /\ (why = "marked" => s \notin quar) ->
                       UNCHANGED fileVars
            /\ worker' = [worker EXCEPT
                  ![w].step = IF why = "kept" /\ (s \in live) # (s \in quar)
                              THEN "finish" ELSE "next",
                  ![w].sha = IF why = "kept" /\ (s \in live) # (s \in quar)
                             THEN {s} ELSE {},
                  ![w].why = "none"]
    /\ UNCHANGED <<row, overdue, grants, refs, importVars, lock>>

\* finishAssetQuarantineAfterRename: the row follows the file, if it is still
\* waiting for it.
FinishQuarantine(w) ==
    /\ worker[w].step = "finish" /\ Holds(w)
    /\ \E s \in worker[w].sha :
        /\ row' = [row EXCEPT ![s] =
                     IF @ = "quarantining" /\ worker[w].why # "missing"
                     THEN "quarantined" ELSE @]
        /\ Step(w, s, "next", "none")
    /\ UNCHANGED <<overdue, fileVars, grants, refs, importVars>>

-----------------------------------------------------------------------------
(* Rows in quarantine whose file is not: move it there, or forget the row.  *)
ReconcileQuarantinedRow(w, s) ==
    /\ At(w, "relocate", s)
    /\ IF Renames(s)
       THEN Move(s) /\ UNCHANGED <<row, overdue>>
       ELSE /\ IF row[s] = "quarantined" /\ s \notin live /\ s \notin quar
               THEN row' = [row EXCEPT ![s] = "none"] /\ overdue' = overdue \ {s}
               ELSE UNCHANGED <<row, overdue>>
            /\ UNCHANGED fileVars
    /\ Step(w, s, "next", "none")
    /\ UNCHANGED <<grants, refs, importVars>>

\* insertQuarantinedOrphan: files in quarantine without a row get one.
AdoptOrphan(w, s) ==
    /\ At(w, "adopt", s)
    /\ row' = [row EXCEPT ![s] = IF s \in quar /\ @ = "none" THEN "quarantined" ELSE @]
    /\ Step(w, s, "next", "none")
    /\ UNCHANGED <<overdue, fileVars, grants, refs, importVars>>

\* beginOrphanQuarantine: files without a row, a lease or not.
BeginOrphan(w, s) ==
    /\ At(w, "orphans", s)
    /\ IF row[s] = "none" /\ s \in live
       THEN row' = [row EXCEPT ![s] = "quarantining"] /\ Step(w, s, "move", "orphan")
       ELSE UNCHANGED row /\ Step(w, s, "next", "none")
    /\ UNCHANGED <<overdue, fileVars, grants, refs, importVars>>

\* beginAssetQuarantine: what nothing refers to, looked at once more.
BeginQuarantine(w, s) ==
    /\ At(w, "cycle", s)
    /\ IF ~ReferencedLive(s) /\ row[s] = "live"
       THEN /\ row' = [row EXCEPT ![s] = "quarantining"]
            /\ grants' = grants \ (Orgs \X {s})
            /\ Step(w, s, "move", "unreferenced")
       ELSE UNCHANGED <<row, grants>> /\ Step(w, s, "next", "none")
    /\ UNCHANGED <<overdue, fileVars, refs, importVars>>

\* The rename, after which the row is finished; or it throws, which an orphan
\* survives and the boot does not.
MoveToQuarantine(w) ==
    /\ worker[w].step = "move"
    /\ \E s \in worker[w].sha :
        /\ Move(s)
        /\ IF s \in live /\ s \in quar
           THEN IF worker[w].why = "orphan"
                THEN /\ worker' = [worker EXCEPT ![w].step = "next", ![w].sha = {},
                                                 ![w].why = "none"]
                     /\ UNCHANGED lock
                ELSE /\ worker' = [worker EXCEPT ![w] = Off]
                     /\ Released(w)
           ELSE /\ worker' = [worker EXCEPT ![w].step = "finish",
                     ![w].why = IF s \in live \/ s \in quar THEN "none" ELSE "missing"]
                /\ UNCHANGED lock
    /\ UNCHANGED <<row, overdue, grants, refs, importVars>>

\* The end of the grace period: the row first, then the file.
DeleteRow(w, s) ==
    /\ At(w, "delete", s)
    /\ row' = [row EXCEPT ![s] = "none"]
    /\ overdue' = overdue \ {s}
    /\ Step(w, s, IF s \in quar THEN "drop" ELSE "next", "none")
    /\ UNCHANGED <<fileVars, grants, refs, importVars>>

DropFile(w) ==
    /\ worker[w].step = "drop"
    /\ quar' = quar \ worker[w].sha
    /\ worker' = [worker EXCEPT ![w].step = "next", ![w].sha = {}]
    /\ UNCHANGED <<row, overdue, live, grants, refs, importVars, lock>>

-----------------------------------------------------------------------------
Collect(w) ==
    \/ Boot(w) \/ TryAcquire(w) \/ Advance(w) \/ Abort(w)
    \/ SettleFiles(w) \/ FinishQuarantine(w) \/ MoveToQuarantine(w) \/ DropFile(w)
    \/ \E s \in Shas :
        \/ ReconcileQuarantiningRow(w, s) \/ ReconcileQuarantinedRow(w, s)
        \/ AdoptOrphan(w, s) \/ BeginOrphan(w, s) \/ BeginQuarantine(w, s)
        \/ DeleteRow(w, s)

Next ==
    \/ \E o \in Orgs :
        \/ CreateImportLeases(o) \/ VerifyBytes(o) \/ CommitImport(o)
        \/ FailImport(o) \/ ImportDies(o) \/ LeasesExpire(o)
        \/ \E s \in Shas : PutIfAbsent(o, s) \/ Save(o, s)
    \/ \E s \in Shas : GraceEnds(s)
    \/ LockLapses
    \/ \E w \in Workers : Collect(w) \/ Die(w)

Spec == Init /\ [][Next]_vars

-----------------------------------------------------------------------------
TypeOK ==
    /\ row \in [Shas -> RowStates]
    /\ overdue \subseteq Shas /\ live \subseteq Shas /\ quar \subseteq Shas
    /\ grants \subseteq Orgs \X Shas /\ refs \subseteq Orgs \X Shas
    /\ leases \subseteq Orgs \X Shas /\ expired \subseteq Orgs
    /\ import \in [Orgs -> [at : {"idle", "leased", "verified"},
                            wants : SUBSET Shas, put : SUBSET Shas]]
    /\ lock \in [owner : Workers \cup {Nobody, Ghost}, lapsed : BOOLEAN]
    /\ lock.lapsed => lock.owner # Nobody
    /\ worker \in [Workers ->
          [stage : Collecting \cup {"off", "scanned"},
           todo : SUBSET Shas, step : {"next", "after", "move", "finish", "drop"},
           sha : SUBSET Shas,
           why : {"none", "noop", "marked", "kept", "deleted", "restored", "orphan",
                  "unreferenced", "missing"},
           ctx : SUBSET (Orgs \X Shas), old : SUBSET Shas]]

\* What a revision refers to stays readable: its row is live and its
\* organisation may read it, whatever collectors were doing while it was imported
\* or saved (the second look of beginAssetQuarantine, importSb3CreateProjectAtomic).
ReferencedIsLive ==
    \A o \in Orgs, s \in Shas : <<o, s>> \in refs =>
        row[s] = "live" /\ <<o, s>> \in grants

\* A row says "live" only of a file in its place, so what can be read according
\* to the tables can be read: no collector takes the file away, or leaves it in
\* quarantine, under a row that an import or a recovery made live.
LiveRowsHaveFiles == \A s \in Shas : row[s] = "live" => s \in live
=============================================================================
