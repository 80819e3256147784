------------------------- MODULE AssetCollectorProofs -------------------------
(* Proofs about AssetCollector, for any number of assets, organisations and *)
(* processes.                                                               *)
EXTENDS AssetCollector, TLAPS

USE CollectorAssumption DEF CollectorAssumption

-----------------------------------------------------------------------------
(* Types.                                                                   *)
Stages == Collecting \cup {"off", "scanned"}
Steps == {"next", "after", "move", "finish", "drop"}
Whys == {"none", "noop", "marked", "kept", "deleted", "restored", "orphan",
         "unreferenced", "missing"}

WorkerType == [stage : Stages, todo : SUBSET Shas, step : Steps, sha : SUBSET Shas,
               why : Whys, ctx : SUBSET (Orgs \X Shas), old : SUBSET Shas]

ImportType == [at : {"idle", "leased", "verified"}, wants : SUBSET Shas, put : SUBSET Shas]

TablesOK ==
    /\ row \in [Shas -> RowStates]
    /\ overdue \subseteq Shas /\ live \subseteq Shas /\ quar \subseteq Shas
    /\ grants \subseteq Orgs \X Shas /\ refs \subseteq Orgs \X Shas
    /\ leases \subseteq Orgs \X Shas /\ expired \subseteq Orgs
    /\ import \in [Orgs -> ImportType]

LockOK ==
    /\ lock \in [owner : Workers \cup {Nobody, Ghost}, lapsed : BOOLEAN]
    /\ lock.lapsed => lock.owner # Nobody

WorkersOK == worker \in [Workers -> WorkerType]

LEMMA TypeParts ==
  /\ TypeOK <=> TablesOK /\ LockOK /\ WorkersOK
  /\ TypeOK' <=> TablesOK' /\ LockOK' /\ WorkersOK'
BY DEF TypeOK, TablesOK, LockOK, WorkersOK, WorkerType, ImportType, Stages, Steps, Whys

LEMMA OffType == Off \in WorkerType
BY DEF Off, WorkerType, Stages, Steps, Whys

(* The lock is renewed, released or left by its owner.                      *)
LEMMA RenewedType ==
  ASSUME NEW w \in Workers, Renewed(w)
  PROVE  LockOK'
BY DEF Renewed, LockOK

LEMMA ReleasedType ==
  ASSUME LockOK, NEW w \in Workers, Released(w)
  PROVE  LockOK'
BY DEF Released, LockOK

(* A worker that has done with one asset and goes on to the next step.      *)
LEMMA StepEffect ==
  ASSUME WorkersOK, NEW w \in Workers, NEW s \in Shas, NEW step \in Steps, NEW why \in Whys,
         Step(w, s, step, why)
  PROVE  /\ WorkersOK' /\ LockOK'
         /\ lock' = [owner |-> w, lapsed |-> FALSE]
         /\ \A v \in Workers \ {w} : worker'[v] = worker[v]
         /\ worker'[w].stage = worker[w].stage
         /\ worker'[w].todo = worker[w].todo \ {s}
         /\ worker'[w].step = step
         /\ worker'[w].sha = IF step = "next" THEN {} ELSE {s}
         /\ worker'[w].why = why
<1> DEFINE sha == IF step = "next" THEN {} ELSE {s}
           after == [worker[w] EXCEPT !.todo = @ \ {s}, !.step = step, !.sha = sha, !.why = why]
<1>1. sha \in SUBSET Shas
  OBVIOUS
<1>2. worker' = [worker EXCEPT ![w].todo = @ \ {s}, ![w].step = step,
                               ![w].sha = sha, ![w].why = why]
  BY DEF Step
<1> HIDE DEF sha
<1>3. worker' = [worker EXCEPT ![w] = after]
  BY <1>2 DEF WorkersOK, WorkerType
<1>4. worker[w] \in WorkerType
  BY DEF WorkersOK
<1>5. after \in WorkerType
  BY <1>1, <1>4 DEF WorkerType
<1>6. WorkersOK'
  BY <1>3, <1>5 DEF WorkersOK
<1>7. worker'[w] = after /\ \A v \in Workers \ {w} : worker'[v] = worker[v]
  BY <1>3 DEF WorkersOK
<1>8. /\ after.stage = worker[w].stage /\ after.todo = worker[w].todo \ {s}
      /\ after.step = step /\ after.sha = sha /\ after.why = why
  BY <1>4 DEF WorkerType
<1>9. lock' = [owner |-> w, lapsed |-> FALSE] /\ LockOK'
  BY RenewedType DEF Step, Renewed
<1> QED BY <1>6, <1>7, <1>8, <1>9 DEF sha

(* A worker that begins a stage.                                            *)
LEMMA EnterEffect ==
  ASSUME TablesOK, WorkersOK, NEW w \in Workers, NEW stage \in Collecting, Enter(w, stage)
  PROVE  /\ WorkersOK'
         /\ \A v \in Workers \ {w} : worker'[v] = worker[v]
         /\ worker'[w].stage = stage /\ worker'[w].todo = Listed(w, stage)
         /\ worker'[w].step = "next" /\ worker'[w].sha = {}
<1> DEFINE todo == Listed(w, stage)
           after == [worker[w] EXCEPT !.stage = stage, !.todo = todo,
                                      !.step = "next", !.sha = {}, !.why = "none"]
<1>1. todo \in SUBSET Shas
  BY DEF Listed, Collecting, TablesOK, WorkersOK, WorkerType
<1>2. worker' = [worker EXCEPT ![w].stage = stage, ![w].todo = todo,
                               ![w].step = "next", ![w].sha = {}, ![w].why = "none"]
  BY DEF Enter
<1> HIDE DEF todo
<1>3. worker' = [worker EXCEPT ![w] = after]
  BY <1>2 DEF WorkersOK, WorkerType
<1>4. worker[w] \in WorkerType
  BY DEF WorkersOK
<1>5. after \in WorkerType
  BY <1>1, <1>4 DEF WorkerType, Stages, Steps, Whys
<1>6. WorkersOK'
  BY <1>3, <1>5 DEF WorkersOK
<1>7. worker'[w] = after /\ \A v \in Workers \ {w} : worker'[v] = worker[v]
  BY <1>3 DEF WorkersOK
<1>8. /\ after.stage = stage /\ after.todo = todo
      /\ after.step = "next" /\ after.sha = {}
  BY <1>4 DEF WorkerType
<1> QED BY <1>6, <1>7, <1>8 DEF todo

(* The files after a worker has settled what it found in "after".           *)
LEMMA SettleEffect ==
  ASSUME TablesOK, WorkersOK, NEW w \in Workers, NEW s \in worker[w].sha,
         LET why == worker[w].why
         IN  /\ CASE why = "restored" -> quar' = quar \ {s} /\ UNCHANGED live
                  [] why = "marked" /\ s \in quar -> live' = live \ {s} /\ UNCHANGED quar
                  [] why = "kept" -> Move(s)
                  [] why \notin {"restored", "kept"} /\ (why = "marked" => s \notin quar) ->
                        UNCHANGED fileVars
             /\ worker' = [worker EXCEPT
                   ![w].step = IF why = "kept" /\ (s \in live) # (s \in quar)
                               THEN "finish" ELSE "next",
                   ![w].sha = IF why = "kept" /\ (s \in live) # (s \in quar)
                              THEN {s} ELSE {},
                   ![w].why = "none"]
  PROVE  /\ WorkersOK' /\ live' \subseteq Shas /\ quar' \subseteq Shas
         /\ \A v \in Workers \ {w} : worker'[v] = worker[v]
         /\ worker'[w].stage = worker[w].stage /\ worker'[w].todo = worker[w].todo
         /\ \/ worker'[w].step = "next" /\ worker'[w].sha = {}
            \/ /\ worker'[w].step = "finish" /\ worker'[w].sha = {s}
               /\ s \in quar'
         /\ \/ UNCHANGED fileVars
            \/ worker[w].why = "restored" /\ quar' = quar \ {s} /\ live' = live
            \/ worker[w].why = "marked" /\ quar' = quar /\ live' = live \ {s}
            \/ worker[w].why = "kept" /\ quar' = quar \cup {s} /\ live' = live \ {s}
<1> DEFINE why == worker[w].why
           moved == why = "kept" /\ (s \in live) # (s \in quar)
           step == IF moved THEN "finish" ELSE "next"
           sha == IF moved THEN {s} ELSE {}
           after == [worker[w] EXCEPT !.step = step, !.sha = sha, !.why = "none"]
<1>1. worker[w] \in WorkerType /\ s \in Shas
  BY DEF WorkersOK, WorkerType
<1>2. step \in Steps /\ sha \in SUBSET Shas
  BY <1>1 DEF Steps
<1>3. worker' = [worker EXCEPT ![w].step = step, ![w].sha = sha, ![w].why = "none"]
  OBVIOUS
<1>4. \/ UNCHANGED fileVars
      \/ why = "restored" /\ quar' = quar \ {s} /\ live' = live
      \/ why = "marked" /\ quar' = quar /\ live' = live \ {s}
      \/ why = "kept" /\ quar' = quar \cup {s} /\ live' = live \ {s}
  BY DEF Move, fileVars
<1>5. moved => s \in quar'
  BY DEF Move, Renames, fileVars
<1>6. live' \subseteq Shas /\ quar' \subseteq Shas
  BY <1>1, <1>4 DEF TablesOK, fileVars
<1> HIDE DEF step, sha
<1>7. worker' = [worker EXCEPT ![w] = after]
  BY <1>3 DEF WorkersOK, WorkerType
<1>8. after \in WorkerType
  BY <1>1, <1>2 DEF WorkerType, Whys
<1>9. WorkersOK'
  BY <1>7, <1>8 DEF WorkersOK
<1>10. worker'[w] = after /\ \A v \in Workers \ {w} : worker'[v] = worker[v]
  BY <1>7 DEF WorkersOK
<1>11. /\ after.stage = worker[w].stage /\ after.todo = worker[w].todo
       /\ after.step = step /\ after.sha = sha
  BY <1>1 DEF WorkerType
<1> QED BY <1>4, <1>5, <1>6, <1>9, <1>10, <1>11 DEF step, sha

(* The files after the rename of a collector that has marked the row.       *)
LEMMA RenameEffect ==
  ASSUME TablesOK, LockOK, WorkersOK, NEW w \in Workers, MoveToQuarantine(w)
  PROVE  \E s \in worker[w].sha :
         /\ WorkersOK' /\ LockOK' /\ live' \subseteq Shas /\ quar' \subseteq Shas
         /\ \A v \in Workers \ {w} : worker'[v] = worker[v]
         /\ \/ UNCHANGED fileVars
            \/ quar' = quar \cup {s} /\ live' = live \ {s}
         /\ \/ worker'[w] = Off /\ Released(w)
            \/ /\ worker'[w].step = "next" /\ worker'[w].sha = {}
               /\ worker'[w].stage = worker[w].stage /\ worker'[w].todo = worker[w].todo
               /\ lock' = lock
            \/ /\ worker'[w].step = "finish" /\ worker'[w].sha = worker[w].sha
               /\ worker'[w].stage = worker[w].stage /\ worker'[w].todo = worker[w].todo
               /\ worker'[w].why # "missing" => s \in quar'
               /\ lock' = lock
<1>1. PICK s \in worker[w].sha :
        /\ Move(s)
        /\ IF s \in live /\ s \in quar
           THEN IF worker[w].why = "orphan"
                THEN /\ worker' = [worker EXCEPT ![w].step = "next", ![w].sha = {},
                                                 ![w].why = "none"]
                     /\ UNCHANGED lock
                ELSE /\ worker' = [worker EXCEPT ![w] = Off]
                     /\ Released(w)
           ELSE /\ worker' = [worker EXCEPT ![w].step = "finish",
                     ![w].why = IF s \in live \/ s \in quar THEN "none" ELSE "missing"]
                /\ UNCHANGED lock
  BY DEF MoveToQuarantine
<1>2. worker[w] \in WorkerType /\ s \in Shas
  BY DEF WorkersOK, WorkerType
<1>3. \/ UNCHANGED fileVars
      \/ quar' = quar \cup {s} /\ live' = live \ {s}
  BY <1>1 DEF Move, fileVars
<1>4. live' \subseteq Shas /\ quar' \subseteq Shas
  BY <1>2, <1>3 DEF TablesOK, fileVars
<1>5. CASE s \in live /\ s \in quar /\ worker[w].why = "orphan"
  <2> DEFINE after == [worker[w] EXCEPT !.step = "next", !.sha = {}, !.why = "none"]
  <2>1. worker' = [worker EXCEPT ![w] = after] /\ lock' = lock
    BY <1>1, <1>5 DEF WorkersOK, WorkerType
  <2>2. after \in WorkerType
    BY <1>2 DEF WorkerType, Steps, Whys
  <2>3. /\ after.step = "next" /\ after.sha = {}
        /\ after.stage = worker[w].stage /\ after.todo = worker[w].todo
    BY <1>2 DEF WorkerType
  <2> HIDE DEF after
  <2>4. /\ WorkersOK' /\ worker'[w] = after
        /\ \A v \in Workers \ {w} : worker'[v] = worker[v]
    BY <2>1, <2>2 DEF WorkersOK
  <2> QED BY <1>3, <1>4, <2>1, <2>3, <2>4 DEF LockOK
<1>6. CASE s \in live /\ s \in quar /\ worker[w].why # "orphan"
  <2>1. worker' = [worker EXCEPT ![w] = Off] /\ Released(w)
    BY <1>1, <1>6
  <2>2. /\ WorkersOK' /\ worker'[w] = Off
        /\ \A v \in Workers \ {w} : worker'[v] = worker[v]
    BY <2>1, OffType DEF WorkersOK
  <2> QED BY <1>3, <1>4, <2>1, <2>2, ReleasedType
<1>7. CASE ~(s \in live /\ s \in quar)
  <2> DEFINE why == IF s \in live \/ s \in quar THEN "none" ELSE "missing"
             after == [worker[w] EXCEPT !.step = "finish", !.why = why]
  <2>1. worker' = [worker EXCEPT ![w].step = "finish", ![w].why = why] /\ lock' = lock
    BY <1>1, <1>7
  <2>2. why \in Whys /\ (why # "missing" => s \in quar')
    BY <1>1 DEF Whys, Move, Renames, fileVars
  <2> HIDE DEF why
  <2>3. worker' = [worker EXCEPT ![w] = after]
    BY <2>1 DEF WorkersOK, WorkerType
  <2>4. after \in WorkerType
    BY <1>2, <2>2 DEF WorkerType, Steps
  <2>5. /\ after.step = "finish" /\ after.sha = worker[w].sha /\ after.why = why
        /\ after.stage = worker[w].stage /\ after.todo = worker[w].todo
    BY <1>2 DEF WorkerType
  <2> HIDE DEF after
  <2>6. /\ WorkersOK' /\ worker'[w] = after
        /\ \A v \in Workers \ {w} : worker'[v] = worker[v]
    BY <2>3, <2>4 DEF WorkersOK
  <2> QED BY <1>3, <1>4, <2>1, <2>2, <2>5, <2>6 DEF LockOK
<1> QED BY <1>5, <1>6, <1>7

(* A worker that ends, is stopped, dies or boots again.                     *)
LEMMA OffEffect ==
  ASSUME WorkersOK, NEW w \in Workers, worker' = [worker EXCEPT ![w] = Off]
  PROVE  /\ WorkersOK'
         /\ worker'[w] = Off /\ \A v \in Workers \ {w} : worker'[v] = worker[v]
BY OffType DEF WorkersOK

(* What recovery makes of a row is a row, and its reason is known.          *)
LEMMA OutcomeType ==
  ASSUME NEW w \in Workers, NEW s \in Shas
  PROVE  Outcome(w, s) \in {"noop", "marked", "kept", "deleted", "restored"}
BY DEF Outcome

(* A row is changed to a state it can be in.                                *)
LEMMA RowType ==
  ASSUME TablesOK, NEW s \in Shas, NEW r \in RowStates, row' = [row EXCEPT ![s] = r]
  PROVE  row' \in [Shas -> RowStates] /\ row'[s] = r /\ \A t \in Shas \ {s} : row'[t] = row[t]
BY DEF TablesOK

(* What each step of the recovery and the collection does to the row it is  *)
(* about, and how the worker goes on.                                       *)
LEMMA RecoverEffect ==
  ASSUME TablesOK, NEW w \in Workers, NEW s \in Shas, ReconcileQuarantiningRow(w, s)
  PROVE  /\ row' \in [Shas -> RowStates] /\ \A t \in Shas \ {s} : row'[t] = row[t]
         /\ grants \subseteq grants' /\ grants' \subseteq Orgs \X Shas
         /\ Outcome(w, s) \in {"noop", "marked", "kept", "deleted", "restored"}
         /\ Step(w, s, "after", Outcome(w, s)) /\ Outcome(w, s) \in Whys
         /\ Outcome(w, s) = "marked" => row[s] = "quarantining" /\ row'[s] = "quarantined" /\ s \in quar
         /\ Outcome(w, s) = "deleted" =>
               row[s] = "quarantining" /\ row'[s] = "none" /\ ~HasLease(s)
         /\ Outcome(w, s) = "restored" =>
               row[s] = "quarantining" /\ row'[s] = "live" /\ s \in live
         /\ Outcome(w, s) = "kept" => row[s] = "quarantining" /\ row'[s] = "quarantining"
         /\ Outcome(w, s) = "noop" => row'[s] = row[s]
         /\ UNCHANGED <<overdue, fileVars, refs, importVars>>
<1> DEFINE out == Outcome(w, s)
           to == CASE out = "marked"   -> "quarantined"
                   [] out = "deleted"  -> "none"
                   [] out = "restored" -> "live"
                   [] out \in {"kept", "noop"} -> row[s]
<1>1. out \in {"noop", "marked", "kept", "deleted", "restored"}
  BY OutcomeType
<1>2. row' = [row EXCEPT ![s] = to]
  BY DEF ReconcileQuarantiningRow
<1>3. to \in RowStates
  BY <1>1 DEF RowStates, TablesOK
<1>4. /\ out = "marked" => row[s] = "quarantining" /\ s \in quar
      /\ out = "deleted" => row[s] = "quarantining" /\ ~HasLease(s)
      /\ out = "restored" => row[s] = "quarantining" /\ s \in live
      /\ out = "kept" => row[s] = "quarantining"
  BY DEF Outcome, ReferencedByScan
<1>5. /\ out = "marked" => to = "quarantined"
      /\ out = "deleted" => to = "none"
      /\ out = "restored" => to = "live"
      /\ out \in {"kept", "noop"} => to = row[s]
  BY <1>1
<1> HIDE DEF to
<1>6. row' \in [Shas -> RowStates] /\ row'[s] = to /\ \A t \in Shas \ {s} : row'[t] = row[t]
  BY <1>2, <1>3, RowType
<1>7. grants \subseteq grants' /\ grants' \subseteq Orgs \X Shas
  BY DEF ReconcileQuarantiningRow, ReferencingOrgs, TablesOK
<1>8. out \in Whys
  BY <1>1 DEF Whys
<1>9. Step(w, s, "after", out) /\ UNCHANGED <<overdue, fileVars, refs, importVars>>
  BY DEF ReconcileQuarantiningRow
<1> HIDE DEF out
<1> QED BY <1>1, <1>4, <1>5, <1>6, <1>7, <1>8, <1>9 DEF out

(* The types are kept by every step.                                        *)
LEMMA TypeStep == TypeOK /\ [Next]_vars => TypeOK'
<1> SUFFICES ASSUME TypeOK, [Next]_vars PROVE TypeOK'
  OBVIOUS
<1>0. TablesOK /\ LockOK /\ WorkersOK
  BY TypeParts
<1>1. /\ UNCHANGED worker => WorkersOK'
      /\ UNCHANGED lock => LockOK'
      /\ UNCHANGED <<row, overdue, fileVars, grants, refs, importVars>> => TablesOK'
  <2>1. UNCHANGED <<row, overdue, fileVars, grants, refs, importVars>> => TablesOK'
    BY <1>0 DEF TablesOK, fileVars, importVars
  <2> QED BY <1>0, <2>1 DEF WorkersOK, LockOK
<1>2. ASSUME NEW o \in Orgs,
             CreateImportLeases(o) \/ VerifyBytes(o) \/ FailImport(o) \/ ImportDies(o)
               \/ LeasesExpire(o)
      PROVE  TypeOK'
  <2>1. import[o] \in ImportType
    BY <1>0 DEF TablesOK
  <2>2. NoImport \in ImportType /\ \A S \in SUBSET Shas : [at |-> "leased", wants |-> S, put |-> {}] \in ImportType
    BY DEF ImportType, NoImport
  <2>3. [import[o] EXCEPT !.at = "verified"] \in ImportType
    BY <2>1 DEF ImportType
  <2>4. import' \in [Orgs -> ImportType]
    <3>1. CASE CreateImportLeases(o)
      BY <1>0, <2>2, <3>1 DEF CreateImportLeases, TablesOK
    <3>2. CASE VerifyBytes(o)
      <4>1. import' = [import EXCEPT ![o] = [import[o] EXCEPT !.at = "verified"]]
        BY <1>0, <3>2 DEF VerifyBytes, TablesOK, ImportType
      <4> QED BY <1>0, <2>3, <4>1 DEF TablesOK
    <3>3. CASE FailImport(o) \/ ImportDies(o)
      BY <1>0, <2>2, <3>3 DEF FailImport, ImportDies, TablesOK
    <3>4. CASE LeasesExpire(o)
      BY <1>0, <3>4 DEF LeasesExpire, TablesOK
    <3> QED BY <1>2, <3>1, <3>2, <3>3, <3>4
  <2>5. leases' \subseteq Orgs \X Shas /\ expired' \subseteq Orgs
    BY <1>0, <1>2 DEF CreateImportLeases, VerifyBytes, FailImport, ImportDies, LeasesExpire, TablesOK
  <2>6. UNCHANGED <<row, overdue, fileVars, grants, refs, lock, worker>>
    BY <1>2 DEF CreateImportLeases, VerifyBytes, FailImport, ImportDies, LeasesExpire
  <2> QED BY <1>0, <1>1, <2>4, <2>5, <2>6, TypeParts DEF TablesOK, fileVars
<1>3. ASSUME NEW o \in Orgs, NEW s \in Shas, PutIfAbsent(o, s) PROVE TypeOK'
  <2>1. import[o] \in ImportType /\ import \in [Orgs -> ImportType]
    BY <1>0 DEF TablesOK
  <2>2. import' = [import EXCEPT ![o].put = @ \cup {s}]
    BY <1>3 DEF PutIfAbsent
  <2>3. import' = [import EXCEPT ![o] = [import[o] EXCEPT !.put = @ \cup {s}]]
    BY <2>1, <2>2 DEF ImportType
  <2>4. [import[o] EXCEPT !.put = @ \cup {s}] \in ImportType
    BY <2>1 DEF ImportType
  <2>5. import' \in [Orgs -> ImportType]
    BY <2>1, <2>3, <2>4
  <2> QED BY <1>0, <1>3, <1>1, <2>5, TypeParts DEF PutIfAbsent, TablesOK
<1>4. ASSUME NEW o \in Orgs, CommitImport(o) PROVE TypeOK'
  <2>1. NoImport \in ImportType /\ import[o].wants \in SUBSET Shas
    BY <1>0 DEF ImportType, NoImport, TablesOK
  <2>2. row' \in [Shas -> RowStates]
    BY <1>0, <1>4 DEF CommitImport, TablesOK, RowStates
  <2>3. import' \in [Orgs -> ImportType]
    BY <1>0, <1>4, <2>1 DEF CommitImport, TablesOK
  <2>4. /\ grants' \subseteq Orgs \X Shas /\ refs' \subseteq Orgs \X Shas
        /\ leases' \subseteq Orgs \X Shas
    BY <1>0, <1>4, <2>1 DEF CommitImport, TablesOK
  <2>5. UNCHANGED <<overdue, fileVars, expired, lock, worker>>
    BY <1>4 DEF CommitImport
  <2> QED BY <1>0, <1>1, <2>2, <2>3, <2>4, <2>5, TypeParts DEF TablesOK, fileVars
<1>5. ASSUME NEW o \in Orgs, NEW s \in Shas, Save(o, s) PROVE TypeOK'
  BY <1>0, <1>5, <1>1, TypeParts DEF Save, TablesOK, fileVars, importVars
<1>6. ASSUME NEW s \in Shas, GraceEnds(s) PROVE TypeOK'
  BY <1>0, <1>6, <1>1, TypeParts DEF GraceEnds, TablesOK, fileVars
<1>7. CASE LockLapses
  <2>1. LockOK'
    BY <1>0, <1>7 DEF LockLapses, LockOK
  <2> QED BY <1>7, <1>1, <2>1, TypeParts DEF LockLapses
<1>8. ASSUME NEW w \in Workers, Boot(w) PROVE TypeOK'
  <2> DEFINE fresh == [Off EXCEPT !.stage = "scanned", !.ctx = refs, !.old = overdue]
  <2>1. fresh \in WorkerType
    BY <1>0, OffType DEF WorkerType, Stages, TablesOK
  <2>2. worker' = [worker EXCEPT ![w] = fresh]
    BY <1>8 DEF Boot
  <2> HIDE DEF fresh
  <2>3. WorkersOK'
    BY <1>0, <2>1, <2>2 DEF WorkersOK
  <2>4. TablesOK'
    BY <1>0, <1>8 DEF Boot, TablesOK, fileVars
  <2> QED BY <1>8, <1>1, <2>3, <2>4, TypeParts DEF Boot
<1>9. ASSUME NEW w \in Workers, TryAcquire(w) PROVE TypeOK'
  <2>1. "recover" \in Collecting
    BY DEF Collecting
  <2> QED BY <1>0, <1>9, <1>1, <2>1, EnterEffect, RenewedType, OffEffect, TypeParts DEF TryAcquire
<1>10. ASSUME NEW w \in Workers, Advance(w) PROVE TypeOK'
  <2>1. worker[w].stage # "delete" => NextStage[worker[w].stage] \in Collecting
    BY <1>10 DEF Advance, NextStage, Collecting
  <2> QED BY <1>0, <1>10, <1>1, <2>1, EnterEffect, RenewedType, ReleasedType, OffEffect, TypeParts DEF Advance
<1>11. ASSUME NEW w \in Workers, Abort(w) PROVE TypeOK'
  BY <1>0, <1>11, <1>1, OffEffect, TypeParts DEF Abort
<1>12. ASSUME NEW w \in Workers, Die(w) PROVE TypeOK'
  <2>1. LockOK'
    BY <1>0, <1>12 DEF Die, LockOK, Holds
  <2> QED BY <1>0, <1>12, <1>1, <2>1, OffEffect, TypeParts DEF Die
<1>13. ASSUME NEW w \in Workers, SettleFiles(w) PROVE TypeOK'
  <2>1. WorkersOK' /\ live' \subseteq Shas /\ quar' \subseteq Shas
    BY <1>0, <1>13, SettleEffect DEF SettleFiles
  <2> QED BY <1>0, <1>13, <1>1, <2>1, TypeParts DEF SettleFiles, TablesOK, importVars
<1>14. ASSUME NEW w \in Workers, MoveToQuarantine(w) PROVE TypeOK'
  <2>1. WorkersOK' /\ LockOK' /\ live' \subseteq Shas /\ quar' \subseteq Shas
    BY <1>0, <1>14, RenameEffect
  <2> QED BY <1>0, <1>14, <2>1, TypeParts DEF MoveToQuarantine, TablesOK, importVars
<1>15. ASSUME NEW w \in Workers, DropFile(w) PROVE TypeOK'
  <2> DEFINE after == [worker[w] EXCEPT !.step = "next", !.sha = {}]
  <2>1. worker[w] \in WorkerType
    BY <1>0 DEF WorkersOK
  <2>2. worker' = [worker EXCEPT ![w] = after]
    BY <1>0, <1>15 DEF DropFile, WorkersOK, WorkerType
  <2>3. after \in WorkerType
    BY <2>1 DEF WorkerType, Steps
  <2> HIDE DEF after
  <2>4. WorkersOK'
    BY <1>0, <2>2, <2>3 DEF WorkersOK
  <2> QED BY <1>0, <1>15, <1>1, <2>4, TypeParts DEF DropFile, TablesOK, importVars
<1>16. ASSUME NEW w \in Workers, FinishQuarantine(w) PROVE TypeOK'
  <2>1. PICK s \in worker[w].sha :
          /\ row' = [row EXCEPT ![s] = IF @ = "quarantining" /\ worker[w].why # "missing"
                                        THEN "quarantined" ELSE @]
          /\ Step(w, s, "next", "none")
    BY <1>16 DEF FinishQuarantine
  <2>2. s \in Shas /\ "next" \in Steps /\ "none" \in Whys
    BY <1>0 DEF WorkersOK, WorkerType, Steps, Whys
  <2>3. WorkersOK' /\ LockOK'
    BY <1>0, <2>1, <2>2, StepEffect
  <2>4. row' \in [Shas -> RowStates]
    BY <1>0, <2>1, <2>2 DEF TablesOK, RowStates
  <2> QED BY <1>0, <1>16, <2>3, <2>4, TypeParts DEF FinishQuarantine, TablesOK, fileVars, importVars
<1>17. ASSUME NEW w \in Workers, NEW s \in Shas, ReconcileQuarantiningRow(w, s) PROVE TypeOK'
  <2>1. "after" \in Steps
    BY DEF Steps
  <2>2. WorkersOK' /\ LockOK'
    BY <1>0, <1>17, <2>1, RecoverEffect, StepEffect
  <2>3. TablesOK'
    BY <1>0, <1>17, RecoverEffect DEF TablesOK, fileVars, importVars
  <2> QED BY <2>2, <2>3, TypeParts
<1>18. ASSUME NEW w \in Workers, NEW s \in Shas, NEW step \in Steps, NEW why \in Whys,
              Step(w, s, step, why), row' \in [Shas -> RowStates], overdue' \subseteq Shas,
              live' \subseteq Shas, quar' \subseteq Shas, grants' \subseteq grants,
              UNCHANGED <<refs, importVars>>
       PROVE  TypeOK'
  <2>1. WorkersOK' /\ LockOK'
    BY <1>0, <1>18, StepEffect
  <2> QED BY <1>0, <1>18, <2>1, TypeParts DEF TablesOK, importVars
<1>19. {"next", "move", "drop"} \subseteq Steps /\ {"none", "orphan", "unreferenced"} \subseteq Whys
  BY DEF Steps, Whys
<1>20. ASSUME NEW w \in Workers, NEW s \in Shas, ReconcileQuarantinedRow(w, s) PROVE TypeOK'
  <2>1. row' \in [Shas -> RowStates] /\ overdue' \subseteq Shas /\ grants' \subseteq grants
    BY <1>0, <1>20 DEF ReconcileQuarantinedRow, TablesOK, RowStates
  <2>2. live' \subseteq Shas /\ quar' \subseteq Shas
    BY <1>0, <1>20 DEF ReconcileQuarantinedRow, Move, TablesOK, fileVars
  <2> QED BY <1>18, <1>19, <1>20, <2>1, <2>2 DEF ReconcileQuarantinedRow
<1>21. ASSUME NEW w \in Workers, NEW s \in Shas, AdoptOrphan(w, s) PROVE TypeOK'
  <2>1. row' \in [Shas -> RowStates]
    BY <1>0, <1>21 DEF AdoptOrphan, TablesOK, RowStates
  <2> QED BY <1>0, <1>18, <1>19, <1>21, <2>1 DEF AdoptOrphan, TablesOK, fileVars
<1>22. ASSUME NEW w \in Workers, NEW s \in Shas, BeginOrphan(w, s) PROVE TypeOK'
  <2>1. row' \in [Shas -> RowStates]
    BY <1>0, <1>22 DEF BeginOrphan, TablesOK, RowStates
  <2> QED BY <1>0, <1>18, <1>19, <1>22, <2>1 DEF BeginOrphan, TablesOK, fileVars
<1>23. ASSUME NEW w \in Workers, NEW s \in Shas, BeginQuarantine(w, s) PROVE TypeOK'
  <2>1. row' \in [Shas -> RowStates] /\ grants' \subseteq grants
    BY <1>0, <1>23 DEF BeginQuarantine, TablesOK, RowStates
  <2> QED BY <1>0, <1>18, <1>19, <1>23, <2>1 DEF BeginQuarantine, TablesOK, fileVars
<1>24. ASSUME NEW w \in Workers, NEW s \in Shas, DeleteRow(w, s) PROVE TypeOK'
  <2>1. row' \in [Shas -> RowStates] /\ overdue' \subseteq Shas
    BY <1>0, <1>24 DEF DeleteRow, TablesOK, RowStates
  <2> QED BY <1>0, <1>18, <1>19, <1>24, <2>1 DEF DeleteRow, TablesOK, fileVars
<1>25. CASE UNCHANGED vars
  BY <1>25, <1>1, TypeParts DEF vars
<1>26. ASSUME NEW w \in Workers, Collect(w) PROVE TypeOK'
  BY <1>8, <1>9, <1>10, <1>11, <1>13, <1>14, <1>15, <1>16, <1>17, <1>20, <1>21, <1>22, <1>23,
     <1>24, <1>26 DEF Collect
<1> QED BY <1>2, <1>3, <1>4, <1>5, <1>6, <1>7, <1>12, <1>25, <1>26 DEF Next

(* Every row, file, lease, lock and worker keeps its type, and the lock     *)
(* never lapses without an owner.                                           *)
THEOREM CollectorTypeCorrect == Spec => []TypeOK
<1>1. Init => TypeOK
  <2> SUFFICES ASSUME Init PROVE TypeOK
    OBVIOUS
  <2>1. TablesOK
    BY DEF Init, TablesOK, RowStates, ImportType
  <2>2. LockOK
    BY DEF Init, LockOK
  <2>3. WorkersOK
    BY OffType DEF Init, WorkersOK
  <2> QED BY <2>1, <2>2, <2>3, TypeParts
<1> QED BY <1>1, TypeStep, PTL DEF Spec

-----------------------------------------------------------------------------
(* The invariant.                                                           *)

(* What the holder of the lock has listed as quarantined is still that:     *)
(* whoever changes such a row holds the lock.                               *)
ListsHold ==
    \A w \in Workers : Holds(w) /\ worker[w].stage \in {"relocate", "delete"} =>
        \A s \in worker[w].todo :
            /\ row[s] = "quarantined"
            /\ worker[w].stage = "delete" => s \in overdue

(* Only rows in quarantine run out of grace.                                *)
OverdueInQuarantine == \A s \in overdue : row[s] = "quarantined"

RowsInv == ListsHold /\ OverdueInQuarantine /\ ReferencedIsLive

(* A worker about to touch a file holds a lease that has not passed.        *)
PoisedHolds == \A w \in Workers : Poised(w) => Holds(w) /\ ~lock.lapsed

(* What a worker found of the row is still true when it touches the file.   *)
PoisedFits(w, s) ==
    /\ worker[w].step = "move" => row[s] = "quarantining"
    /\ worker[w].step = "drop" => row[s] \in {"none", "live"}
    /\ worker[w].step = "after" =>
          /\ worker[w].why = "restored" => row[s] = "live"
          /\ worker[w].why = "marked" => row[s] = "quarantined" /\ s \notin overdue
          /\ worker[w].why = "kept" => row[s] = "quarantining"
    /\ worker[w].step = "finish" /\ Holds(w) /\ worker[w].why # "missing" => s \in quar

WorkersFit ==
    \A w \in Workers :
        /\ \A s, t \in worker[w].sha : s = t
        /\ \A s \in worker[w].sha : PoisedFits(w, s)

(* A row that says so has its file in quarantine.                           *)
QuarantinedHasFile == \A s \in Shas : row[s] = "quarantined" => s \in quar

(* An import that may still commit has its files in their place, or they    *)
(* went into quarantine under a row that forbids the commit; while its      *)
(* leases last, such a row does not run out of grace.                       *)
MayCommit(o, s) ==
    import[o].at = "verified" /\ o \notin expired /\ s \in import[o].wants /\ <<o, s>> \in leases

ImportsSafe ==
    \A o \in Orgs, s \in Shas : MayCommit(o, s) =>
        s \in live \/ (row[s] \in {"quarantining", "quarantined"} /\ s \notin overdue)

FileTables == QuarantinedHasFile /\ ImportsSafe /\ LiveRowsHaveFiles

FilesInv == PoisedHolds /\ WorkersFit /\ FileTables

-----------------------------------------------------------------------------
(* Rows.                                                                    *)

(* A step that leaves the tables and lists nothing anew.                    *)
LEMMA RowsLeftAlone ==
  ASSUME RowsInv, UNCHANGED <<row, overdue, refs>>, grants \subseteq grants',
         \A w \in Workers : Holds(w)' /\ worker'[w].stage \in {"relocate", "delete"} =>
            /\ Holds(w) /\ worker'[w].stage = worker[w].stage
            /\ worker'[w].todo \subseteq worker[w].todo
  PROVE  RowsInv'
<1>1. ListsHold'
  BY DEF RowsInv, ListsHold
<1>2. OverdueInQuarantine' /\ ReferencedIsLive'
  BY DEF RowsInv, OverdueInQuarantine, ReferencedIsLive
<1> QED BY <1>1, <1>2 DEF RowsInv

(* A step of the holder of the lock on one asset it has listed: the others  *)
(* hold no lock, and it has done with this one.                             *)
LEMMA HolderStep ==
  ASSUME TypeOK, RowsInv, NEW w \in Workers, NEW s \in Shas,
         NEW step \in Steps, NEW why \in Whys, Step(w, s, step, why), Holds(w),
         \A t \in Shas \ {s} : row'[t] = row[t],
         overdue' \subseteq overdue, overdue \subseteq overdue' \cup {s},
         s \in overdue' => row'[s] = "quarantined",
         refs' = refs,
         \A o \in Orgs : <<o, s>> \in refs => row'[s] = "live" /\ <<o, s>> \in grants',
         \A o \in Orgs, t \in Shas \ {s} : <<o, t>> \in grants => <<o, t>> \in grants'
  PROVE  RowsInv'
<1>1. /\ lock' = [owner |-> w, lapsed |-> FALSE]
      /\ worker'[w].stage = worker[w].stage /\ worker'[w].todo = worker[w].todo \ {s}
  BY StepEffect, TypeParts
<1>2. worker[w].todo \subseteq Shas /\ overdue \subseteq Shas
  BY TypeParts DEF WorkersOK, WorkerType, TablesOK
<1>3. ListsHold'
  <2> SUFFICES ASSUME NEW v \in Workers, Holds(v)', worker'[v].stage \in {"relocate", "delete"},
                      NEW t \in worker'[v].todo
               PROVE  row'[t] = "quarantined" /\ (worker'[v].stage = "delete" => t \in overdue')
    BY DEF ListsHold
  <2>1. v = w
    BY <1>1 DEF Holds
  <2>2. t \in worker[w].todo /\ t # s /\ t \in Shas
    BY <1>1, <1>2, <2>1
  <2> QED BY <1>1, <2>1, <2>2 DEF RowsInv, ListsHold
<1>4. OverdueInQuarantine'
  BY <1>2 DEF RowsInv, OverdueInQuarantine
<1>5. ReferencedIsLive'
  BY DEF RowsInv, ReferencedIsLive
<1> QED BY <1>3, <1>4, <1>5 DEF RowsInv

(* What the holder of the lock looks at in a stage is in quarantine still,  *)
(* so nothing refers to it.                                                 *)
LEMMA ListedUnreferenced ==
  ASSUME RowsInv, NEW w \in Workers, NEW s \in Shas,
         At(w, "relocate", s) \/ At(w, "delete", s)
  PROVE  /\ row[s] = "quarantined"
         /\ At(w, "delete", s) => s \in overdue
         /\ \A o \in Orgs : <<o, s>> \notin refs
BY DEF At, RowsInv, ListsHold, ReferencedIsLive

LEMMA RowsStep == TypeOK /\ RowsInv /\ [Next]_vars => RowsInv'
<1> SUFFICES ASSUME TypeOK, RowsInv, [Next]_vars PROVE RowsInv'
  OBVIOUS
<1>0. TablesOK /\ LockOK /\ WorkersOK
  BY TypeParts
<1>1. ReferencedIsLive /\ OverdueInQuarantine /\ ListsHold
  BY DEF RowsInv
<1>2. \A s \in Shas, o \in Orgs : row[s] # "live" => <<o, s>> \notin refs
  BY <1>1 DEF ReferencedIsLive
<1>3. \A s \in Shas : row[s] # "quarantined" => s \notin overdue
  BY <1>1 DEF OverdueInQuarantine
<1>4. ASSUME NEW o \in Orgs,
             \/ CreateImportLeases(o) \/ VerifyBytes(o) \/ FailImport(o) \/ ImportDies(o)
             \/ LeasesExpire(o) \/ \E s \in Shas : PutIfAbsent(o, s)
      PROVE  RowsInv'
  <2>1. UNCHANGED <<row, overdue, refs, grants, lock, worker>>
    BY <1>4 DEF CreateImportLeases, VerifyBytes, FailImport, ImportDies, LeasesExpire, PutIfAbsent
  <2> QED BY <2>1, RowsLeftAlone DEF Holds
<1>5. ASSUME NEW o \in Orgs, CommitImport(o) PROVE RowsInv'
  <2> DEFINE S == import[o].wants
  <2>1. /\ \A s \in S : row[s] \in {"none", "live"}
        /\ row' = [s \in Shas |-> IF s \in S THEN "live" ELSE row[s]]
        /\ grants' = grants \cup ({o} \X S) /\ refs' = refs \cup ({o} \X S)
        /\ UNCHANGED <<overdue, lock, worker>>
    BY <1>5 DEF CommitImport, Importable
  <2>2. \A s \in Shas : row[s] = "quarantined" => row'[s] = "quarantined"
    BY <2>1
  <2>3. ListsHold'
    BY <1>0, <1>1, <2>1, <2>2 DEF ListsHold, Holds, WorkersOK, WorkerType
  <2>4. OverdueInQuarantine'
    BY <1>0, <1>1, <2>1, <2>2 DEF OverdueInQuarantine, TablesOK
  <2>5. ReferencedIsLive'
    <3> SUFFICES ASSUME NEW p \in Orgs, NEW s \in Shas, <<p, s>> \in refs'
                 PROVE  row'[s] = "live" /\ <<p, s>> \in grants'
      BY DEF ReferencedIsLive
    <3> HIDE DEF S
    <3>1. CASE <<p, s>> \in refs
      BY <1>1, <2>1, <3>1 DEF ReferencedIsLive
    <3>2. CASE p = o /\ s \in S
      BY <2>1, <3>2
    <3> QED BY <2>1, <3>1, <3>2
  <2> QED BY <2>3, <2>4, <2>5 DEF RowsInv
<1>6. ASSUME NEW o \in Orgs, NEW s \in Shas, Save(o, s) PROVE RowsInv'
  <2>1. /\ refs' = refs \cup {<<o, s>>} /\ row[s] = "live" /\ <<o, s>> \in grants
        /\ UNCHANGED <<row, overdue, grants, lock, worker>>
    BY <1>6 DEF Save, Savable
  <2> QED BY <1>1, <2>1 DEF RowsInv, ReferencedIsLive, ListsHold, OverdueInQuarantine, Holds
<1>7. ASSUME NEW s \in Shas, GraceEnds(s) PROVE RowsInv'
  <2>1. /\ overdue' = overdue \cup {s} /\ row[s] = "quarantined"
        /\ UNCHANGED <<row, grants, refs, lock, worker>>
    BY <1>7 DEF GraceEnds
  <2> QED BY <1>1, <2>1 DEF RowsInv, ReferencedIsLive, ListsHold, OverdueInQuarantine, Holds
<1>8. CASE LockLapses
  <2>1. lock'.owner = lock.owner
    BY <1>0, <1>8 DEF LockLapses, LockOK
  <2> QED BY <1>8, <2>1, RowsLeftAlone DEF LockLapses, Holds
<1>9. ASSUME NEW w \in Workers, Boot(w) PROVE RowsInv'
  <2>1. /\ worker'[w].stage = "scanned" /\ \A v \in Workers \ {w} : worker'[v] = worker[v]
    BY <1>0, <1>9 DEF Boot, WorkersOK, Off
  <2> QED BY <1>9, <2>1, RowsLeftAlone DEF Boot, Holds
<1>10. ASSUME NEW w \in Workers, worker' = [worker EXCEPT ![w] = Off],
              UNCHANGED <<row, overdue, grants, refs>>,
              \A v \in Workers \ {w} : Holds(v)' => Holds(v)
       PROVE  RowsInv'
  <2>1. worker'[w].stage = "off" /\ \A v \in Workers \ {w} : worker'[v] = worker[v]
    <3>1. worker'[w] = Off /\ \A v \in Workers \ {w} : worker'[v] = worker[v]
      BY <1>0, <1>10, OffEffect
    <3> QED BY <3>1 DEF Off
  <2> QED BY <1>10, <2>1, RowsLeftAlone
<1>11. ASSUME NEW w \in Workers, NEW stage \in Collecting, Enter(w, stage), Renewed(w),
              UNCHANGED <<row, overdue, grants, refs>>
       PROVE  RowsInv'
  <2>1. /\ worker'[w].stage = stage /\ worker'[w].todo = Listed(w, stage)
    BY <1>0, <1>11, EnterEffect
  <2>2. \A v \in Workers : Holds(v)' => v = w
    BY <1>11 DEF Renewed, Holds
  <2>3. stage = "relocate" => \A s \in Listed(w, stage) : row[s] = "quarantined"
    BY DEF Listed
  <2>4. stage = "delete" => \A s \in Listed(w, stage) : row[s] = "quarantined" /\ s \in overdue
    BY DEF Listed
  <2>5. ListsHold'
    BY <1>11, <2>1, <2>2, <2>3, <2>4 DEF ListsHold
  <2> QED BY <1>1, <1>11, <2>5 DEF RowsInv, OverdueInQuarantine, ReferencedIsLive
<1>12. ASSUME NEW w \in Workers, TryAcquire(w) PROVE RowsInv'
  <2>1. "recover" \in Collecting
    BY DEF Collecting
  <2> QED BY <1>10, <1>11, <1>12, <2>1 DEF TryAcquire, Holds
<1>13. ASSUME NEW w \in Workers, Advance(w) PROVE RowsInv'
  <2>1. worker[w].stage # "delete" => NextStage[worker[w].stage] \in Collecting
    BY <1>13 DEF Advance, NextStage, Collecting
  <2>2. ASSUME Released(w), NEW v \in Workers \ {w}, Holds(v)' PROVE Holds(v)
    BY <2>2 DEF Released, Holds
  <2> QED BY <1>10, <1>11, <1>13, <2>1, <2>2 DEF Advance
<1>14. ASSUME NEW w \in Workers, Abort(w) PROVE RowsInv'
  BY <1>10, <1>14 DEF Abort, Holds
<1>15. ASSUME NEW w \in Workers, Die(w) PROVE RowsInv'
  <2>1. \A v \in Workers \ {w} : Holds(v)' => Holds(v)
    <3>1. CASE Holds(w)
      <4>1. lock'.owner = Ghost
        BY <1>0, <1>15, <3>1 DEF Die, LockOK
      <4> QED BY <4>1 DEF Holds
    <3>2. CASE ~Holds(w)
      BY <1>15, <3>2 DEF Die, Holds
    <3> QED BY <3>1, <3>2
  <2> QED BY <1>10, <1>15, <2>1 DEF Die
<1>16. ASSUME NEW w \in Workers, UNCHANGED <<row, overdue, grants, refs, lock>>,
              \A v \in Workers \ {w} : worker'[v] = worker[v],
              worker'[w].stage = worker[w].stage, worker'[w].todo = worker[w].todo
       PROVE  RowsInv'
  BY <1>16, RowsLeftAlone DEF Holds
<1>17. ASSUME NEW w \in Workers, SettleFiles(w) PROVE RowsInv'
  <2>1. /\ \A v \in Workers \ {w} : worker'[v] = worker[v]
        /\ worker'[w].stage = worker[w].stage /\ worker'[w].todo = worker[w].todo
    BY <1>0, <1>17, SettleEffect DEF SettleFiles
  <2> QED BY <1>16, <1>17, <2>1 DEF SettleFiles
<1>18. ASSUME NEW w \in Workers, MoveToQuarantine(w) PROVE RowsInv'
  <2>1. UNCHANGED <<row, overdue, grants, refs>>
    BY <1>18 DEF MoveToQuarantine
  <2>2. CASE worker'[w] = Off /\ Released(w)
    <3>1. \A v \in Workers \ {w} : worker'[v] = worker[v] /\ (Holds(v)' => Holds(v))
      BY <1>0, <1>18, <2>2, RenameEffect DEF Released, Holds
    <3>2. worker'[w].stage = "off"
      BY <2>2 DEF Off
    <3> QED BY <2>1, <3>1, <3>2, RowsLeftAlone
  <2>3. CASE ~(worker'[w] = Off /\ Released(w))
    <3>1. /\ \A v \in Workers \ {w} : worker'[v] = worker[v] /\ lock' = lock
          /\ worker'[w].stage = worker[w].stage /\ worker'[w].todo = worker[w].todo
          /\ lock' = lock
      BY <1>0, <1>18, <2>3, RenameEffect
    <3> QED BY <1>16, <2>1, <3>1
  <2> QED BY <2>2, <2>3
<1>19. ASSUME NEW w \in Workers, DropFile(w) PROVE RowsInv'
  <2>1. /\ \A v \in Workers \ {w} : worker'[v] = worker[v]
        /\ worker'[w].stage = worker[w].stage /\ worker'[w].todo = worker[w].todo
    BY <1>0, <1>19 DEF DropFile, WorkersOK, WorkerType
  <2> QED BY <1>16, <1>19, <2>1 DEF DropFile
<1>20. {"next", "move", "drop", "after"} \subseteq Steps
       /\ {"none", "orphan", "unreferenced"} \subseteq Whys
  BY DEF Steps, Whys
<1>21. ASSUME NEW w \in Workers, FinishQuarantine(w) PROVE RowsInv'
  <2>1. PICK s \in worker[w].sha :
          /\ row' = [row EXCEPT ![s] = IF @ = "quarantining" /\ worker[w].why # "missing"
                                        THEN "quarantined" ELSE @]
          /\ Step(w, s, "next", "none")
    BY <1>21 DEF FinishQuarantine
  <2>2. s \in Shas /\ Holds(w) /\ UNCHANGED <<overdue, grants, refs>>
    BY <1>0, <1>21 DEF FinishQuarantine, WorkersOK, WorkerType
  <2>3. /\ \A t \in Shas \ {s} : row'[t] = row[t]
        /\ row'[s] = row[s] \/ (row[s] = "quarantining" /\ row'[s] = "quarantined")
    BY <1>0, <2>1, <2>2 DEF TablesOK
  <2>4. \A o \in Orgs : <<o, s>> \in refs => row'[s] = "live" /\ <<o, s>> \in grants'
    BY <1>1, <2>2, <2>3 DEF ReferencedIsLive
  <2>5. s \in overdue' => row'[s] = "quarantined"
    BY <1>3, <2>2, <2>3
  <2> QED BY <1>20, <2>1, <2>2, <2>3, <2>4, <2>5, HolderStep
<1>22. ASSUME NEW w \in Workers, NEW s \in Shas, ReconcileQuarantiningRow(w, s) PROVE RowsInv'
  <2>1. /\ Step(w, s, "after", Outcome(w, s)) /\ Outcome(w, s) \in Whys
        /\ \A t \in Shas \ {s} : row'[t] = row[t]
        /\ row'[s] = row[s] \/ row[s] = "quarantining"
        /\ grants \subseteq grants' /\ UNCHANGED <<overdue, refs>>
    BY <1>0, <1>22, RecoverEffect
  <2>2. Holds(w)
    BY <1>22 DEF ReconcileQuarantiningRow, At
  <2>3. \A o \in Orgs : <<o, s>> \in refs => row'[s] = "live" /\ <<o, s>> \in grants'
    BY <1>1, <2>1 DEF ReferencedIsLive
  <2>4. s \in overdue' => row'[s] = "quarantined"
    BY <1>3, <2>1
  <2> QED BY <1>20, <2>1, <2>2, <2>3, <2>4, HolderStep
<1>23. ASSUME NEW w \in Workers, NEW s \in Shas, ReconcileQuarantinedRow(w, s) PROVE RowsInv'
  <2>1. At(w, "relocate", s) /\ Holds(w) /\ UNCHANGED <<grants, refs>> /\ Step(w, s, "next", "none")
    BY <1>23 DEF ReconcileQuarantinedRow, At
  <2>2. \A o \in Orgs : <<o, s>> \notin refs
    BY <2>1, ListedUnreferenced
  <2>3. /\ \A t \in Shas \ {s} : row'[t] = row[t]
        /\ overdue' \subseteq overdue /\ overdue \subseteq overdue' \cup {s}
        /\ (row'[s] = row[s] /\ overdue' = overdue) \/ s \notin overdue'
    BY <1>0, <1>23 DEF ReconcileQuarantinedRow, TablesOK
  <2>4. s \in overdue' => row'[s] = "quarantined"
    BY <1>3, <2>3
  <2> QED BY <1>20, <2>1, <2>2, <2>3, <2>4, HolderStep
<1>24. ASSUME NEW w \in Workers, NEW s \in Shas, AdoptOrphan(w, s) PROVE RowsInv'
  <2>1. Holds(w) /\ UNCHANGED <<overdue, grants, refs>> /\ Step(w, s, "next", "none")
    BY <1>24 DEF AdoptOrphan, At
  <2>2. /\ \A t \in Shas \ {s} : row'[t] = row[t]
        /\ row'[s] = row[s] \/ (row[s] = "none" /\ row'[s] = "quarantined")
    BY <1>0, <1>24 DEF AdoptOrphan, TablesOK
  <2>3. \A o \in Orgs : <<o, s>> \in refs => row'[s] = "live" /\ <<o, s>> \in grants'
    BY <1>1, <2>1, <2>2 DEF ReferencedIsLive
  <2>4. s \in overdue' => row'[s] = "quarantined"
    BY <1>3, <2>1, <2>2
  <2> QED BY <1>20, <2>1, <2>2, <2>3, <2>4, HolderStep
<1>25. ASSUME NEW w \in Workers, NEW s \in Shas, BeginOrphan(w, s) PROVE RowsInv'
  <2>1. Holds(w) /\ UNCHANGED <<overdue, grants, refs>>
    BY <1>25 DEF BeginOrphan, At
  <2>2. PICK step \in Steps, why \in Whys : Step(w, s, step, why)
    BY <1>20, <1>25 DEF BeginOrphan
  <2>3. /\ \A t \in Shas \ {s} : row'[t] = row[t]
        /\ row'[s] = row[s] \/ row[s] = "none"
    BY <1>0, <1>25 DEF BeginOrphan, TablesOK
  <2>4. \A o \in Orgs : <<o, s>> \in refs => row'[s] = "live" /\ <<o, s>> \in grants'
    BY <1>1, <2>1, <2>3 DEF ReferencedIsLive
  <2>5. s \in overdue' => row'[s] = "quarantined"
    BY <1>3, <2>1, <2>3
  <2> QED BY <2>1, <2>2, <2>3, <2>4, <2>5, HolderStep
<1>26. ASSUME NEW w \in Workers, NEW s \in Shas, BeginQuarantine(w, s) PROVE RowsInv'
  <2>1. Holds(w) /\ UNCHANGED <<overdue, refs>>
    BY <1>26 DEF BeginQuarantine, At
  <2>2. PICK step \in Steps, why \in Whys : Step(w, s, step, why)
    BY <1>20, <1>26 DEF BeginQuarantine
  <2>3. CASE ~ReferencedLive(s) /\ row[s] = "live"
    <3>1. /\ \A t \in Shas \ {s} : row'[t] = row[t]
          /\ grants' = grants \ (Orgs \X {s})
      BY <1>0, <1>26, <2>3 DEF BeginQuarantine, TablesOK
    <3>2. \A o \in Orgs : <<o, s>> \notin refs
      BY <2>3 DEF ReferencedLive
    <3>3. s \notin overdue
      BY <1>3, <2>3
    <3>4. \A o \in Orgs, t \in Shas \ {s} : <<o, t>> \in grants => <<o, t>> \in grants'
      BY <3>1
    <3> QED BY <2>1, <2>2, <3>1, <3>2, <3>3, <3>4, HolderStep
  <2>4. CASE ~(~ReferencedLive(s) /\ row[s] = "live")
    <3>1. UNCHANGED <<row, grants>>
      BY <1>26, <2>4 DEF BeginQuarantine
    <3>2. \A o \in Orgs : <<o, s>> \in refs => row'[s] = "live" /\ <<o, s>> \in grants'
      BY <1>1, <3>1 DEF ReferencedIsLive
    <3>3. s \in overdue' => row'[s] = "quarantined"
      BY <1>3, <2>1, <3>1
    <3> QED BY <2>1, <2>2, <3>1, <3>2, <3>3, HolderStep
  <2> QED BY <2>3, <2>4
<1>27. ASSUME NEW w \in Workers, NEW s \in Shas, DeleteRow(w, s) PROVE RowsInv'
  <2>1. At(w, "delete", s) /\ Holds(w) /\ overdue' = overdue \ {s} /\ UNCHANGED <<grants, refs>>
    BY <1>27 DEF DeleteRow, At
  <2>2. PICK step \in Steps, why \in Whys : Step(w, s, step, why)
    BY <1>20, <1>27 DEF DeleteRow
  <2>3. \A t \in Shas \ {s} : row'[t] = row[t]
    BY <1>0, <1>27 DEF DeleteRow, TablesOK
  <2>4. \A o \in Orgs : <<o, s>> \notin refs
    BY <2>1, ListedUnreferenced
  <2> QED BY <2>1, <2>2, <2>3, <2>4, HolderStep
<1>28. CASE UNCHANGED vars
  BY <1>28, RowsLeftAlone DEF vars, Holds
<1>29. ASSUME NEW w \in Workers, Collect(w) PROVE RowsInv'
  BY <1>9, <1>12, <1>13, <1>14, <1>17, <1>18, <1>19, <1>21, <1>22, <1>23, <1>24, <1>25, <1>26,
     <1>27, <1>29 DEF Collect
<1> QED BY <1>4, <1>5, <1>6, <1>7, <1>8, <1>15, <1>28, <1>29 DEF Next

(* What a revision refers to stays live and readable for its organisation,  *)
(* whatever collectors do meanwhile and however long one of them stalls     *)
(* (the second look of beginAssetQuarantine, the fence of the lock).        *)
THEOREM ReferencedStaysLive == Spec => []ReferencedIsLive
<1>1. Init => RowsInv
  BY DEF Init, RowsInv, ListsHold, OverdueInQuarantine, ReferencedIsLive, Off
<1>2. RowsInv => ReferencedIsLive
  BY DEF RowsInv
<1> QED BY <1>1, <1>2, CollectorTypeCorrect, RowsStep, PTL DEF Spec

-----------------------------------------------------------------------------
(* Files, while no worker outlives its lease between renewing it and the    *)
(* file operation it is for.                                                *)

(* A step of one worker while no other is about to touch a file and none    *)
(* holds the lock afterwards.                                               *)
LEMMA OneActs ==
  ASSUME FilesInv, NEW w \in Workers,
         \A v \in Workers \ {w} : /\ ~Poised(v) /\ ~Holds(v)'
                                   /\ worker'[v] = worker[v],
         Poised(w)' => Holds(w)' /\ ~lock'.lapsed,
         \A s, t \in worker'[w].sha : s = t,
         \A s \in worker'[w].sha : PoisedFits(w, s)'
  PROVE  PoisedHolds' /\ WorkersFit'
<1>1. \A v \in Workers \ {w} : ~Poised(v)'
  BY DEF Poised
<1>2. PoisedHolds'
  BY <1>1 DEF PoisedHolds
<1>3. ASSUME NEW v \in Workers \ {w}
      PROVE  /\ \A s, t \in worker'[v].sha : s = t
             /\ \A s \in worker'[v].sha : PoisedFits(v, s)'
  <2>1. \A s, t \in worker'[v].sha : s = t
    BY DEF FilesInv, WorkersFit
  <2>2. \A s \in worker'[v].sha : PoisedFits(v, s)'
    BY <1>1 DEF PoisedFits, Poised
  <2> QED BY <2>1, <2>2
<1> QED BY <1>2, <1>3 DEF WorkersFit

(* The holder of the lock is the only one about to touch a file.            *)
LEMMA HolderAlone ==
  ASSUME FilesInv, NEW w \in Workers, Holds(w) \/ LockIsFree,
         NEW v \in Workers \ {w}
  PROVE  ~Poised(v)
BY DEF FilesInv, PoisedHolds, Holds, LockIsFree

(* A step of the holder on one asset.                                       *)
LEMMA HolderFits ==
  ASSUME TypeOK, FilesInv, NEW w \in Workers, NEW s \in Shas,
         NEW step \in Steps, NEW why \in Whys, Step(w, s, step, why), Holds(w),
         step # "next" => PoisedFits(w, s)'
  PROVE  PoisedHolds' /\ WorkersFit'
<1>1. /\ lock' = [owner |-> w, lapsed |-> FALSE]
      /\ \A v \in Workers \ {w} : worker'[v] = worker[v]
      /\ worker'[w].sha = IF step = "next" THEN {} ELSE {s}
  BY StepEffect, TypeParts
<1>2. Holds(w)' /\ ~lock'.lapsed /\ \A v \in Workers \ {w} : ~Holds(v)'
  BY <1>1 DEF Holds
<1> QED BY <1>1, <1>2, HolderAlone, OneActs

(* A step that leaves the workers as they are, or resting, and takes no     *)
(* file out of quarantine.                                                  *)
LEMMA OthersAct ==
  ASSUME FilesInv, quar' = quar,
         \A s \in Shas : row'[s] = row[s] \/ (row[s] \in {"none", "live"} /\ row'[s] = "live"),
         overdue' = overdue \/ \A v \in Workers : ~Poised(v),
         \A v \in Workers :
            \/ worker'[v].step = "next" /\ worker'[v].sha = {}
            \/ /\ worker'[v] = worker[v] /\ worker[v].sha \subseteq Shas
               /\ Holds(v)' <=> Holds(v)
               /\ Poised(v) => lock'.lapsed = lock.lapsed
  PROVE  PoisedHolds' /\ WorkersFit'
<1>1. ASSUME NEW v \in Workers
      PROVE  /\ Poised(v)' => Holds(v)' /\ ~lock'.lapsed
             /\ \A s, t \in worker'[v].sha : s = t
             /\ \A s \in worker'[v].sha : PoisedFits(v, s)'
  <2>1. CASE worker'[v].step = "next" /\ worker'[v].sha = {}
    BY <2>1 DEF Poised
  <2>2. CASE /\ worker'[v] = worker[v] /\ worker[v].sha \subseteq Shas
             /\ Holds(v)' <=> Holds(v)
             /\ Poised(v) => lock'.lapsed = lock.lapsed
    <3>1. Poised(v)' => Holds(v)' /\ ~lock'.lapsed
      BY <2>2 DEF Poised, FilesInv, PoisedHolds
    <3>2. \A s, t \in worker'[v].sha : s = t
      BY <2>2 DEF FilesInv, WorkersFit
    <3>3. ASSUME NEW s \in worker'[v].sha PROVE PoisedFits(v, s)'
      <4>1. PoisedFits(v, s) /\ s \in Shas
        BY <2>2 DEF FilesInv, WorkersFit
      <4> QED BY <2>2, <4>1 DEF PoisedFits, Poised
    <3> QED BY <3>1, <3>2, <3>3
  <2> QED BY <2>1, <2>2
<1> QED BY <1>1 DEF PoisedHolds, WorkersFit

(* A step that touches the row or the files of one asset only.              *)
LEMMA OneTouched ==
  ASSUME FileTables, NEW s \in Shas, UNCHANGED importVars,
         \A t \in Shas \ {s} : /\ row'[t] = row[t]
                               /\ t \in live => t \in live'
                               /\ t \in quar => t \in quar'
                               /\ t \in overdue' => t \in overdue,
         row'[s] = "quarantined" => s \in quar',
         row'[s] = "live" => s \in live',
         \A o \in Orgs : MayCommit(o, s) =>
            s \in live' \/ (row'[s] \in {"quarantining", "quarantined"} /\ s \notin overdue')
  PROVE  FileTables'
<1>1. QuarantinedHasFile' /\ LiveRowsHaveFiles'
  BY DEF FileTables, QuarantinedHasFile, LiveRowsHaveFiles
<1>2. ASSUME NEW o \in Orgs, NEW t \in Shas, MayCommit(o, t)'
      PROVE  t \in live' \/ (row'[t] \in {"quarantining", "quarantined"} /\ t \notin overdue')
  <2>1. MayCommit(o, t)
    BY <1>2 DEF MayCommit, importVars
  <2> QED BY <2>1 DEF FileTables, ImportsSafe
<1> QED BY <1>1, <1>2 DEF FileTables, ImportsSafe

(* Files and rows that nobody touched.                                      *)
LEMMA NoneTouched ==
  ASSUME FileTables, UNCHANGED <<row, overdue, fileVars, importVars>>
  PROVE  FileTables'
BY DEF FileTables, QuarantinedHasFile, LiveRowsHaveFiles, ImportsSafe, MayCommit, fileVars, importVars

(* Imports and saves: a lease that a boot has removed cannot be committed   *)
(* on, and what can be committed has its files.                             *)
LEMMA ImportsKeepFiles ==
  ASSUME TypeOK, RowsInv, FilesInv, NEW o \in Orgs,
         \/ CreateImportLeases(o) \/ VerifyBytes(o) \/ FailImport(o) \/ ImportDies(o)
         \/ LeasesExpire(o) \/ CommitImport(o)
         \/ \E s \in Shas : PutIfAbsent(o, s) \/ Save(o, s)
  PROVE  FilesInv'
<1>0. TablesOK /\ LockOK /\ WorkersOK
  BY TypeParts
<1>1. UNCHANGED <<overdue, quar, lock, worker>> /\ live \subseteq live'
  BY DEF CreateImportLeases, VerifyBytes, FailImport, ImportDies, LeasesExpire, CommitImport,
     PutIfAbsent, Save, fileVars
<1>2. \A s \in Shas : row'[s] = row[s] \/ (row[s] \in {"none", "live"} /\ row'[s] = "live")
  BY DEF CreateImportLeases, VerifyBytes, FailImport, ImportDies, LeasesExpire, CommitImport,
     PutIfAbsent, Save, Importable
<1>3. PoisedHolds' /\ WorkersFit'
  BY <1>0, <1>1, <1>2, OthersAct DEF Holds, WorkersOK, WorkerType
<1>4. \A s \in Shas, p \in Orgs : MayCommit(p, s) =>
        s \in live \/ (row[s] \in {"quarantining", "quarantined"} /\ s \notin overdue)
  BY DEF FilesInv, FileTables, ImportsSafe
<1>5. \A s \in Shas, p \in Orgs : MayCommit(p, s)' => MayCommit(p, s) \/ s \in live
  <2> SUFFICES ASSUME NEW s \in Shas, NEW p \in Orgs, MayCommit(p, s)', ~MayCommit(p, s)
               PROVE  s \in live
    OBVIOUS
  <2>1. import \in [Orgs -> ImportType]
    BY <1>0 DEF TablesOK
  <2>2. CASE CreateImportLeases(o)
    <3>1. p # o => import'[p] = import[p]
      BY <2>1, <2>2 DEF CreateImportLeases
    <3>2. import'[o].at = "leased"
      BY <2>1, <2>2 DEF CreateImportLeases
    <3>3. p # o => (<<p, s>> \in leases' => <<p, s>> \in leases)
      BY <2>2 DEF CreateImportLeases
    <3> QED BY <2>2, <3>1, <3>2, <3>3 DEF CreateImportLeases, MayCommit
  <2>3. CASE VerifyBytes(o)
    <3>1. p # o => import'[p] = import[p]
      BY <2>1, <2>3 DEF VerifyBytes
    <3>2. import'[o].wants = import[o].wants
      BY <2>1, <2>3 DEF VerifyBytes, ImportType
    <3> QED BY <2>3, <3>1, <3>2 DEF VerifyBytes, MayCommit
  <2>4. CASE FailImport(o) \/ ImportDies(o) \/ CommitImport(o)
    <3>1. p # o => import'[p] = import[p]
      BY <2>1, <2>4 DEF FailImport, ImportDies, CommitImport
    <3>2. import'[o].at = "idle"
      BY <2>1, <2>4 DEF FailImport, ImportDies, CommitImport, NoImport
    <3>3. p # o => (p \notin expired' => p \notin expired)
      BY <2>4 DEF FailImport, ImportDies, CommitImport
    <3>4. leases' \subseteq leases
      BY <2>4 DEF FailImport, ImportDies, CommitImport
    <3> QED BY <3>1, <3>2, <3>3, <3>4 DEF MayCommit
  <2>5. CASE LeasesExpire(o)
    BY <2>5 DEF LeasesExpire, MayCommit
  <2>6. CASE \E t \in Shas : PutIfAbsent(o, t) \/ Save(o, t)
    <3>1. import'[p].at = import[p].at /\ import'[p].wants = import[p].wants
      BY <2>1, <2>6 DEF PutIfAbsent, Save, importVars, ImportType
    <3> QED BY <2>6, <3>1 DEF PutIfAbsent, Save, importVars, MayCommit
  <2> QED BY <2>2, <2>3, <2>4, <2>5, <2>6
<1>6. ASSUME NEW s \in Shas, row'[s] = "live" PROVE s \in live'
  <2>1. CASE row[s] = "live"
    BY <1>1, <2>1 DEF FilesInv, FileTables, LiveRowsHaveFiles
  <2>2. CASE row[s] # "live"
    <3>1. CommitImport(o) /\ s \in import[o].wants
      BY <1>6, <2>2 DEF CreateImportLeases, VerifyBytes, FailImport, ImportDies, LeasesExpire,
         CommitImport, PutIfAbsent, Save
    <3>2. MayCommit(o, s) /\ row[s] \in {"none", "live"}
      BY <3>1 DEF CommitImport, MayCommit, Leased, Importable
    <3> QED BY <1>1, <1>4, <3>2
  <2> QED BY <2>1, <2>2
<1>7. ImportsSafe'
  <2> SUFFICES ASSUME NEW p \in Orgs, NEW s \in Shas, MayCommit(p, s)'
               PROVE  s \in live' \/ (row'[s] \in {"quarantining", "quarantined"} /\ s \notin overdue')
    BY DEF ImportsSafe
  <2> QED BY <1>1, <1>2, <1>4, <1>5
<1>8. QuarantinedHasFile'
  BY <1>1, <1>2 DEF FilesInv, FileTables, QuarantinedHasFile
<1> QED BY <1>3, <1>6, <1>7, <1>8 DEF FilesInv, FileTables, LiveRowsHaveFiles

(* The steps that touch a file without looking at the row again.            *)
LEMMA PoisedKeepFiles ==
  ASSUME TypeOK, RowsInv, FilesInv, NEW w \in Workers,
         SettleFiles(w) \/ MoveToQuarantine(w) \/ DropFile(w)
  PROVE  FilesInv'
<1>0. /\ TablesOK /\ LockOK /\ WorkersOK
      /\ worker[w].sha \subseteq Shas
  BY TypeParts DEF WorkersOK, WorkerType
<1>1. Holds(w) /\ ~lock.lapsed /\ FileTables
  BY DEF FilesInv, PoisedHolds, Poised, SettleFiles, MoveToQuarantine, DropFile
<1>2. /\ \A s, t \in worker[w].sha : s = t
      /\ \A s \in worker[w].sha : PoisedFits(w, s)
  BY DEF FilesInv, WorkersFit
<1>3. \A v \in Workers \ {w} : ~Poised(v) /\ ~Holds(v)
  BY <1>1, HolderAlone DEF Holds
<1>4. \A s \in Shas : row[s] = "quarantining" => s \notin overdue
  BY DEF RowsInv, OverdueInQuarantine
<1>5. UNCHANGED <<row, overdue, importVars>>
  BY DEF SettleFiles, MoveToQuarantine, DropFile
<1>6. \A o \in Orgs, s \in Shas : MayCommit(o, s) =>
        s \in live \/ (row[s] \in {"quarantining", "quarantined"} /\ s \notin overdue)
  BY <1>1 DEF FileTables, ImportsSafe
<1>7. \A s \in Shas : row[s] = "live" => s \in live
  BY <1>1 DEF FileTables, LiveRowsHaveFiles
<1>8. \A s \in Shas : row[s] = "quarantined" => s \in quar
  BY <1>1 DEF FileTables, QuarantinedHasFile
<1>9. CASE SettleFiles(w)
  <2>1. PICK s \in worker[w].sha :
          /\ \A v \in Workers \ {w} : worker'[v] = worker[v]
          /\ \/ worker'[w].step = "next" /\ worker'[w].sha = {}
             \/ /\ worker'[w].step = "finish" /\ worker'[w].sha = {s}
                /\ s \in quar'
          /\ \/ UNCHANGED fileVars
             \/ worker[w].why = "restored" /\ quar' = quar \ {s} /\ live' = live
             \/ worker[w].why = "marked" /\ quar' = quar /\ live' = live \ {s}
             \/ worker[w].why = "kept" /\ quar' = quar \cup {s} /\ live' = live \ {s}
    BY <1>0, <1>9, SettleEffect DEF SettleFiles
  <2>2. lock' = lock /\ worker[w].step = "after"
    BY <1>9 DEF SettleFiles
  <2>3. \A t \in worker'[w].sha : PoisedFits(w, t)'
    BY <2>1 DEF PoisedFits
  <2>4. PoisedHolds' /\ WorkersFit'
    BY <1>3, <2>1, <2>2, <2>3, OneActs DEF Poised, Holds
  <2>5. /\ worker[w].why = "restored" => row[s] = "live"
        /\ worker[w].why = "marked" => row[s] = "quarantined" /\ s \notin overdue
        /\ worker[w].why = "kept" => row[s] = "quarantining"
    BY <1>2, <2>1, <2>2 DEF PoisedFits
  <2>6. s \in Shas
    BY <1>0
  <2>7. FileTables'
    <3>1. CASE UNCHANGED fileVars
      BY <1>1, <1>5, <3>1, NoneTouched
    <3>2. CASE worker[w].why = "restored" /\ quar' = quar \ {s} /\ live' = live
      BY <1>1, <1>5, <1>6, <1>7, <2>5, <2>6, <3>2, OneTouched
    <3>3. CASE worker[w].why = "marked" /\ quar' = quar /\ live' = live \ {s}
      BY <1>1, <1>5, <1>8, <2>5, <2>6, <3>3, OneTouched
    <3>4. CASE worker[w].why = "kept" /\ quar' = quar \cup {s} /\ live' = live \ {s}
      BY <1>1, <1>4, <1>5, <2>5, <2>6, <3>4, OneTouched
    <3> QED BY <2>1, <3>1, <3>2, <3>3, <3>4
  <2> QED BY <2>4, <2>7 DEF FilesInv
<1>10. CASE MoveToQuarantine(w)
  <2>1. PICK s \in worker[w].sha :
          /\ \A v \in Workers \ {w} : worker'[v] = worker[v]
          /\ \/ UNCHANGED fileVars
             \/ quar' = quar \cup {s} /\ live' = live \ {s}
          /\ \/ worker'[w] = Off /\ Released(w)
             \/ worker'[w].step = "next" /\ worker'[w].sha = {} /\ lock' = lock
             \/ /\ worker'[w].step = "finish" /\ worker'[w].sha = worker[w].sha
                /\ worker'[w].why # "missing" => s \in quar'
                /\ lock' = lock
    BY <1>0, <1>10, RenameEffect
  <2>2. row[s] = "quarantining" /\ s \in Shas
    BY <1>0, <1>2, <1>10 DEF MoveToQuarantine, PoisedFits
  <2>3. FileTables'
    <3>1. CASE UNCHANGED fileVars
      BY <1>1, <1>5, <3>1, NoneTouched
    <3>2. CASE quar' = quar \cup {s} /\ live' = live \ {s}
      BY <1>1, <1>4, <1>5, <2>2, <3>2, OneTouched
    <3> QED BY <2>1, <3>1, <3>2
  <2>4. \A v \in Workers \ {w} : ~Holds(v)'
    BY <1>3, <2>1 DEF Released, Holds
  <2>5. ~Poised(w)'
    BY <2>1 DEF Poised, Off
  <2>6. /\ \A t, u \in worker'[w].sha : t = u
        /\ \A t \in worker'[w].sha : PoisedFits(w, t)'
    <3>1. CASE worker'[w] = Off
      BY <3>1 DEF Off
    <3>2. CASE worker'[w].step = "next" /\ worker'[w].sha = {}
      BY <3>2
    <3>3. CASE /\ worker'[w].step = "finish" /\ worker'[w].sha = worker[w].sha
               /\ worker'[w].why # "missing" => s \in quar'
      BY <1>2, <2>1, <3>3 DEF PoisedFits
    <3> QED BY <2>1, <3>1, <3>2, <3>3
  <2>7. PoisedHolds' /\ WorkersFit'
    BY <1>3, <2>1, <2>4, <2>5, <2>6, OneActs
  <2> QED BY <2>3, <2>7 DEF FilesInv
<1>11. CASE DropFile(w)
  <2>1. /\ quar' = quar \ worker[w].sha /\ live' = live /\ lock' = lock
        /\ \A s \in worker[w].sha : row[s] \in {"none", "live"}
    BY <1>2, <1>11 DEF DropFile, PoisedFits
  <2>2. /\ worker'[w].step = "next" /\ worker'[w].sha = {}
        /\ \A v \in Workers \ {w} : worker'[v] = worker[v]
    BY <1>0, <1>11 DEF DropFile, WorkersOK, WorkerType
  <2>3. PoisedHolds' /\ WorkersFit'
    BY <1>3, <2>1, <2>2, OneActs DEF Poised, Holds
  <2>4. QuarantinedHasFile' /\ LiveRowsHaveFiles'
    BY <1>5, <1>7, <1>8, <2>1 DEF QuarantinedHasFile, LiveRowsHaveFiles
  <2>5. ImportsSafe'
    BY <1>5, <1>6, <2>1 DEF ImportsSafe, MayCommit, importVars
  <2> QED BY <2>3, <2>4, <2>5 DEF FilesInv, FileTables
<1> QED BY <1>9, <1>10, <1>11

(* The steps on rows, each made by the holder of the lock.                  *)
LEMMA HoldersKeepFiles ==
  ASSUME TypeOK, RowsInv, FilesInv, NEW w \in Workers,
         \/ FinishQuarantine(w)
         \/ \E s \in Shas :
              \/ ReconcileQuarantiningRow(w, s) \/ ReconcileQuarantinedRow(w, s)
              \/ AdoptOrphan(w, s) \/ BeginOrphan(w, s) \/ BeginQuarantine(w, s)
              \/ DeleteRow(w, s)
  PROVE  FilesInv'
<1>0. TablesOK /\ LockOK /\ WorkersOK /\ FileTables
  BY TypeParts DEF FilesInv
<1>1. \A s \in Shas : row[s] # "quarantined" => s \notin overdue
  BY DEF RowsInv, OverdueInQuarantine
<1>2. \A o \in Orgs, s \in Shas : MayCommit(o, s) =>
        s \in live \/ (row[s] \in {"quarantining", "quarantined"} /\ s \notin overdue)
  BY <1>0 DEF FileTables, ImportsSafe
<1>3. \A s \in Shas : row[s] = "live" => s \in live
  BY <1>0 DEF FileTables, LiveRowsHaveFiles
<1>4. \A s \in Shas : row[s] = "quarantined" => s \in quar
  BY <1>0 DEF FileTables, QuarantinedHasFile
<1>5. {"next", "move", "drop", "after"} \subseteq Steps
      /\ {"none", "orphan", "unreferenced"} \subseteq Whys
  BY DEF Steps, Whys
<1>6. CASE FinishQuarantine(w)
  <2>1. PICK s \in worker[w].sha :
          /\ row' = [row EXCEPT ![s] = IF @ = "quarantining" /\ worker[w].why # "missing"
                                        THEN "quarantined" ELSE @]
          /\ Step(w, s, "next", "none")
    BY <1>6 DEF FinishQuarantine
  <2>2. /\ s \in Shas /\ Holds(w) /\ worker[w].step = "finish"
        /\ UNCHANGED <<overdue, live, quar, importVars>>
    BY <1>0, <1>6 DEF FinishQuarantine, WorkersOK, WorkerType, fileVars
  <2>3. /\ \A t \in Shas \ {s} : row'[t] = row[t]
        /\ \/ row'[s] = row[s]
           \/ worker[w].why # "missing" /\ row[s] = "quarantining" /\ row'[s] = "quarantined"
    BY <1>0, <2>1, <2>2 DEF TablesOK
  <2>4. worker[w].why # "missing" => s \in quar
    BY <2>1, <2>2 DEF FilesInv, WorkersFit, PoisedFits
  <2>5. FileTables'
    BY <1>0, <1>1, <1>2, <1>3, <1>4, <2>2, <2>3, <2>4, OneTouched
  <2>6. PoisedHolds' /\ WorkersFit'
    BY <1>5, <2>1, <2>2, HolderFits
  <2> QED BY <2>5, <2>6 DEF FilesInv
<1>7. ASSUME NEW s \in Shas, ReconcileQuarantiningRow(w, s) PROVE FilesInv'
  <2> DEFINE out == Outcome(w, s)
  <2>1. /\ out \in {"noop", "marked", "kept", "deleted", "restored"}
        /\ Step(w, s, "after", out) /\ out \in Whys
        /\ \A t \in Shas \ {s} : row'[t] = row[t]
        /\ out = "marked" => row[s] = "quarantining" /\ row'[s] = "quarantined" /\ s \in quar
        /\ out = "deleted" => row[s] = "quarantining" /\ row'[s] = "none" /\ ~HasLease(s)
        /\ out = "restored" => row[s] = "quarantining" /\ row'[s] = "live" /\ s \in live
        /\ out = "kept" => row[s] = "quarantining" /\ row'[s] = "quarantining"
        /\ out = "noop" => row'[s] = row[s]
        /\ UNCHANGED <<overdue, live, quar, importVars>>
    BY <1>0, <1>7, RecoverEffect DEF fileVars
  <2>2. Holds(w)
    BY <1>7 DEF ReconcileQuarantiningRow, At
  <2> HIDE DEF out
  <2>3. worker'[w].step = "after" /\ worker'[w].why = out
    <3>1. "after" \in Steps /\ WorkersOK
      BY <1>0, <1>5
    <3>2. Step(w, s, "after", out) /\ out \in Whys
      BY <2>1
    <3>3. worker'[w].step = "after"
      BY <3>1, <3>2, StepEffect
    <3>4. worker'[w].why = out
      BY <3>1, <3>2 DEF Step, WorkersOK, WorkerType
    <3> QED BY <3>3, <3>4
  <2>4. PoisedFits(w, s)'
    BY <1>1, <2>1, <2>3 DEF PoisedFits
  <2>5. PoisedHolds' /\ WorkersFit'
    BY <1>5, <2>1, <2>2, <2>4, HolderFits
  <2>6. \A o \in Orgs : ~HasLease(s) => ~MayCommit(o, s)
    BY DEF HasLease, MayCommit
  <2>7. FileTables'
    <3>1. row'[s] = "quarantined" => s \in quar'
      BY <1>4, <2>1
    <3>2. row'[s] = "live" => s \in live'
      BY <1>3, <2>1
    <3>3. \A o \in Orgs : MayCommit(o, s) =>
            s \in live' \/ (row'[s] \in {"quarantining", "quarantined"} /\ s \notin overdue')
      BY <1>2, <2>1, <2>6
    <3> QED BY <1>0, <2>1, <3>1, <3>2, <3>3, OneTouched
  <2> QED BY <2>5, <2>7 DEF FilesInv
<1>8. ASSUME NEW s \in Shas, ReconcileQuarantinedRow(w, s) PROVE FilesInv'
  <2>1. At(w, "relocate", s) /\ Holds(w) /\ Step(w, s, "next", "none")
    BY <1>8 DEF ReconcileQuarantinedRow, At
  <2>2. row[s] = "quarantined" /\ s \in quar
    BY <1>4, <2>1, ListedUnreferenced
  <2>3. UNCHANGED <<row, overdue, fileVars, importVars>>
    BY <1>8, <2>2 DEF ReconcileQuarantinedRow, Renames
  <2>4. PoisedHolds' /\ WorkersFit'
    BY <1>5, <2>1, HolderFits
  <2> QED BY <1>0, <2>3, <2>4, NoneTouched DEF FilesInv
<1>9. ASSUME NEW s \in Shas, AdoptOrphan(w, s) PROVE FilesInv'
  <2>1. /\ Holds(w) /\ Step(w, s, "next", "none")
        /\ UNCHANGED <<overdue, live, quar, importVars>>
    BY <1>9 DEF AdoptOrphan, At, fileVars
  <2>2. /\ \A t \in Shas \ {s} : row'[t] = row[t]
        /\ \/ row'[s] = row[s]
           \/ s \in quar /\ row[s] = "none" /\ row'[s] = "quarantined"
    BY <1>0, <1>9 DEF AdoptOrphan, TablesOK
  <2>3. FileTables'
    BY <1>0, <1>1, <1>2, <1>3, <1>4, <2>1, <2>2, OneTouched
  <2>4. PoisedHolds' /\ WorkersFit'
    BY <1>5, <2>1, HolderFits
  <2> QED BY <2>3, <2>4 DEF FilesInv
<1>10. ASSUME NEW s \in Shas, NEW why \in Whys, Holds(w),
              \/ row'[s] = "quarantining" /\ row[s] \in {"none", "live"} /\ Step(w, s, "move", why)
              \/ row'[s] = row[s] /\ Step(w, s, "next", why),
              \A t \in Shas \ {s} : row'[t] = row[t],
              UNCHANGED <<overdue, live, quar, importVars>>
       PROVE  FilesInv'
  <2>1. FileTables'
    BY <1>0, <1>1, <1>2, <1>3, <1>4, <1>10, OneTouched
  <2>2. PoisedHolds' /\ WorkersFit'
    <3>1. CASE Step(w, s, "next", why)
      BY <1>5, <1>10, <3>1, HolderFits
    <3>2. CASE row'[s] = "quarantining" /\ Step(w, s, "move", why)
      <4>1. worker'[w].step = "move"
        BY <1>0, <1>5, <3>2, StepEffect
      <4>2. PoisedFits(w, s)'
        BY <3>2, <4>1 DEF PoisedFits
      <4> QED BY <1>5, <1>10, <3>2, <4>2, HolderFits
    <3> QED BY <1>10, <3>1, <3>2
  <2> QED BY <2>1, <2>2 DEF FilesInv
<1>11. ASSUME NEW s \in Shas, BeginOrphan(w, s) PROVE FilesInv'
  <2>1. /\ Holds(w) /\ UNCHANGED <<overdue, live, quar, importVars>>
    BY <1>11 DEF BeginOrphan, At, fileVars
  <2>2. /\ \A t \in Shas \ {s} : row'[t] = row[t]
        /\ \/ row'[s] = "quarantining" /\ row[s] = "none" /\ Step(w, s, "move", "orphan")
           \/ row'[s] = row[s] /\ Step(w, s, "next", "none")
    BY <1>0, <1>11 DEF BeginOrphan, TablesOK
  <2> QED BY <1>5, <1>10, <2>1, <2>2
<1>12. ASSUME NEW s \in Shas, BeginQuarantine(w, s) PROVE FilesInv'
  <2>1. /\ Holds(w) /\ UNCHANGED <<overdue, live, quar, importVars>>
    BY <1>12 DEF BeginQuarantine, At, fileVars
  <2>2. /\ \A t \in Shas \ {s} : row'[t] = row[t]
        /\ \/ row'[s] = "quarantining" /\ row[s] = "live" /\ Step(w, s, "move", "unreferenced")
           \/ row'[s] = row[s] /\ Step(w, s, "next", "none")
    BY <1>0, <1>12 DEF BeginQuarantine, TablesOK
  <2> QED BY <1>5, <1>10, <2>1, <2>2
<1>13. ASSUME NEW s \in Shas, DeleteRow(w, s) PROVE FilesInv'
  <2>1. /\ At(w, "delete", s) /\ Holds(w) /\ overdue' = overdue \ {s}
        /\ UNCHANGED <<live, quar, importVars>>
    BY <1>13 DEF DeleteRow, At, fileVars
  <2>2. row'[s] = "none" /\ \A t \in Shas \ {s} : row'[t] = row[t]
    BY <1>0, <1>13 DEF DeleteRow, TablesOK
  <2>3. s \in overdue
    BY <2>1, ListedUnreferenced
  <2>4. FileTables'
    BY <1>0, <1>2, <2>1, <2>2, <2>3, OneTouched
  <2>5. PICK step \in {"drop", "next"} : Step(w, s, step, "none")
    BY <1>13 DEF DeleteRow
  <2>6. worker'[w].step = step
    <3>1. step \in Steps /\ "none" \in Whys
      BY <1>5
    <3> QED BY <1>0, <2>5, <3>1, StepEffect
  <2>7. step # "next" => PoisedFits(w, s)'
    BY <2>2, <2>6 DEF PoisedFits
  <2>8. PoisedHolds' /\ WorkersFit'
    BY <1>5, <2>1, <2>5, <2>7, HolderFits
  <2> QED BY <2>4, <2>8 DEF FilesInv
<1> QED BY <1>6, <1>7, <1>8, <1>9, <1>11, <1>12, <1>13

LEMMA FilesStep ==
  ASSUME ~MayStall
  PROVE  TypeOK /\ RowsInv /\ FilesInv /\ [Next]_vars => FilesInv'
<1> SUFFICES ASSUME TypeOK, RowsInv, FilesInv, [Next]_vars PROVE FilesInv'
  OBVIOUS
<1>0. TablesOK /\ LockOK /\ WorkersOK /\ FileTables
  BY TypeParts DEF FilesInv
<1>1. \A v \in Workers : worker[v].sha \subseteq Shas
  BY <1>0 DEF WorkersOK, WorkerType
<1>2. TimePasses => \A v \in Workers : ~Poised(v)
  BY DEF TimePasses, FilesInv, PoisedHolds
<1>3. ASSUME NEW s \in Shas, GraceEnds(s) PROVE FilesInv'
  <2>1. PoisedHolds' /\ WorkersFit'
    BY <1>1, <1>2, <1>3, OthersAct DEF GraceEnds, fileVars, Holds
  <2>2. QuarantinedHasFile' /\ LiveRowsHaveFiles'
    BY <1>0, <1>3 DEF GraceEnds, fileVars, FileTables, QuarantinedHasFile, LiveRowsHaveFiles
  <2>3. \A o \in Orgs, t \in Shas : ~MayCommit(o, t)'
    <3> SUFFICES ASSUME NEW o \in Orgs, NEW t \in Shas, <<o, t>> \in leases
                 PROVE  o \in expired'
      BY <1>3 DEF GraceEnds, MayCommit
    <3> QED BY <1>3 DEF GraceEnds, Leased
  <2>4. ImportsSafe'
    BY <2>3 DEF ImportsSafe
  <2> QED BY <2>1, <2>2, <2>4 DEF FilesInv, FileTables
<1>4. CASE LockLapses
  <2>1. lock'.owner = lock.owner /\ \A v \in Workers : ~Poised(v)
    BY <1>0, <1>2, <1>4 DEF LockLapses, LockOK
  <2>2. PoisedHolds' /\ WorkersFit'
    BY <1>1, <1>4, <2>1, OthersAct DEF LockLapses, fileVars, Holds
  <2> QED BY <1>0, <1>4, <2>2, NoneTouched DEF LockLapses, FilesInv
<1>5. ASSUME NEW w \in Workers, Boot(w) PROVE FilesInv'
  <2>1. /\ worker'[w].step = "next" /\ worker'[w].sha = {}
        /\ \A v \in Workers \ {w} : worker'[v] = worker[v]
    BY <1>0, <1>5 DEF Boot, WorkersOK, Off
  <2>2. /\ UNCHANGED <<row, overdue, live, quar, import, lock>>
        /\ leases' = leases \ (expired \X Shas) /\ expired' = {}
    BY <1>5 DEF Boot, fileVars
  <2>3. PoisedHolds' /\ WorkersFit'
    BY <1>1, <2>1, <2>2, OthersAct DEF Holds
  <2>4. \A o \in Orgs, s \in Shas : MayCommit(o, s)' => MayCommit(o, s)
    BY <2>2 DEF MayCommit
  <2>5. FileTables'
    BY <1>0, <2>2, <2>4 DEF FileTables, QuarantinedHasFile, LiveRowsHaveFiles, ImportsSafe
  <2> QED BY <2>3, <2>5 DEF FilesInv
<1>6. ASSUME NEW w \in Workers, worker' = [worker EXCEPT ![w] = Off],
             UNCHANGED <<row, overdue, fileVars, importVars>>,
             \A v \in Workers \ {w} : (Holds(v)' <=> Holds(v)) /\ (Poised(v) => lock'.lapsed = lock.lapsed)
      PROVE  FilesInv'
  <2>1. worker'[w] = Off /\ \A v \in Workers \ {w} : worker'[v] = worker[v]
    BY <1>0, <1>6, OffEffect
  <2>2. Off.step = "next" /\ Off.sha = {}
    BY DEF Off
  <2>3. PoisedHolds' /\ WorkersFit'
    BY <1>1, <1>6, <2>1, <2>2, OthersAct DEF fileVars
  <2> QED BY <1>0, <1>6, <2>3, NoneTouched DEF FilesInv
<1>7. ASSUME NEW w \in Workers, NEW stage \in Collecting, Enter(w, stage), Renewed(w),
             Holds(w) \/ LockIsFree, UNCHANGED <<row, overdue, fileVars, importVars>>
      PROVE  FilesInv'
  <2>1. /\ worker'[w].step = "next" /\ worker'[w].sha = {}
        /\ \A v \in Workers \ {w} : worker'[v] = worker[v]
    BY <1>0, <1>7, EnterEffect
  <2>2. \A v \in Workers \ {w} : ~Poised(v) /\ ~Holds(v)'
    BY <1>7, HolderAlone DEF Renewed, Holds
  <2>3. PoisedHolds' /\ WorkersFit'
    BY <2>1, <2>2, OneActs DEF Poised
  <2> QED BY <1>0, <1>7, <2>3, NoneTouched DEF FilesInv
<1>8. ASSUME NEW w \in Workers, TryAcquire(w) PROVE FilesInv'
  <2>1. "recover" \in Collecting
    BY DEF Collecting
  <2> QED BY <1>6, <1>7, <1>8, <2>1 DEF TryAcquire, Holds
<1>9. ASSUME NEW w \in Workers, Advance(w) PROVE FilesInv'
  <2>1. worker[w].stage # "delete" => NextStage[worker[w].stage] \in Collecting
    BY <1>9 DEF Advance, NextStage, Collecting
  <2>2. ASSUME Released(w), Holds(w), NEW v \in Workers \ {w}
        PROVE  (Holds(v)' <=> Holds(v)) /\ ~Poised(v)
    BY <2>2, HolderAlone DEF Released, Holds
  <2> QED BY <1>6, <1>7, <1>9, <2>1, <2>2 DEF Advance
<1>10. ASSUME NEW w \in Workers, Abort(w) PROVE FilesInv'
  BY <1>6, <1>10 DEF Abort, Holds
<1>11. ASSUME NEW w \in Workers, Die(w) PROVE FilesInv'
  <2>1. lock'.lapsed = lock.lapsed /\ \A v \in Workers \ {w} : Holds(v)' <=> Holds(v)
    <3>1. CASE Holds(w)
      <4>1. lock'.owner = Ghost /\ lock'.lapsed = lock.lapsed
        BY <1>0, <1>11, <3>1 DEF Die, LockOK
      <4> QED BY <3>1, <4>1 DEF Holds
    <3>2. CASE ~Holds(w)
      BY <1>11, <3>2 DEF Die, Holds
    <3> QED BY <3>1, <3>2
  <2> QED BY <1>6, <1>11, <2>1 DEF Die
<1>12. CASE UNCHANGED vars
  <2>1. UNCHANGED <<row, overdue, fileVars, importVars, lock, worker>>
    BY <1>12 DEF vars
  <2>2. PoisedHolds' /\ WorkersFit'
    BY <1>1, <2>1, OthersAct DEF Holds, fileVars
  <2> QED BY <1>0, <2>1, <2>2, NoneTouched DEF FilesInv
<1>13. ASSUME NEW w \in Workers, Collect(w) PROVE FilesInv'
  BY <1>5, <1>8, <1>9, <1>10, <1>13, PoisedKeepFiles, HoldersKeepFiles DEF Collect
<1>14. ASSUME NEW o \in Orgs,
              \/ CreateImportLeases(o) \/ VerifyBytes(o) \/ CommitImport(o)
              \/ FailImport(o) \/ ImportDies(o) \/ LeasesExpire(o)
              \/ \E s \in Shas : PutIfAbsent(o, s) \/ Save(o, s)
       PROVE  FilesInv'
  BY <1>14, ImportsKeepFiles
<1> QED BY <1>3, <1>4, <1>11, <1>12, <1>13, <1>14 DEF Next

(* As long as no worker outlives its lease at a file operation, a row that  *)
(* says "live" has its file in its place: no collector takes the file away, *)
(* or leaves it in quarantine, under a row that an import or a recovery     *)
(* made live.                                                               *)
THEOREM LiveRowsKeepFiles ==
  ASSUME ~MayStall
  PROVE  Spec => []LiveRowsHaveFiles
<1>1. Init => RowsInv /\ FilesInv
  <2>1. Init => RowsInv
    BY DEF Init, RowsInv, ListsHold, OverdueInQuarantine, ReferencedIsLive, Off
  <2>2. Init => PoisedHolds /\ WorkersFit
    BY DEF Init, PoisedHolds, WorkersFit, Poised, Off
  <2>3. Init => FileTables
    BY DEF Init, FileTables, QuarantinedHasFile, LiveRowsHaveFiles, ImportsSafe, MayCommit
  <2> QED BY <2>1, <2>2, <2>3 DEF FilesInv
<1>2. TypeOK /\ RowsInv /\ FilesInv /\ [Next]_vars => RowsInv' /\ FilesInv'
  BY RowsStep, FilesStep
<1>3. FilesInv => LiveRowsHaveFiles
  BY DEF FilesInv, FileTables
<1> QED BY <1>1, <1>2, <1>3, CollectorTypeCorrect, PTL DEF Spec
=============================================================================
