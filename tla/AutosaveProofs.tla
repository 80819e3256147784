---------------------------- MODULE AutosaveProofs ----------------------------
(* Proofs about Autosave and the ProjectService it saves to, for any number *)
(* of calls, edits, retries and interventions of others.                    *)
EXTENDS Autosave, SequenceTheorems, TLAPS

USE ServiceAssumption, AutosaveAssumption DEF ServiceAssumption, AutosaveAssumption

-----------------------------------------------------------------------------
(* What a call of runSave is.                                               *)
CallType == [at : {"idle", "waits", "sent", "answered"}, flush : BOOLEAN,
             on : Calls \cup {NoCall}, sent : Requests, answer : Nat]

Actives == [id : Nat, gen : 0..MaxEdits]

(* A document the client sends is one of the documents.                     *)
LEMMA EditsAreDocuments ==
  ASSUME TypeOK PROVE generation \in Documents
BY DEF TypeOK

LEMMA NothingTypes ==
  /\ Nothing \in Requests /\ Idle \in CallType /\ NoActive \in Actives
<1>1. Nothing \in Requests
  BY DEF Nothing, Requests, Transactions
<1> QED BY <1>1 DEF Idle, CallType, NoActive, Actives

(* Sending for the calls of S leaves every call well formed.                *)
LEMMA StartTypes ==
  ASSUME TypeOK, NEW S \in SUBSET Calls, S # {}, NEW cs \in [Calls -> CallType],
         NEW act \in Actives, NEW b \in Nat, NEW tries \in 0..MaxRetries,
         Start(S, cs, act, b, tries)
  PROVE  /\ call' \in [Calls -> CallType]
         /\ inFlight' \in Calls
         /\ state' \in States
         /\ active' \in Actives
         /\ attempts' \in 0..MaxRetries
         /\ drawn' \in Nat
<1> DEFINE id == IF NeedsId(act, generation) THEN drawn + 1 ELSE act.id
           req == [tx |-> [by |-> "client", id |-> id], base |-> b,
                   doc |-> generation, snap |-> 0]
<1>1. id \in Nat
  BY DEF TypeOK, Actives
<1>2. req \in Requests
  <2>1. [by |-> "client", id |-> id] \in Transactions
    BY <1>1 DEF Transactions
  <2> HIDE DEF id
  <2> QED BY <2>1, EditsAreDocuments DEF Requests
<1>3. \A c \in Calls :
        [cs[c] EXCEPT !.at = "sent", !.on = NoCall, !.sent = req] \in CallType
  <2> HIDE DEF req
  <2> QED BY <1>2 DEF CallType
<1>4. call' = [c \in Calls |->
                 IF c \in S
                 THEN [cs[c] EXCEPT !.at = "sent", !.on = NoCall, !.sent = req]
                 ELSE cs[c]]
  BY DEF Start, Sending
<1>5. call' \in [Calls -> CallType]
  <2> HIDE DEF req
  <2> QED BY <1>3, <1>4
<1>6. inFlight' \in Calls
  BY DEF Start
<1>7. active' \in Actives /\ attempts' \in 0..MaxRetries /\ drawn' \in Nat
  BY DEF Start, TypeOK, Actives
<1> QED BY <1>5, <1>6, <1>7 DEF Start, States

(* So does calling runSave by a timer or a flush.                           *)
LEMMA RunSaveTypes ==
  ASSUME TypeOK, NEW flush \in BOOLEAN, RunSave(flush)
  PROVE  /\ call' \in [Calls -> CallType]
         /\ inFlight' \in Calls \cup {NoCall}
         /\ state' \in States
         /\ active' \in Actives
         /\ attempts' \in 0..MaxRetries
         /\ drawn' \in Nat
<1> DEFINE c == CHOOSE f \in Free : TRUE
           cs == [call EXCEPT ![c] = [Idle EXCEPT !.flush = flush]]
<1>1. c \in Calls
  BY DEF RunSave, Free
<1>2. [Idle EXCEPT !.flush = flush] \in CallType
  BY NothingTypes DEF CallType
<1>3. call \in [Calls -> CallType]
  BY DEF TypeOK, CallType
<1>4. cs \in [Calls -> CallType]
  <2> HIDE DEF c
  <2> QED BY <1>2, <1>3
<1>5. CASE inFlight # NoCall
  <2>1. call' = [cs EXCEPT ![c].at = "waits", ![c].on = inFlight]
    BY <1>5 DEF RunSave
  <2> HIDE DEF c, cs
  <2>2. [cs[c] EXCEPT !.at = "waits", !.on = inFlight] \in CallType
    <3>1. cs[c] \in CallType /\ inFlight \in Calls \cup {NoCall}
      BY <1>1, <1>4 DEF TypeOK
    <3> QED BY <3>1 DEF CallType
  <2>3. call' \in [Calls -> CallType]
    BY <1>4, <2>1, <2>2
  <2>4. UNCHANGED <<state, inFlight, active, attempts, drawn>>
    BY <1>5 DEF RunSave
  <2> QED BY <2>3, <2>4 DEF TypeOK, Actives
<1>6. CASE inFlight = NoCall /\ pending
  <2>1. Start({c}, cs, active, base, attempts)
    BY <1>6 DEF RunSave
  <2> HIDE DEF c, cs
  <2>2. active \in Actives /\ base \in Nat /\ attempts \in 0..MaxRetries
    BY DEF TypeOK, Actives
  <2> QED BY <1>1, <1>4, <2>1, <2>2, StartTypes
<1>7. CASE inFlight = NoCall /\ ~pending
  BY <1>3, <1>7 DEF RunSave, TypeOK, Actives
<1> QED BY <1>5, <1>6, <1>7

(* And the end of a save, whether it ends the calls or lets them go on.     *)
LEMMA ResumeTypes ==
  ASSUME TypeOK, NEW c \in Calls, NEW st \in States, NEW pend \in BOOLEAN,
         NEW act \in Actives, NEW tries \in 0..MaxRetries, NEW b \in Nat,
         Resume(c, st, pend, act, tries, b)
  PROVE  /\ call' \in [Calls -> CallType]
         /\ inFlight' \in Calls \cup {NoCall}
         /\ state' \in States
         /\ active' \in Actives
         /\ attempts' \in 0..MaxRetries
         /\ drawn' \in Nat
<1> DEFINE on == GoOn(c, st, pend)
           cs == [d \in Calls |-> IF d \in (Waiting(c) \cup {c}) \ on THEN Idle ELSE call[d]]
<1>1. on \in SUBSET Calls
  BY DEF GoOn, Waiting
<1>2. cs \in [Calls -> CallType]
  BY NothingTypes DEF TypeOK, CallType
<1>3. CASE on = {}
  <2>1. /\ call' = cs /\ inFlight' = NoCall /\ state' = st
        /\ active' = act /\ attempts' = tries /\ UNCHANGED drawn
    BY <1>3 DEF Resume
  <2> HIDE DEF cs
  <2> QED BY <1>2, <2>1 DEF TypeOK
<1>4. CASE on # {}
  <2>1. Start(on, cs, act, b, tries)
    BY <1>4 DEF Resume
  <2> HIDE DEF on, cs
  <2> QED BY <1>1, <1>2, <1>4, <2>1, StartTypes
<1> QED BY <1>3, <1>4

(* Answering a request keeps the server well formed, and the answer is a    *)
(* revision number or a refusal.                                            *)
LEMMA HandleTypes ==
  ASSUME ServiceTypeOK, NEW r \in Requests, Handle(r), UNCHANGED outside
  PROVE  ServiceTypeOK'
<1>1. [tx |-> r.tx, doc |-> r.doc, snap |-> r.snap] \in Revisions
  BY DEF Requests, Revisions
<1>2. revs' \in Seq(Revisions)
  BY <1>1 DEF Handle, RevsAfter, ServiceTypeOK
<1> QED BY <1>2 DEF Handle, ServiceTypeOK

LEMMA AnswerTypes ==
  ASSUME ServiceTypeOK, NEW r \in Requests
  PROVE  AnswerTo(r) \in Nat
<1>1. CASE Commits(r)
  <2>1. AnswerTo(r) = Len(revs) + 1
    BY <1>1 DEF AnswerTo, Commits, Replays
  <2>2. Len(revs) \in Nat
    BY DEF ServiceTypeOK
  <2> QED BY <2>1, <2>2
<1>2. CASE ~Commits(r) /\ Replays(r)
  <2>1. Earlier(r) # {} /\ Earlier(r) \subseteq Nat
    BY <1>2 DEF Replays, Earlier, ServiceTypeOK
  <2>2. AnswerTo(r) = CHOOSE i \in Earlier(r) : TRUE
    BY <1>2 DEF AnswerTo
  <2> QED BY <2>1, <2>2
<1>3. CASE ~Commits(r) /\ ~Replays(r)
  BY <1>3 DEF AnswerTo, Refused
<1> QED BY <1>1, <1>2, <1>3

(* Snapshots, crashes and sweeps keep the server well formed.               *)
LEMMA ServiceNextTypes ==
  ASSUME ServiceTypeOK, ServiceNext
  PROVE  ServiceTypeOK'
<1> USE DEF ServiceTypeOK
<1>1. HeadDoc \in Documents
  <2>1. revs # <<>> => Len(revs) \in DOMAIN revs
    BY DEF Revisions
  <2>2. revs # <<>> => revs[Len(revs)] \in Revisions
    BY <2>1
  <2> QED BY <2>2 DEF HeadDoc, Revisions
<1>2. StorageKeys \subseteq Documents
  BY DEF StorageKeys
<1>3. CASE PutSnapshotFile
  BY <1>1, <1>3 DEF PutSnapshotFile, FromOutside
<1>4. CASE InsertSnapshotRow
  <2>1. metas' \in Seq(Documents)
    BY <1>4 DEF InsertSnapshotRow
  <2> QED BY <1>4, <2>1 DEF InsertSnapshotRow
<1>5. CASE Restart
  BY <1>5 DEF Restart, Kept
<1>6. CASE BootLists
  BY <1>2, <1>6 DEF BootLists, FromOutside
<1>7. CASE BootSweeps
  BY <1>7 DEF BootSweeps, Kept
<1> QED BY <1>3, <1>4, <1>5, <1>6, <1>7 DEF ServiceNext

(* The variables of the client.                                             *)
ClientTypeOK ==
  /\ state \in States /\ disposed \in BOOLEAN
  /\ generation \in 0..MaxEdits /\ pending \in BOOLEAN
  /\ debounce \in BOOLEAN /\ retry \in BOOLEAN
  /\ inFlight \in Calls \cup {NoCall}
  /\ call \in [Calls -> CallType]
  /\ active \in Actives
  /\ attempts \in 0..MaxRetries /\ base \in Nat /\ drawn \in Nat

LEMMA TypeParts ==
  /\ TypeOK <=> ServiceTypeOK /\ ClientTypeOK /\ wire \subseteq Requests
  /\ TypeOK' <=> ServiceTypeOK' /\ ClientTypeOK' /\ wire' \subseteq Requests
BY DEF TypeOK, ClientTypeOK, CallType, Actives

(* Ends of a save nobody is interested in.                                  *)
LEMMA IgnoredTypes ==
  ASSUME ClientTypeOK, NEW c \in Calls, Ignored(c), UNCHANGED <<disposed, generation>>
  PROVE  ClientTypeOK'
<1>1. call' \in [Calls -> CallType]
  BY NothingTypes DEF Ignored, ClientTypeOK
<1> QED BY <1>1 DEF Ignored, ClientTypeOK

(* The end of a save that resolved, was refused or failed.                  *)
LEMMA SavedTypes ==
  ASSUME TypeOK, NEW c \in Calls, Saved(c), UNCHANGED <<disposed, generation>>
  PROVE  ClientTypeOK'
<1> DEFINE st == IF Newer(c) THEN "dirty" ELSE "clean"
<1>1. Newer(c) \in BOOLEAN
  BY DEF Newer, TypeOK
<1>2. call[c].answer \in Nat
  BY DEF TypeOK
<1>3. Resume(c, st, Newer(c), NoActive, 0, call[c].answer)
  BY DEF Saved
<1>4. st \in States
  BY DEF States
<1>5. 0 \in 0..MaxRetries
  OBVIOUS
<1>6. /\ call' \in [Calls -> CallType] /\ inFlight' \in Calls \cup {NoCall}
      /\ state' \in States /\ active' \in Actives
      /\ attempts' \in 0..MaxRetries /\ drawn' \in Nat
  <2> HIDE DEF st
  <2> QED BY <1>1, <1>2, <1>3, <1>4, <1>5, NothingTypes, ResumeTypes
<1>7. base' \in Nat
  BY <1>2 DEF Saved
<1>8. pending' \in BOOLEAN /\ debounce' \in BOOLEAN /\ retry' \in BOOLEAN
  BY <1>1, Zenon DEF Saved, TypeOK
<1> QED BY <1>6, <1>7, <1>8 DEF ClientTypeOK, TypeOK

LEMMA ConflictsTypes ==
  ASSUME TypeOK, NEW c \in Calls, Conflicts(c), UNCHANGED <<disposed, generation>>
  PROVE  ClientTypeOK'
<1>1. Resume(c, "conflict", pending, active, attempts, base)
  BY DEF Conflicts
<1>2. /\ "conflict" \in States /\ pending \in BOOLEAN /\ active \in Actives
      /\ attempts \in 0..MaxRetries /\ base \in Nat
  BY DEF States, TypeOK, Actives
<1>3. /\ call' \in [Calls -> CallType] /\ inFlight' \in Calls \cup {NoCall}
      /\ state' \in States /\ active' \in Actives
      /\ attempts' \in 0..MaxRetries /\ drawn' \in Nat
  BY <1>1, <1>2, ResumeTypes
<1> QED BY <1>3 DEF Conflicts, ClientTypeOK, TypeOK

LEMMA FailsTypes ==
  ASSUME TypeOK, NEW c \in Calls, Fails(c), UNCHANGED <<disposed, generation>>
  PROVE  ClientTypeOK'
<1> DEFINE tries == IF RetriesLeft THEN attempts + 1 ELSE attempts
<1>1. Resume(c, "error", pending, active, tries, base)
  BY DEF Fails
<1>2. /\ "error" \in States /\ pending \in BOOLEAN /\ active \in Actives
      /\ base \in Nat
  BY DEF States, TypeOK, Actives
<1>3. tries \in 0..MaxRetries
  BY DEF RetriesLeft, TypeOK
<1>4. /\ call' \in [Calls -> CallType] /\ inFlight' \in Calls \cup {NoCall}
      /\ state' \in States /\ active' \in Actives
      /\ attempts' \in 0..MaxRetries /\ drawn' \in Nat
  <2> HIDE DEF tries
  <2> QED BY <1>1, <1>2, <1>3, ResumeTypes
<1>5. retry' \in BOOLEAN
  BY Zenon DEF Fails
<1> QED BY <1>4, <1>5 DEF Fails, ClientTypeOK, TypeOK

(* Every step keeps the types.                                              *)
LEMMA TypeStep == TypeOK /\ [Next]_vars => TypeOK'
<1> SUFFICES ASSUME TypeOK, [Next]_vars PROVE TypeOK'
  OBVIOUS
<1>0. ServiceTypeOK /\ ClientTypeOK /\ wire \subseteq Requests
  BY TypeParts
<1>1. CASE NotifyLocalEdit
  BY <1>0, <1>1, TypeParts DEF NotifyLocalEdit, ClientTypeOK, States, ServiceTypeOK, serviceVars
<1>2. ASSUME NEW flush \in BOOLEAN, RunSave(flush), debounce' \in BOOLEAN, retry' \in BOOLEAN,
             UNCHANGED <<disposed, generation, pending, base, wire, serviceVars>>
      PROVE  TypeOK'
  <2>1. /\ call' \in [Calls -> CallType] /\ inFlight' \in Calls \cup {NoCall}
        /\ state' \in States /\ active' \in Actives
        /\ attempts' \in 0..MaxRetries /\ drawn' \in Nat
    BY <1>2, RunSaveTypes
  <2>2. ClientTypeOK'
    BY <1>0, <1>2, <2>1 DEF ClientTypeOK
  <2> QED BY <1>0, <1>2, <2>2, TypeParts DEF ServiceTypeOK, serviceVars
<1>3. CASE Flush
  BY <1>0, <1>2, <1>3, Zenon DEF Flush, ClientTypeOK
<1>4. CASE DebounceFires
  BY <1>0, <1>2, <1>4, Zenon DEF DebounceFires, ClientTypeOK
<1>5. CASE RetryFires
  BY <1>0, <1>2, <1>5, Zenon DEF RetryFires, ClientTypeOK
<1>6. CASE Dispose
  BY <1>0, <1>6, NothingTypes, TypeParts DEF Dispose, ClientTypeOK, ServiceTypeOK, serviceVars
<1>7. ASSUME NEW c \in Calls, Serve(c) PROVE TypeOK'
  <2>1. call[c] \in CallType /\ call[c].sent \in Requests
    BY <1>0 DEF ClientTypeOK, CallType
  <2>2. ServiceTypeOK'
    BY <1>0, <1>7, <2>1, HandleTypes DEF Serve
  <2>3. AnswerTo(call[c].sent) \in Nat
    BY <1>0, <2>1, AnswerTypes
  <2>4. call' = [call EXCEPT ![c].at = "answered", ![c].answer = AnswerTo(call[c].sent)]
    BY <1>7 DEF Serve
  <2>5. call' \in [Calls -> CallType]
    BY <1>0, <2>1, <2>3, <2>4 DEF ClientTypeOK, CallType
  <2> QED BY <1>0, <1>7, <2>2, <2>5, TypeParts DEF Serve, ClientTypeOK
<1>8. ASSUME NEW c \in Calls, Complete(c) PROVE TypeOK'
  <2>1. UNCHANGED <<disposed, generation, wire, serviceVars>>
    BY <1>8 DEF Complete
  <2>2. ClientTypeOK'
    BY <1>0, <1>8, <2>1, IgnoredTypes, SavedTypes, ConflictsTypes DEF Complete
  <2> QED BY <1>0, <2>1, <2>2, TypeParts DEF ServiceTypeOK, serviceVars
<1>9. ASSUME NEW c \in Calls, NetworkFails(c) PROVE TypeOK'
  <2>1. UNCHANGED <<disposed, generation>>
    BY <1>9 DEF NetworkFails
  <2>2. ClientTypeOK'
    BY <1>0, <1>9, <2>1, IgnoredTypes, FailsTypes DEF NetworkFails
  <2>3. ServiceTypeOK'
    BY <1>0, <1>9 DEF NetworkFails, FromOutside, ServiceTypeOK
  <2>4. wire' \subseteq Requests
    BY <1>0, <1>9 DEF NetworkFails, ClientTypeOK, CallType
  <2> QED BY <2>2, <2>3, <2>4, TypeParts
<1>10. ASSUME NEW r \in wire, ServeLate(r) PROVE TypeOK'
  <2>1. ServiceTypeOK'
    BY <1>0, <1>10, HandleTypes DEF ServeLate
  <2> QED BY <1>0, <1>10, <2>1, TypeParts DEF ServeLate, ClientTypeOK, clientVars
<1>11. CASE OtherAsks
  <2>1. ServiceTypeOK' /\ outside \in Nat
    BY <1>0, <1>11 DEF OtherAsks, FromOutside, ServiceTypeOK
  <2>2. ClientTypeOK'
    BY <1>0, <1>11 DEF OtherAsks, ClientTypeOK, clientVars
  <2>3. PICK s \in 0..Len(metas) :
          wire' = wire \cup {[tx |-> [by |-> "other", id |-> outside + 1],
                              base |-> Len(revs), snap |-> s,
                              doc |-> IF s = 0 THEN 0 ELSE metas[s]]}
    BY <1>11 DEF OtherAsks
  <2>4. (IF s = 0 THEN 0 ELSE metas[s]) \in Documents
    BY <1>0 DEF ServiceTypeOK
  <2>5. [by |-> "other", id |-> outside + 1] \in Transactions
    BY <2>1 DEF Transactions
  <2>6. Len(revs) \in Nat /\ s \in Nat
    BY <1>0 DEF ServiceTypeOK
  <2>7. wire' \subseteq Requests
    BY <1>0, <2>3, <2>4, <2>5, <2>6 DEF Requests
  <2> QED BY <2>1, <2>2, <2>7, TypeParts
<1>12. CASE ServiceStep
  BY <1>0, <1>12, ServiceNextTypes, TypeParts DEF ServiceStep, ClientTypeOK, clientVars
<1>13. CASE UNCHANGED vars
  BY <1>0, <1>13, TypeParts DEF vars, ClientTypeOK, clientVars, ServiceTypeOK, serviceVars
<1> QED BY <1>1, <1>3, <1>4, <1>5, <1>6, <1>7, <1>8, <1>9, <1>10, <1>11, <1>12, <1>13 DEF Next

(* Every variable of client, network and server keeps its type.             *)
THEOREM AutosaveTypeCorrect == Spec => []TypeOK
<1>1. Init => TypeOK
  <2>1. Init => ServiceTypeOK
    BY DEF Init, ServiceInit, ServiceTypeOK
  <2>2. Init => ClientTypeOK
    <3> SUFFICES ASSUME Init PROVE ClientTypeOK
      OBVIOUS
    <3>1. /\ disposed \in BOOLEAN /\ pending \in BOOLEAN
          /\ debounce \in BOOLEAN /\ retry \in BOOLEAN
      BY Zenon DEF Init
    <3>2. call \in [Calls -> CallType] /\ active \in Actives
      BY NothingTypes DEF Init
    <3>3. /\ generation \in 0..MaxEdits /\ attempts \in 0..MaxRetries
          /\ base \in Nat /\ drawn \in Nat
      BY DEF Init
    <3> QED BY <3>1, <3>2, <3>3 DEF Init, ClientTypeOK, States
  <2> QED BY <2>1, <2>2, TypeParts DEF Init
<1> QED BY <1>1, TypeStep, PTL DEF Spec

-----------------------------------------------------------------------------
(* The invariant.                                                           *)

(* While one server runs at a time, nothing is being swept and every file   *)
(* that a row names or is about to name is there.                           *)
FilesInv ==
    boots = 0 => sweeping = {} /\ snapping \subseteq blobs /\ StorageKeys \subseteq blobs

(* The requests there are, and what an id is known to stand for.            *)
Asked == wire \cup {call[c].sent : c \in Calls}

(* Those the server may still be asked.                                     *)
OnTheirWay == wire \cup {call[c].sent : c \in {d \in Calls : call[d].at = "sent"}}

(* Ids are drawn in order by the client and by the others; the active one   *)
(* stands for the document it was drawn for.                                *)
Drawn(k) ==
    /\ k.tx.by = "client" =>
          k.tx.id <= drawn /\ (k.tx.id # 0 /\ k.tx.id = active.id => k.doc = active.gen)
    /\ k.tx.by = "other" => k.tx.id <= outside

IdsInv ==
    /\ active.id <= drawn
    /\ \A k \in Known : Drawn(k)
    /\ IdsNameOneDocument

(* The client builds on a revision it wrote itself, or on the empty one,    *)
(* and doc is an edit newer than that.                                      *)
BuildsOnOwn(b, doc) ==
    b # 0 => /\ b \in DOMAIN revs
             /\ revs[b].tx.by = "client"
             /\ revs[b].doc < doc

(* What a client's request says.                                            *)
Sound(r) ==
    r.tx.by = "client" /\ r.tx.id # 0 =>
        r.doc \in 1..generation /\ r.snap = 0 /\ BuildsOnOwn(r.base, r.doc)

OwnEditsRise ==
    \A i, j \in DOMAIN revs :
        i < j /\ revs[i].tx.by = "client" /\ revs[j].tx.by = "client"
            => revs[i].doc < revs[j].doc

(* What the client takes from its own variables when it sends.              *)
BaseInv ==
    /\ BuildsOnOwn(base, generation + 1)
    /\ pending => generation > 0 /\ BuildsOnOwn(base, generation)

HistoryInv ==
    /\ OwnEditsRise
    /\ BaseInv
    /\ \A r \in Asked : Sound(r)

(* What was sent carries an id; an answer names the revision that holds     *)
(* what was sent.                                                           *)
AnswerHolds(c) ==
    /\ call[c].answer \in DOMAIN revs
    /\ revs[call[c].answer].tx.by = "client"
    /\ revs[call[c].answer].doc = call[c].sent.doc

CallsInv ==
    /\ \A r \in wire : r.tx.id # 0
    /\ \A c \in Calls :
          /\ call[c].sent.tx.by = "client"
          /\ call[c].at \in {"sent", "answered"} => call[c].sent.tx.id # 0
          /\ call[c].at = "answered" /\ call[c].answer # Refused => AnswerHolds(c)

(* Nothing pending means that the last edit is a revision, and a client     *)
(* that shows "clean" has nothing pending.                                  *)
OnServer(doc) == \E i \in DOMAIN revs : revs[i].tx.by = "client" /\ revs[i].doc = doc

SavedInv ==
    ~disposed =>
        /\ ~pending /\ generation > 0 => OnServer(generation)
        /\ state = "clean" => ~pending

AutosaveInv == FilesInv /\ IdsInv /\ HistoryInv /\ CallsInv /\ SavedInv

-----------------------------------------------------------------------------
(* Snapshots.                                                               *)

(* Only snapshots, crashes and sweeps touch the files.                      *)
LEMMA FilesLeftAlone ==
  ASSUME [Next]_vars, ~ServiceStep
  PROVE  UNCHANGED <<metas, blobs, snapping, sweeping, boots>>
<1> USE DEF serviceVars
<1>1. ASSUME NEW c \in Calls, Serve(c) \/ Complete(c) \/ NetworkFails(c)
      PROVE  UNCHANGED <<metas, blobs, snapping, sweeping, boots>>
  BY <1>1 DEF Serve, Handle, Complete, NetworkFails
<1>2. ASSUME NEW r \in wire, ServeLate(r)
      PROVE  UNCHANGED <<metas, blobs, snapping, sweeping, boots>>
  BY <1>2 DEF ServeLate, Handle
<1>3. CASE NotifyLocalEdit \/ Flush \/ DebounceFires \/ RetryFires \/ Dispose
  BY <1>3 DEF NotifyLocalEdit, Flush, DebounceFires, RetryFires, Dispose
<1>4. CASE OtherAsks \/ UNCHANGED vars
  BY <1>4 DEF OtherAsks, vars
<1> QED BY <1>1, <1>2, <1>3, <1>4 DEF Next

(* A file is put before its row, a booting server keeps what rows name, and *)
(* nobody else boots meanwhile.                                             *)
LEMMA FilesStep == TypeOK /\ FilesInv /\ [Next]_vars => FilesInv'
<1> SUFFICES ASSUME TypeOK, FilesInv, [Next]_vars PROVE FilesInv'
  OBVIOUS
<1> USE DEF FilesInv
<1>1. CASE ~ServiceStep
  BY <1>1, FilesLeftAlone DEF StorageKeys
<1>2. CASE PutSnapshotFile
  BY <1>2 DEF PutSnapshotFile, StorageKeys
<1>3. CASE InsertSnapshotRow
  <2>1. PICK d \in snapping : metas' = Append(metas, d)
    BY <1>3 DEF InsertSnapshotRow
  <2>2. metas \in Seq(Documents)
    BY DEF TypeOK, ServiceTypeOK
  <2>3. StorageKeys' \subseteq StorageKeys \cup {d}
    BY <2>1, <2>2 DEF StorageKeys
  <2> QED BY <1>3, <2>3 DEF InsertSnapshotRow
<1>4. CASE Restart
  BY <1>4 DEF Restart, Kept, StorageKeys
<1>5. CASE BootLists
  <2>1. boots' # 0
    BY <1>5 DEF BootLists, TypeOK, ServiceTypeOK
  <2> QED BY <2>1
<1>6. CASE BootSweeps
  BY <1>6 DEF BootSweeps
<1> QED BY <1>1, <1>2, <1>3, <1>4, <1>5, <1>6 DEF ServiceStep, ServiceNext

(* While one server runs at a time, every snapshot that is listed can be    *)
(* restored, whatever the server was doing when it died (createSnapshot's   *)
(* order of file and row, gcOrphans at boot).                               *)
THEOREM SnapshotsStay == Spec => []SnapshotsRestorable
<1>1. Init => FilesInv
  BY DEF Init, ServiceInit, FilesInv, StorageKeys
<1>2. FilesInv => SnapshotsRestorable
  BY DEF FilesInv, SnapshotsRestorable
<1> QED BY <1>1, <1>2, AutosaveTypeCorrect, FilesStep, PTL DEF Spec

-----------------------------------------------------------------------------
(* What a revision is.                                                      *)
LEMMA RevTypes ==
  ASSUME TypeOK
  PROVE  /\ \A i \in DOMAIN revs : /\ revs[i] \in Revisions
                                  /\ revs[i].tx \in Transactions
                                  /\ revs[i].doc \in Documents /\ revs[i].doc \in Nat
         /\ DOMAIN revs = 1..Len(revs) /\ Len(revs) \in Nat
<1>1. revs \in Seq(Revisions)
  BY DEF TypeOK, ServiceTypeOK
<1>2. \A i \in DOMAIN revs : revs[i] \in Revisions
  BY <1>1
<1>3. DOMAIN revs = 1..Len(revs) /\ Len(revs) \in Nat
  BY <1>1
<1>4. ASSUME NEW r \in Revisions
      PROVE  r.tx \in Transactions /\ r.doc \in Documents /\ r.doc \in Nat
  BY DEF Revisions
<1> QED BY <1>2, <1>3, <1>4

(* A turn of the client: what it asked before stays, is forgotten or        *)
(* overwritten; what it sends, it sends for the last edit, on its base and  *)
(* under the active id, and only while something is pending.                *)
Quiet(c) == call'[c].at \in {"idle", "waits"} /\ call'[c].sent = Nothing

SendsLast(c) ==
    /\ call'[c].at = "sent"
    /\ call'[c].sent = [tx |-> [by |-> "client", id |-> active'.id],
                        base |-> base', doc |-> generation', snap |-> 0]
    /\ active'.id # 0 /\ active'.gen = generation' /\ pending'

KeepsActive ==
    \/ active' \in {active, NoActive} /\ drawn' = drawn
    \/ active'.id = drawn + 1 /\ drawn' = drawn + 1

ClientTurn ==
    /\ revs' = revs /\ generation' >= generation /\ outside' >= outside
    /\ wire' \subseteq OnTheirWay
    /\ KeepsActive
    /\ \A c \in Calls : Quiet(c) \/ call'[c] = call[c] \/ SendsLast(c)

(* Starting a save is such a turn, for the calls it starts.                 *)
LEMMA StartSends ==
  ASSUME TypeOK, NEW S \in SUBSET Calls, NEW cs \in [Calls -> CallType],
         NEW act \in {active, NoActive}, NEW b, NEW tries,
         Start(S, cs, act, b, tries), base' = b, generation' = generation, pending'
  PROVE  /\ KeepsActive
         /\ \A c \in S : SendsLast(c)
         /\ \A c \in Calls \ S : call'[c] = cs[c]
<1>1. act.id \in Nat /\ drawn \in Nat
  BY DEF TypeOK, NoActive
<1>2. /\ active'.id = IF NeedsId(act, generation) THEN drawn + 1 ELSE act.id
      /\ active'.id # 0 /\ active'.gen = generation
  BY <1>1 DEF Start, NeedsId
<1>3. KeepsActive
  BY <1>2 DEF Start, KeepsActive
<1> DEFINE req == [tx |-> [by |-> "client", id |-> active'.id], base |-> b,
                   doc |-> generation, snap |-> 0]
<1>4. call' = [c \in Calls |->
                 IF c \in S
                 THEN [cs[c] EXCEPT !.at = "sent", !.on = NoCall, !.sent = req]
                 ELSE cs[c]]
  BY <1>2 DEF Start, Sending
<1>5. \A c \in S : call'[c].at = "sent" /\ call'[c].sent = req
  <2> HIDE DEF req
  <2> QED BY <1>4 DEF CallType
<1>6. \A c \in Calls \ S : call'[c] = cs[c]
  <2> HIDE DEF req
  <2> QED BY <1>4
<1> QED BY <1>2, <1>3, <1>5, <1>6 DEF SendsLast

(* A call of runSave.                                                       *)
LEMMA RunSaveTurns ==
  ASSUME TypeOK, NEW flush \in BOOLEAN, RunSave(flush),
         UNCHANGED <<generation, pending, base, wire, serviceVars>>
  PROVE  ClientTurn
<1> DEFINE c == CHOOSE f \in Free : TRUE
           cs == [call EXCEPT ![c] = [Idle EXCEPT !.flush = flush]]
<1>1. c \in Calls
  BY DEF RunSave, Free
<1>2. call \in [Calls -> CallType]
  BY DEF TypeOK, CallType
<1>3. [Idle EXCEPT !.flush = flush] \in CallType
  BY NothingTypes DEF CallType
<1>4. /\ cs \in [Calls -> CallType]
      /\ cs[c].sent = Nothing
      /\ \A d \in Calls \ {c} : cs[d] = call[d]
  <2> HIDE DEF c
  <2> QED BY <1>1, <1>2, <1>3 DEF Idle
<1>5. /\ revs' = revs /\ generation' >= generation /\ outside' >= outside
      /\ wire' \subseteq OnTheirWay
  BY DEF serviceVars, TypeOK, ServiceTypeOK, OnTheirWay
<1>6. CASE inFlight # NoCall
  <2>1. /\ call' = [cs EXCEPT ![c].at = "waits", ![c].on = inFlight]
        /\ UNCHANGED <<active, drawn>>
    BY <1>6 DEF RunSave
  <2> HIDE DEF c, cs
  <2>2. Quiet(c) /\ \A d \in Calls \ {c} : call'[d] = call[d]
    BY <1>1, <1>4, <2>1 DEF Quiet, CallType
  <2> QED BY <1>5, <2>1, <2>2 DEF ClientTurn, KeepsActive
<1>7. CASE inFlight = NoCall /\ pending
  <2>1. Start({c}, cs, active, base, attempts)
    BY <1>7 DEF RunSave
  <2> HIDE DEF c, cs
  <2>2. KeepsActive /\ SendsLast(c) /\ \A d \in Calls \ {c} : call'[d] = cs[d]
    BY <1>1, <1>4, <1>7, <2>1, StartSends
  <2> QED BY <1>4, <1>5, <2>2 DEF ClientTurn
<1>8. CASE inFlight = NoCall /\ ~pending
  BY <1>5, <1>8 DEF RunSave, ClientTurn, KeepsActive
<1> QED BY <1>6, <1>7, <1>8

(* The end of a save.                                                       *)
LEMMA ResumeTurns ==
  ASSUME TypeOK, NEW c \in Calls, NEW st, NEW pend \in BOOLEAN,
         NEW act \in {active, NoActive}, NEW tries, NEW b,
         Resume(c, st, pend, act, tries, b), base' = b, pending' = pend,
         UNCHANGED <<revs, generation>>, outside' >= outside, wire' \subseteq OnTheirWay
  PROVE  ClientTurn
<1> DEFINE on == GoOn(c, st, pend)
           cs == [d \in Calls |-> IF d \in (Waiting(c) \cup {c}) \ on THEN Idle ELSE call[d]]
<1>1. on \in SUBSET Calls /\ (on # {} => pend)
  BY DEF GoOn, Waiting
<1>2. cs \in [Calls -> CallType]
  BY NothingTypes DEF TypeOK, CallType
<1>3. \A d \in Calls : cs[d] = Idle \/ cs[d] = call[d]
  OBVIOUS
<1>4. \A d \in Calls : call'[d] = Idle => Quiet(d)
  BY DEF Idle, Quiet
<1>5. generation' >= generation
  BY DEF TypeOK
<1>6. CASE on = {}
  <2>1. call' = cs /\ active' = act /\ UNCHANGED drawn
    BY <1>6 DEF Resume
  <2> HIDE DEF cs
  <2> QED BY <1>3, <1>4, <1>5, <2>1 DEF ClientTurn, KeepsActive
<1>7. CASE on # {}
  <2>1. Start(on, cs, act, b, tries)
    BY <1>7 DEF Resume
  <2> HIDE DEF on, cs
  <2>2. /\ KeepsActive /\ \A d \in on : SendsLast(d)
        /\ \A d \in Calls \ on : call'[d] = cs[d]
    BY <1>1, <1>2, <1>7, <2>1, StartSends
  <2> QED BY <1>3, <1>4, <1>5, <2>2 DEF ClientTurn
<1> QED BY <1>6, <1>7

(* Whatever the client does, it is a turn of this kind, and its base is one *)
(* of its own revisions, older than what is pending.                        *)
LEMMA ClientTurns ==
  ASSUME TypeOK, CallsInv, HistoryInv, [Next]_vars,
         \A c \in Calls : ~Serve(c), \A r \in wire : ~ServeLate(r), ~OtherAsks
  PROVE  ClientTurn /\ BaseInv'
<1> USE DEF HistoryInv
<1>1. /\ revs \in Seq(Revisions) /\ generation \in Nat /\ outside \in Nat
      /\ call \in [Calls -> CallType] /\ pending \in BOOLEAN
  BY DEF TypeOK, ServiceTypeOK, CallType
<1>2. ASSUME UNCHANGED <<revs, generation, base>>, pending' => pending
      PROVE  BaseInv'
  BY <1>2 DEF BaseInv, BuildsOnOwn
<1>3. CASE NotifyLocalEdit
  <2>1. ClientTurn
    BY <1>1, <1>3 DEF NotifyLocalEdit, serviceVars, ClientTurn, KeepsActive, OnTheirWay
  <2>2. BaseInv'
    <3>1. /\ UNCHANGED <<revs, base>> /\ generation' = generation + 1
      BY <1>3 DEF NotifyLocalEdit, serviceVars
    <3>2. \A i \in DOMAIN revs : revs[i].doc \in Nat
      BY RevTypes
    <3>3. BuildsOnOwn(base, generation + 1)
      BY DEF BaseInv
    <3>4. BuildsOnOwn(base, generation)' \/ ~pending'
      BY <3>1, <3>3 DEF BuildsOnOwn
    <3>5. BuildsOnOwn(base, generation + 1)'
      BY <1>1, <3>1, <3>2, <3>3 DEF BuildsOnOwn
    <3>6. generation' > 0
      BY <1>1, <3>1
    <3> QED BY <3>4, <3>5, <3>6 DEF BaseInv
  <2> QED BY <2>1, <2>2
<1>4. CASE Flush \/ DebounceFires \/ RetryFires
  <2>1. PICK flush \in BOOLEAN : RunSave(flush)
    BY <1>4 DEF Flush, DebounceFires, RetryFires
  <2>2. UNCHANGED <<generation, pending, base, wire, serviceVars>>
    BY <1>4 DEF Flush, DebounceFires, RetryFires
  <2>3. ClientTurn
    BY <2>1, <2>2, RunSaveTurns
  <2> QED BY <1>2, <2>2, <2>3 DEF serviceVars
<1>5. CASE Dispose
  BY <1>1, <1>2, <1>5 DEF Dispose, serviceVars, ClientTurn, KeepsActive, OnTheirWay
<1>6. ASSUME NEW c \in Calls, Ignored(c), UNCHANGED <<revs, generation>>,
             outside' >= outside, wire' \subseteq OnTheirWay
      PROVE  ClientTurn /\ BaseInv'
  <2>1. \A d \in Calls : Quiet(d) \/ call'[d] = call[d]
    BY <1>6 DEF Ignored, Quiet, Idle
  <2> QED BY <1>1, <1>2, <1>6, <2>1 DEF Ignored, ClientTurn, KeepsActive
<1>7. ASSUME NEW c \in Calls, Complete(c) PROVE ClientTurn /\ BaseInv'
  <2>1. /\ UNCHANGED <<revs, generation>> /\ outside' >= outside
        /\ wire' \subseteq OnTheirWay
    BY <1>1, <1>7 DEF Complete, serviceVars, OnTheirWay
  <2>2. CASE disposed
    BY <1>6, <1>7, <2>1, <2>2 DEF Complete
  <2>3. CASE ~disposed /\ call[c].answer = Refused
    <3>1. Conflicts(c)
      BY <1>7, <2>3 DEF Complete
    <3> QED BY <1>1, <1>2, <2>1, <3>1, ResumeTurns DEF Conflicts
  <2>4. CASE ~disposed /\ call[c].answer # Refused
    <3>1. Saved(c)
      BY <1>7, <2>4 DEF Complete
    <3>2. Newer(c) \in BOOLEAN
      BY <1>1 DEF Newer
    <3>3. ClientTurn
      BY <2>1, <3>1, <3>2, ResumeTurns DEF Saved
    <3>4. /\ base' = call[c].answer /\ base' \in DOMAIN revs
          /\ revs[base'].tx.by = "client" /\ revs[base'].doc = call[c].sent.doc
      BY <1>7, <2>4, <3>1 DEF Saved, CallsInv, AnswerHolds, Complete
    <3>5. call[c].sent.doc \in 1..generation
      <4>1. call[c].sent \in Asked
        BY DEF Asked
      <4>2. call[c].sent.tx.by = "client" /\ call[c].sent.tx.id # 0
        BY <1>7 DEF CallsInv, Complete
      <4> QED BY <4>1, <4>2 DEF Sound
    <3>6. pending' => generation > call[c].sent.doc
      BY <3>1 DEF Saved, Newer
    <3>7. BaseInv'
      BY <1>1, <2>1, <3>4, <3>5, <3>6 DEF BaseInv, BuildsOnOwn
    <3> QED BY <3>3, <3>7
  <2> QED BY <2>2, <2>3, <2>4
<1>8. ASSUME NEW c \in Calls, NetworkFails(c) PROVE ClientTurn /\ BaseInv'
  <2>1. /\ UNCHANGED <<revs, generation>> /\ outside' >= outside
        /\ wire' \subseteq OnTheirWay
    BY <1>1, <1>8 DEF NetworkFails, FromOutside, OnTheirWay
  <2>2. CASE disposed
    BY <1>6, <1>8, <2>1, <2>2 DEF NetworkFails
  <2>3. CASE ~disposed
    <3>1. Fails(c)
      BY <1>8, <2>3 DEF NetworkFails
    <3> QED BY <1>1, <1>2, <2>1, <3>1, ResumeTurns DEF Fails
  <2> QED BY <2>2, <2>3
<1>9. CASE ServiceStep
  <2>1. /\ UNCHANGED <<revs, generation, base, pending, call, wire, active, drawn>>
        /\ outside' >= outside
    BY <1>1, <1>9 DEF ServiceStep, ServiceNext, PutSnapshotFile, InsertSnapshotRow, Restart,
       BootLists, BootSweeps, FromOutside, clientVars
  <2> QED BY <1>1, <1>2, <2>1 DEF ClientTurn, KeepsActive, OnTheirWay
<1>10. CASE UNCHANGED vars
  BY <1>1, <1>2, <1>10 DEF vars, clientVars, serviceVars, ClientTurn, KeepsActive, OnTheirWay
<1> QED BY <1>3, <1>4, <1>5, <1>7, <1>8, <1>9, <1>10 DEF Next

-----------------------------------------------------------------------------
(* Ids.                                                                     *)

(* What is known is what the revisions and the requests say.                *)
Pair(r) == [tx |-> r.tx, doc |-> r.doc]

LEMMA KnownPairs ==
  /\ Known = {Pair(revs[i]) : i \in DOMAIN revs} \cup {Pair(r) : r \in Asked}
  /\ Known' = {Pair(revs'[i]) : i \in DOMAIN revs'} \cup {Pair(r) : r \in Asked'}
BY DEF Known, Pair, Asked

LEMMA KnownTypes ==
  ASSUME TypeOK, NEW k \in Known
  PROVE  k.tx \in Transactions /\ k.doc \in Documents
<1>1. \A r \in Asked : r.tx \in Transactions /\ r.doc \in Documents
  BY DEF TypeOK, Asked, Requests
<1>2. \A i \in DOMAIN revs : revs[i].tx \in Transactions /\ revs[i].doc \in Documents
  BY RevTypes
<1> QED BY <1>1, <1>2, KnownPairs DEF Pair

(* A turn of the client adds no other pair than that of the active id and   *)
(* the last edit.                                                           *)
LEMMA TurnKnows ==
  ASSUME ClientTurn, NEW k \in Known', k \notin Known
  PROVE  \/ k = Pair(Nothing)
         \/ /\ k = [tx |-> [by |-> "client", id |-> active'.id], doc |-> generation']
            /\ active'.id # 0 /\ active'.gen = generation'
<1>1. PICK r \in Asked' : k = Pair(r)
  BY KnownPairs DEF ClientTurn
<1>2. r \notin Asked
  BY <1>1, KnownPairs
<1>3. PICK c \in Calls : r = call'[c].sent
  BY <1>2 DEF Asked, OnTheirWay, ClientTurn
<1>4. CASE Quiet(c)
  BY <1>1, <1>3, <1>4 DEF Quiet
<1>5. CASE SendsLast(c)
  BY <1>1, <1>3, <1>5 DEF SendsLast, Pair
<1> QED BY <1>2, <1>3, <1>4, <1>5 DEF ClientTurn, Asked

LEMMA TurnKeepsIds ==
  ASSUME TypeOK, TypeOK', IdsInv, ClientTurn
  PROVE  IdsInv'
<1>1. /\ drawn \in Nat /\ drawn' \in Nat /\ active.id \in Nat /\ active'.id \in Nat
      /\ outside \in Nat /\ outside' \in Nat
  BY DEF TypeOK, ServiceTypeOK
<1>2. active'.id <= drawn' /\ drawn <= drawn'
  BY <1>1 DEF ClientTurn, KeepsActive, NoActive, IdsInv
<1>3. ASSUME NEW k \in Known PROVE Drawn(k)'
  <2>1. Drawn(k) /\ k.tx.id \in Nat
    BY KnownTypes DEF IdsInv, Transactions
  <2>2. CASE active' = active
    BY <1>1, <1>2, <2>1, <2>2 DEF Drawn, ClientTurn
  <2>3. CASE active' = NoActive
    BY <1>1, <1>2, <2>1, <2>3 DEF Drawn, ClientTurn, NoActive
  <2>4. CASE active'.id = drawn + 1
    BY <1>1, <1>2, <2>1, <2>4 DEF Drawn, ClientTurn
  <2> QED BY <2>2, <2>3, <2>4 DEF ClientTurn, KeepsActive
<1>4. ASSUME NEW k \in Known', k \notin Known PROVE Drawn(k)'
  <2>1. CASE k = Pair(Nothing)
    BY <1>1, <2>1 DEF Drawn, Pair, Nothing
  <2>2. CASE k # Pair(Nothing)
    BY <1>1, <1>2, <1>4, <2>2, TurnKnows DEF Drawn
  <2> QED BY <2>1, <2>2
<1>5. IdsNameOneDocument'
  <2> SUFFICES ASSUME NEW k \in Known', NEW l \in Known', k.tx = l.tx, k.tx.id # 0
               PROVE  k.doc = l.doc
    BY DEF IdsNameOneDocument
  <2>1. CASE k \in Known /\ l \in Known
    BY <2>1 DEF IdsInv, IdsNameOneDocument
  <2>2. ASSUME NEW m \in Known', m \notin Known, m.tx.id # 0
        PROVE  m.tx = [by |-> "client", id |-> active'.id] /\ m.doc = active'.gen
    BY <2>2, TurnKnows DEF Pair, Nothing
  <2>3. CASE k \notin Known \/ l \notin Known
    <3>1. k.tx = [by |-> "client", id |-> active'.id]
      BY <2>2, <2>3
    <3>2. Drawn(k)' /\ Drawn(l)'
      BY <1>3, <1>4
    <3> QED BY <3>1, <3>2 DEF Drawn
  <2> QED BY <2>1, <2>3
<1> QED BY <1>2, <1>3, <1>4, <1>5 DEF IdsInv

-----------------------------------------------------------------------------
(* The history and the answers.                                             *)

(* A turn of the client leaves the revisions and asks for nothing but its   *)
(* last edit, on a base of its own.                                         *)
LEMMA TurnKeepsHistory ==
  ASSUME TypeOK, TypeOK', HistoryInv, ClientTurn, BaseInv'
  PROVE  HistoryInv'
<1>1. generation \in Nat /\ generation' \in Nat /\ generation <= generation'
  BY DEF TypeOK, ClientTurn
<1>2. OwnEditsRise'
  BY DEF HistoryInv, OwnEditsRise, ClientTurn
<1>3. ASSUME NEW r \in Asked' PROVE Sound(r)'
  <2>1. CASE r \in Asked
    BY <1>1, <2>1 DEF HistoryInv, Sound, BuildsOnOwn, ClientTurn
  <2>2. CASE r \notin Asked
    <3>1. PICK c \in Calls : r = call'[c].sent /\ call'[c] # call[c]
      BY <2>2 DEF Asked, OnTheirWay, ClientTurn
    <3>2. CASE Quiet(c)
      BY <3>1, <3>2 DEF Quiet, Nothing, Sound
    <3>3. CASE SendsLast(c)
      <4>1. generation' > 0 /\ BuildsOnOwn(base, generation)'
        BY <3>3 DEF BaseInv, SendsLast
      <4>2. r.doc = generation' /\ r.snap = 0 /\ r.base = base'
        BY <3>1, <3>3 DEF SendsLast
      <4> QED BY <1>1, <4>1, <4>2 DEF Sound, BuildsOnOwn
    <3> QED BY <3>1, <3>2, <3>3 DEF ClientTurn
  <2> QED BY <2>1, <2>2
<1> QED BY <1>2, <1>3 DEF HistoryInv

LEMMA TurnKeepsCalls ==
  ASSUME CallsInv, ClientTurn
  PROVE  CallsInv'
<1>1. \A r \in wire' : r.tx.id # 0
  BY DEF CallsInv, ClientTurn, OnTheirWay
<1>2. ASSUME NEW c \in Calls
      PROVE  /\ call'[c].sent.tx.by = "client"
             /\ call'[c].at \in {"sent", "answered"} => call'[c].sent.tx.id # 0
             /\ call'[c].at = "answered" /\ call'[c].answer # Refused => AnswerHolds(c)'
  <2>1. CASE Quiet(c)
    BY <2>1 DEF Quiet, Nothing
  <2>2. CASE call'[c] = call[c]
    BY <2>2 DEF CallsInv, ClientTurn, AnswerHolds
  <2>3. CASE SendsLast(c)
    BY <2>3 DEF SendsLast
  <2> QED BY <2>1, <2>2, <2>3 DEF ClientTurn
<1> QED BY <1>1, <1>2 DEF CallsInv

(* What answering a request writes: nothing, or the next revision.          *)
LEMMA HandleWrites ==
  ASSUME TypeOK, NEW r \in Requests, Handle(r)
  PROVE  \/ revs' = revs /\ ~Commits(r)
         \/ /\ Commits(r)
            /\ DOMAIN revs' = 1..(Len(revs) + 1)
            /\ \A i \in DOMAIN revs : revs'[i] = revs[i]
            /\ revs'[Len(revs) + 1] = [tx |-> r.tx, doc |-> r.doc, snap |-> r.snap]
<1>1. revs \in Seq(Revisions)
  BY DEF TypeOK, ServiceTypeOK
<1>2. [tx |-> r.tx, doc |-> r.doc, snap |-> r.snap] \in Revisions
  BY DEF Requests, Revisions
<1> QED BY <1>1, <1>2 DEF Handle, RevsAfter

(* A client's request that commits is newer than all the client wrote, and  *)
(* nothing of somebody else's comes right before it: the client's base is   *)
(* the head, and it is a revision of its own.                               *)
LEMMA CommitsAreNewest ==
  ASSUME TypeOK, HistoryInv, NEW r \in Asked, Commits(r),
         r.tx.by = "client", r.tx.id # 0
  PROVE  /\ r.doc \in 1..generation
         /\ \A i \in DOMAIN revs : revs[i].tx.by = "client" => revs[i].doc < r.doc
         /\ revs # <<>> => revs[Len(revs)].tx.by = "client"
<1>1. Sound(r)
  BY DEF HistoryInv
<1>2. r.doc \in 1..generation /\ BuildsOnOwn(Len(revs), r.doc)
  BY <1>1 DEF Sound, Commits
<1>3. CASE Len(revs) = 0
  <2>1. revs = <<>>
    BY <1>3 DEF TypeOK, ServiceTypeOK
  <2> QED BY <1>2, <2>1
<1>4. CASE Len(revs) # 0
  <2>1. revs[Len(revs)].tx.by = "client" /\ revs[Len(revs)].doc < r.doc
    BY <1>2, <1>4 DEF BuildsOnOwn
  <2>2. ASSUME NEW i \in DOMAIN revs, revs[i].tx.by = "client"
        PROVE  revs[i].doc < r.doc
    <3>1. i = Len(revs) \/ i < Len(revs)
      BY RevTypes
    <3>2. CASE i = Len(revs)
      BY <2>1, <3>2
    <3>3. CASE i < Len(revs)
      <4>1. Len(revs) \in DOMAIN revs
        BY <1>4, RevTypes
      <4>2. revs[i].doc < revs[Len(revs)].doc
        BY <2>1, <2>2, <3>3, <4>1 DEF HistoryInv, OwnEditsRise
      <4>3. /\ revs[i].doc \in Nat /\ revs[Len(revs)].doc \in Nat
            /\ r.doc \in Nat
        BY <1>2, <4>1, RevTypes DEF TypeOK
      <4> QED BY <2>1, <4>2, <4>3
    <3> QED BY <3>1, <3>2, <3>3
  <2> QED BY <1>2, <2>1, <2>2
<1> QED BY <1>3, <1>4, RevTypes

(* A step of the server that answers r, as the client sees it.              *)
Answers(r) ==
    /\ Handle(r)
    /\ UNCHANGED <<active, drawn, outside, generation, base, pending, state, disposed>>
    /\ wire' \subseteq wire
    /\ \A c \in Calls :
          \/ call'[c] = call[c]
          \/ /\ r = call[c].sent /\ call[c].at = "sent"
             /\ call'[c].sent = r /\ call'[c].answer = AnswerTo(r)

LEMMA ServingAnswers ==
  ASSUME TypeOK, [Next]_vars
  PROVE  /\ \A c \in Calls : Serve(c) => call[c].sent \in OnTheirWay /\ Answers(call[c].sent)
         /\ \A r \in wire : ServeLate(r) => r \in OnTheirWay /\ Answers(r)
<1>1. ASSUME NEW c \in Calls, Serve(c)
      PROVE  call[c].sent \in OnTheirWay /\ Answers(call[c].sent)
  <2>1. call \in [Calls -> CallType]
    BY DEF TypeOK, CallType
  <2>2. call' = [call EXCEPT ![c].at = "answered", ![c].answer = AnswerTo(call[c].sent)]
    BY <1>1 DEF Serve
  <2>3. /\ call'[c].sent = call[c].sent
        /\ call'[c].answer = AnswerTo(call[c].sent)
        /\ \A d \in Calls \ {c} : call'[d] = call[d]
    BY <2>1, <2>2 DEF CallType
  <2>4. call[c].at = "sent" /\ wire' = wire
    BY <1>1 DEF Serve
  <2> QED BY <1>1, <2>3, <2>4 DEF Serve, Answers, OnTheirWay
<1>2. ASSUME NEW r \in wire, ServeLate(r)
      PROVE  r \in OnTheirWay /\ Answers(r)
  BY <1>2 DEF ServeLate, Answers, OnTheirWay, clientVars
<1> QED BY <1>1, <1>2

(* Answering adds no id, writes the client's edits in their order, and      *)
(* answers with the revision that holds what was sent.                      *)
LEMMA AnswerKeeps ==
  ASSUME TypeOK, TypeOK', IdsInv, HistoryInv, CallsInv, SavedInv,
         NEW r \in OnTheirWay, Answers(r)
  PROVE  IdsInv' /\ HistoryInv' /\ CallsInv' /\ SavedInv'
<1>1. r \in Asked /\ r \in Requests /\ r.tx.id # 0
  BY DEF OnTheirWay, Asked, TypeOK, CallsInv
<1>2. Asked' \subseteq Asked
  BY DEF Answers, Asked
<1>3. \/ revs' = revs /\ ~Commits(r)
      \/ /\ Commits(r)
         /\ DOMAIN revs' = 1..(Len(revs) + 1)
         /\ \A i \in DOMAIN revs : revs'[i] = revs[i]
         /\ revs'[Len(revs) + 1] = [tx |-> r.tx, doc |-> r.doc, snap |-> r.snap]
  BY <1>1, HandleWrites DEF Answers
<1>4. /\ DOMAIN revs \subseteq DOMAIN revs'
      /\ \A i \in DOMAIN revs : revs'[i] = revs[i]
      /\ \A i \in DOMAIN revs' : i \notin DOMAIN revs =>
            i = Len(revs) + 1 /\ Commits(r) /\ revs'[i].tx = r.tx /\ revs'[i].doc = r.doc
  BY <1>3, RevTypes
<1>5. IdsInv'
  <2>1. Known' \subseteq Known
    BY <1>1, <1>2, <1>4, KnownPairs DEF Pair
  <2>2. UNCHANGED <<active, drawn, outside>>
    BY DEF Answers
  <2>3. \A k \in Known : Drawn(k) => Drawn(k)'
    BY <2>2 DEF Drawn
  <2> QED BY <2>1, <2>2, <2>3 DEF IdsInv, IdsNameOneDocument
<1>6. \A b, d : BuildsOnOwn(b, d) /\ b # 0 => /\ b \in DOMAIN revs'
                                           /\ revs'[b].tx.by = "client"
                                           /\ revs'[b].doc < d
  BY <1>4 DEF BuildsOnOwn
<1>7. HistoryInv'
  <2>1. UNCHANGED <<generation, base, pending>>
    BY DEF Answers
  <2>2. BaseInv'
    BY <1>6, <2>1 DEF HistoryInv, BaseInv, BuildsOnOwn
  <2>3. \A q \in Asked' : Sound(q)'
    BY <1>2, <1>6, <2>1 DEF HistoryInv, Sound, BuildsOnOwn
  <2>4. ASSUME NEW i \in DOMAIN revs', NEW j \in DOMAIN revs', i < j,
               revs'[i].tx.by = "client", revs'[j].tx.by = "client"
        PROVE  revs'[i].doc < revs'[j].doc
    <3>1. CASE j \in DOMAIN revs
      <4>1. i \in DOMAIN revs
        BY <1>4, <2>4, <3>1, RevTypes
      <4> QED BY <1>4, <2>4, <3>1, <4>1 DEF HistoryInv, OwnEditsRise
    <3>2. CASE j \notin DOMAIN revs
      <4>1. /\ Commits(r) /\ revs'[j].doc = r.doc /\ r.tx.by = "client"
            /\ j = Len(revs) + 1
        BY <1>4, <2>4, <3>2
      <4>2. i \in DOMAIN revs
        BY <1>4, <2>4, <4>1, RevTypes
      <4> QED BY <1>1, <1>4, <2>4, <4>1, <4>2, CommitsAreNewest
    <3> QED BY <3>1, <3>2
  <2> QED BY <2>2, <2>3, <2>4 DEF HistoryInv, OwnEditsRise
<1>8. CallsInv'
  <2>1. \A q \in wire' : q.tx.id # 0
    BY DEF Answers, CallsInv
  <2>2. ASSUME NEW c \in Calls
        PROVE  /\ call'[c].sent.tx.by = "client"
               /\ call'[c].at \in {"sent", "answered"} => call'[c].sent.tx.id # 0
               /\ call'[c].at = "answered" /\ call'[c].answer # Refused => AnswerHolds(c)'
    <3>1. CASE call'[c] = call[c]
      BY <1>4, <3>1 DEF CallsInv, AnswerHolds
    <3>2. CASE call'[c] # call[c]
      <4>1. /\ r = call[c].sent /\ call'[c].sent = r
            /\ call'[c].answer = AnswerTo(r)
        BY <3>2 DEF Answers
      <4>2. r.tx.by = "client"
        BY <4>1 DEF CallsInv
      <4>3. CASE Commits(r)
        <5>1. AnswerTo(r) = Len(revs) + 1
          BY <4>3 DEF AnswerTo, Commits, Replays
        <5>2. Len(revs) + 1 \in 1..(Len(revs) + 1)
          BY RevTypes
        <5>3. AnswerTo(r) \in DOMAIN revs' /\ revs'[AnswerTo(r)].tx = r.tx
              /\ revs'[AnswerTo(r)].doc = r.doc
          BY <1>3, <4>3, <5>1, <5>2
        <5> QED BY <1>1, <4>1, <4>2, <5>3 DEF AnswerHolds
      <4>4. CASE ~Commits(r) /\ Replays(r)
        <5>1. AnswerTo(r) \in Earlier(r)
          BY <4>4 DEF AnswerTo, Replays
        <5>2. AnswerTo(r) \in DOMAIN revs /\ revs[AnswerTo(r)].tx = r.tx
          BY <5>1 DEF Earlier
        <5>3. Pair(r) \in Known /\ Pair(revs[AnswerTo(r)]) \in Known
          BY <1>1, <5>2, KnownPairs
        <5>4. revs[AnswerTo(r)].doc = r.doc
          BY <1>1, <5>2, <5>3 DEF IdsInv, IdsNameOneDocument, Pair
        <5> QED BY <1>1, <1>4, <4>1, <4>2, <5>2, <5>4 DEF AnswerHolds
      <4>5. CASE ~Commits(r) /\ ~Replays(r)
        BY <1>1, <4>1, <4>2, <4>5 DEF AnswerTo
      <4> QED BY <4>3, <4>4, <4>5
    <3> QED BY <3>1, <3>2
  <2> QED BY <2>1, <2>2 DEF CallsInv
<1>9. SavedInv'
  <2>1. UNCHANGED <<generation, pending, state, disposed>>
    BY DEF Answers
  <2>2. OnServer(generation) => OnServer(generation)'
    BY <1>4, <2>1 DEF OnServer
  <2> QED BY <2>1, <2>2 DEF SavedInv
<1> QED BY <1>5, <1>7, <1>8, <1>9

(* Another client's request carries an id of its own and is none of this    *)
(* client's.                                                                *)
LEMMA OtherKeeps ==
  ASSUME TypeOK, TypeOK', IdsInv, HistoryInv, CallsInv, SavedInv, OtherAsks
  PROVE  IdsInv' /\ HistoryInv' /\ CallsInv' /\ SavedInv'
<1> DEFINE id == [by |-> "other", id |-> outside + 1]
<1>1. PICK s \in 0..Len(metas) :
        wire' = wire \cup {[tx |-> id, base |-> Len(revs), snap |-> s,
                            doc |-> IF s = 0 THEN 0 ELSE metas[s]]}
  BY DEF OtherAsks
<1> DEFINE req == [tx |-> id, base |-> Len(revs), snap |-> s,
                   doc |-> IF s = 0 THEN 0 ELSE metas[s]]
<1>2. /\ UNCHANGED <<revs, call, active, drawn, generation, base, pending, state, disposed>>
      /\ outside' = outside + 1 /\ outside \in Nat
  BY DEF OtherAsks, FromOutside, clientVars, TypeOK, ServiceTypeOK
<1>3. Asked' = Asked \cup {req} /\ wire' = wire \cup {req} /\ req.tx = id
  BY <1>1, <1>2 DEF Asked
<1>4. id.by = "other" /\ id.id = outside + 1 /\ id.id # 0 /\ id.id \in Nat
  BY <1>2
<1> HIDE DEF id, req
<1>5. Known' = Known \cup {Pair(req)}
  BY <1>2, <1>3, KnownPairs
<1>6. \A k \in Known : k.tx # id /\ Drawn(k)'
  <2> TAKE k \in Known
  <2>1. Drawn(k) /\ k.tx.id \in Nat
    BY KnownTypes DEF IdsInv, Transactions
  <2> QED BY <1>2, <1>4, <2>1 DEF Drawn
<1>7. ASSUME NEW k, k = Pair(req) PROVE Drawn(k)'
  BY <1>2, <1>3, <1>4, <1>7 DEF Drawn, Pair
<1>8. IdsInv'
  <2>1. ASSUME NEW k \in Known', NEW l \in Known', k.tx = l.tx, k.tx.id # 0
        PROVE  k.doc = l.doc
    <3>1. CASE k \in Known /\ l \in Known
      BY <2>1, <3>1 DEF IdsInv, IdsNameOneDocument
    <3>2. CASE k = Pair(req) /\ l = Pair(req)
      BY <3>2
    <3>3. Pair(req).tx = id
      BY <1>3 DEF Pair
    <3> QED BY <1>5, <1>6, <2>1, <3>1, <3>2, <3>3
  <2> QED BY <1>2, <1>5, <1>6, <1>7, <2>1 DEF IdsInv, IdsNameOneDocument
<1>9. HistoryInv'
  <2>1. \A r \in Asked' : Sound(r)'
    BY <1>2, <1>3, <1>4 DEF HistoryInv, Sound, BuildsOnOwn
  <2> QED BY <1>2, <2>1 DEF HistoryInv, OwnEditsRise, BaseInv, BuildsOnOwn
<1>10. CallsInv'
  BY <1>2, <1>3, <1>4 DEF CallsInv, AnswerHolds
<1>11. SavedInv'
  BY <1>2 DEF SavedInv, OnServer
<1> QED BY <1>8, <1>9, <1>10, <1>11

(* What a save leaves on show once the calls that waited have gone on.      *)
LEMMA ResumeShows ==
  ASSUME NEW c, NEW st, NEW pend, NEW act, NEW tries, NEW b,
         Resume(c, st, pend, act, tries, b)
  PROVE  state' \in {st, "saving"}
BY DEF Resume, Start

(* Nothing newer than what was saved means that the last edit is there: a   *)
(* late answer to a save sent twice changes neither.                        *)
LEMMA SavedStep ==
  ASSUME TypeOK, HistoryInv, CallsInv, SavedInv, [Next]_vars,
         \A c \in Calls : ~Serve(c), \A r \in wire : ~ServeLate(r), ~OtherAsks
  PROVE  SavedInv'
<1>1. ASSUME UNCHANGED <<revs, generation, pending, disposed>>,
             state' = state \/ state' # "clean"
      PROVE  SavedInv'
  BY <1>1 DEF SavedInv, OnServer
<1>2. CASE NotifyLocalEdit
  BY <1>2 DEF NotifyLocalEdit, SavedInv
<1>3. CASE Flush \/ DebounceFires \/ RetryFires
  <2>1. PICK flush \in BOOLEAN : RunSave(flush)
    BY <1>3 DEF Flush, DebounceFires, RetryFires
  <2>2. UNCHANGED <<generation, pending, disposed, serviceVars>>
    BY <1>3 DEF Flush, DebounceFires, RetryFires
  <2>3. state' = state \/ state' = "saving"
    BY <2>1 DEF RunSave, Start
  <2> QED BY <1>1, <2>2, <2>3 DEF serviceVars
<1>4. CASE Dispose
  BY <1>4 DEF Dispose, SavedInv
<1>5. ASSUME NEW c \in Calls, Complete(c) PROVE SavedInv'
  <2>1. UNCHANGED <<revs, generation, disposed>>
    BY <1>5 DEF Complete, serviceVars
  <2>2. CASE disposed
    BY <2>1, <2>2 DEF SavedInv
  <2>3. CASE ~disposed /\ call[c].answer = Refused
    <3>1. Conflicts(c)
      BY <1>5, <2>3 DEF Complete
    <3>2. state' \in {"conflict", "saving"}
      BY <3>1, ResumeShows DEF Conflicts
    <3> QED BY <1>1, <2>1, <3>1, <3>2 DEF Conflicts
  <2>4. CASE ~disposed /\ call[c].answer # Refused
    <3>1. Saved(c)
      BY <1>5, <2>4 DEF Complete
    <3>2. state' \in {IF Newer(c) THEN "dirty" ELSE "clean", "saving"} /\ pending' = Newer(c)
      BY <3>1, ResumeShows DEF Saved
    <3>3. state' = "clean" => ~pending'
      BY <3>2
    <3>4. ASSUME ~pending', generation > 0 PROVE OnServer(generation)
      <4>1. CASE ~pending
        BY <2>4, <3>4, <4>1 DEF SavedInv
      <4>2. CASE pending
        <5>1. ~(generation > call[c].sent.doc)
          BY <3>2, <3>4, <4>2 DEF Newer
        <5>2. call[c].sent \in Asked /\ call[c].sent.tx.by = "client"
              /\ call[c].sent.tx.id # 0 /\ AnswerHolds(c)
          BY <1>5, <2>4 DEF Complete, CallsInv, Asked
        <5>3. call[c].sent.doc \in 1..generation
          BY <5>2 DEF HistoryInv, Sound
        <5>4. generation = call[c].sent.doc
          BY <5>1, <5>3 DEF TypeOK
        <5> QED BY <5>2, <5>4 DEF AnswerHolds, OnServer
      <4> QED BY <4>1, <4>2
    <3> QED BY <2>1, <3>3, <3>4 DEF SavedInv, OnServer
  <2> QED BY <2>2, <2>3, <2>4
<1>6. ASSUME NEW c \in Calls, NetworkFails(c) PROVE SavedInv'
  <2>1. UNCHANGED <<revs, generation, disposed>>
    BY <1>6 DEF NetworkFails
  <2>2. CASE disposed
    BY <2>1, <2>2 DEF SavedInv
  <2>3. CASE ~disposed
    <3>1. Fails(c)
      BY <1>6, <2>3 DEF NetworkFails
    <3>2. state' \in {"error", "saving"}
      BY <3>1, ResumeShows DEF Fails
    <3> QED BY <1>1, <2>1, <3>1, <3>2 DEF Fails
  <2> QED BY <2>2, <2>3
<1>7. CASE ServiceStep
  <2>1. UNCHANGED <<revs, generation, pending, disposed, state>>
    BY <1>7 DEF ServiceStep, ServiceNext, PutSnapshotFile, InsertSnapshotRow, Restart,
       BootLists, BootSweeps, clientVars
  <2> QED BY <1>1, <2>1
<1>8. CASE UNCHANGED vars
  BY <1>1, <1>8 DEF vars, clientVars, serviceVars
<1> QED BY <1>2, <1>3, <1>4, <1>5, <1>6, <1>7, <1>8 DEF Next

-----------------------------------------------------------------------------
(* Every step keeps the invariant.                                          *)
LEMMA InvStep ==
  TypeOK /\ AutosaveInv /\ [Next]_vars => AutosaveInv'
<1> SUFFICES ASSUME TypeOK, AutosaveInv, [Next]_vars PROVE AutosaveInv'
  OBVIOUS
<1>1. TypeOK' /\ FilesInv'
  BY TypeStep, FilesStep DEF AutosaveInv
<1>2. CASE \E c \in Calls : Serve(c)
  <2>1. PICK c \in Calls : Serve(c)
    BY <1>2
  <2>2. call[c].sent \in OnTheirWay /\ Answers(call[c].sent)
    BY <2>1, ServingAnswers
  <2> QED BY <1>1, <2>2, AnswerKeeps DEF AutosaveInv
<1>3. CASE \E r \in wire : ServeLate(r)
  <2>1. PICK r \in wire : ServeLate(r)
    BY <1>3
  <2>2. r \in OnTheirWay /\ Answers(r)
    BY <2>1, ServingAnswers
  <2> QED BY <1>1, <2>2, AnswerKeeps DEF AutosaveInv
<1>4. CASE OtherAsks
  BY <1>1, <1>4, OtherKeeps DEF AutosaveInv
<1>5. CASE /\ \A c \in Calls : ~Serve(c)
           /\ \A r \in wire : ~ServeLate(r)
           /\ ~OtherAsks
  <2>1. ClientTurn /\ BaseInv'
    BY <1>5, ClientTurns DEF AutosaveInv
  <2>2. SavedInv'
    BY <1>5, SavedStep DEF AutosaveInv
  <2> QED BY <1>1, <2>1, <2>2, TurnKeepsIds, TurnKeepsHistory, TurnKeepsCalls DEF AutosaveInv
<1> QED BY <1>2, <1>3, <1>4, <1>5

LEMMA InvInit == Init => AutosaveInv
<1> SUFFICES ASSUME Init PROVE AutosaveInv
  OBVIOUS
<1>1. /\ revs = <<>> /\ metas = <<>> /\ wire = {} /\ call = [c \in Calls |-> Idle]
      /\ DOMAIN revs = {} /\ DOMAIN metas = {}
  BY DEF Init, ServiceInit
<1>2. \A r \in Asked : r = Nothing
  BY <1>1 DEF Asked, Idle
<1>3. FilesInv
  BY <1>1 DEF FilesInv, StorageKeys, Init, ServiceInit
<1>4. \A k \in Known : k.tx = [by |-> "client", id |-> 0] /\ k.doc = 0
  BY <1>1, <1>2, KnownPairs DEF Pair, Nothing
<1>5. IdsInv
  BY <1>4 DEF IdsInv, Drawn, IdsNameOneDocument, Init, NoActive
<1>6. HistoryInv
  BY <1>1, <1>2 DEF HistoryInv, OwnEditsRise, BaseInv, BuildsOnOwn, Sound, Nothing, Init
<1>7. CallsInv
  BY <1>1 DEF CallsInv, Idle, Nothing
<1>8. SavedInv
  BY DEF SavedInv, Init
<1> QED BY <1>3, <1>5, <1>6, <1>7, <1>8 DEF AutosaveInv

(* The invariant holds of client, network and server together.              *)
THEOREM AutosaveInvariant == Spec => [](TypeOK /\ AutosaveInv)
BY AutosaveTypeCorrect, InvInit, InvStep, PTL DEF Spec

(* An id stands for one document, wherever it is (idFactory and             *)
(* activeTransactionId of the controller, the lookup of the server).        *)
THEOREM IdsStandForOneDocument == Spec => []IdsNameOneDocument
<1>1. AutosaveInv => IdsNameOneDocument
  BY DEF AutosaveInv, IdsInv
<1> QED BY <1>1, AutosaveInvariant, PTL

(* A client that shows "clean" after an edit has its last edit on the       *)
(* server, whatever the network lost, delayed or answered twice.            *)
THEOREM CleanIsSaved == Spec => []CleanMeansSaved
<1>1. AutosaveInv => CleanMeansSaved
  BY DEF AutosaveInv, SavedInv, OnServer, CleanMeansSaved
<1> QED BY <1>1, AutosaveInvariant, PTL

-----------------------------------------------------------------------------
(* The refinement of SaveHistory.                                           *)
Rows == [i \in DOMAIN revs |-> [by |-> revs[i].tx.by, doc |-> revs[i].doc]]

(* What is committed is the next row.                                       *)
LEMMA RowsAppend ==
  ASSUME TypeOK, NEW r \in Requests, Handle(r)
  PROVE  \/ Rows' = Rows /\ ~Commits(r)
         \/ Rows' = Append(Rows, [by |-> r.tx.by, doc |-> r.doc]) /\ Commits(r)
<1>1. Len(revs) \in Nat /\ DOMAIN revs = 1..Len(revs)
  BY RevTypes
<1>2. CASE revs' = revs /\ ~Commits(r)
  BY <1>2 DEF Rows
<1>3. CASE /\ Commits(r)
           /\ DOMAIN revs' = 1..(Len(revs) + 1)
           /\ \A i \in DOMAIN revs : revs'[i] = revs[i]
           /\ revs'[Len(revs) + 1] = [tx |-> r.tx, doc |-> r.doc, snap |-> r.snap]
  <2> DEFINE row(i) == [by |-> revs'[i].tx.by, doc |-> revs'[i].doc]
             new == [by |-> r.tx.by, doc |-> r.doc]
  <2>1. Rows' = [i \in 1..(Len(revs) + 1) |-> row(i)]
    BY <1>3 DEF Rows
  <2>2. \A i \in DOMAIN revs : row(i) = Rows[i]
    BY <1>3 DEF Rows
  <2>3. row(Len(revs) + 1) = new
    BY <1>3
  <2>4. Rows \in Seq([by : {"client", "other"}, doc : Documents]) /\ Len(Rows) = Len(revs)
    <3>1. \A i \in 1..Len(revs) : [by |-> revs[i].tx.by, doc |-> revs[i].doc]
                                    \in [by : {"client", "other"}, doc : Documents]
      BY <1>1, RevTypes DEF Transactions
    <3> QED BY <1>1, <3>1 DEF Rows
  <2>5. new \in [by : {"client", "other"}, doc : Documents]
    BY DEF Requests, Transactions
  <2> HIDE DEF row, new
  <2>6. /\ DOMAIN Append(Rows, new) = 1..(Len(revs) + 1)
        /\ \A i \in DOMAIN revs : Append(Rows, new)[i] = Rows[i]
        /\ Append(Rows, new)[Len(revs) + 1] = new
    BY <1>1, <2>4, <2>5
  <2>7. \A i \in 1..(Len(revs) + 1) : Append(Rows, new)[i] = row(i)
    BY <1>1, <2>2, <2>3, <2>6
  <2>8. Append(Rows, new) = [i \in 1..(Len(revs) + 1) |-> row(i)]
    <3>1. Append(Rows, new) \in Seq([by : {"client", "other"}, doc : Documents])
      BY <2>4, <2>5
    <3>2. Append(Rows, new)
            \in [1..(Len(revs) + 1) -> [by : {"client", "other"}, doc : Documents]]
      BY <1>1, <2>6, <3>1, LenProperties
    <3> QED BY <2>7, <3>2
  <2> QED BY <1>3, <2>1, <2>8 DEF new
<1> QED BY <1>2, <1>3, HandleWrites

(* A request that is answered is a Write, an OtherWrites or a stutter.      *)
LEMMA AnswerRefines ==
  ASSUME TypeOK, AutosaveInv, NEW r \in OnTheirWay, Answers(r)
  PROVE  [History!Next]_(History!vars)
<1>1. r \in Asked /\ r \in Requests /\ r.tx.id # 0
  BY DEF OnTheirWay, Asked, TypeOK, CallsInv, AutosaveInv
<1>2. generation' = generation
  BY DEF Answers
<1>3. CASE Rows' = Rows
  BY <1>2, <1>3 DEF History!vars, Rows
<1>4. CASE Rows' = Append(Rows, [by |-> r.tx.by, doc |-> r.doc]) /\ Commits(r)
  <2>1. CASE r.tx.by = "client"
    <3>1. /\ r.doc \in 1..generation
          /\ \A i \in DOMAIN revs : revs[i].tx.by = "client" => revs[i].doc < r.doc
          /\ revs # <<>> => revs[Len(revs)].tx.by = "client"
      BY <1>1, <1>4, <2>1, CommitsAreNewest DEF AutosaveInv
    <3>2. \A i \in DOMAIN Rows : Rows[i].by = "client" => Rows[i].doc < r.doc
      BY <3>1 DEF Rows
    <3>3. Rows # <<>> => Rows[Len(Rows)].by = "client"
      <4>1. Len(Rows) = Len(revs) /\ DOMAIN Rows = DOMAIN revs
        BY RevTypes DEF Rows
      <4>2. revs = <<>> => Rows = <<>>
        BY DEF Rows
      <4>3. revs # <<>> => Len(revs) \in DOMAIN revs
        BY DEF TypeOK, ServiceTypeOK
      <4> QED BY <3>1, <4>1, <4>2, <4>3 DEF Rows
    <3>4. History!Write(r.doc)
      BY <1>2, <1>4, <2>1, <3>2, <3>3 DEF History!Write, History!Own, Rows
    <3> QED BY <3>1, <3>4 DEF History!Next
  <2>2. CASE r.tx.by = "other"
    <3>1. r.doc \in Documents
      BY <1>1 DEF Requests
    <3>2. History!OtherWrites
      BY <1>2, <1>4, <2>2, <3>1 DEF History!OtherWrites, Rows
    <3> QED BY <3>2 DEF History!Next
  <2>3. r.tx.by \in {"client", "other"}
    BY <1>1 DEF Requests, Transactions
  <2> QED BY <2>1, <2>2, <2>3
<1> QED BY <1>1, <1>3, <1>4, RowsAppend DEF Answers

(* Every step of client, network and server is a step of the abstract       *)
(* history or none: an edit is a Make, a commit a Write or an OtherWrites.  *)
LEMMA StepRefines ==
  TypeOK /\ AutosaveInv /\ [Next]_vars => [History!Next]_(History!vars)
<1> SUFFICES ASSUME TypeOK, AutosaveInv, [Next]_vars
             PROVE  [History!Next]_(History!vars)
  OBVIOUS
<1>1. CASE \E c \in Calls : Serve(c)
  BY <1>1, ServingAnswers, AnswerRefines
<1>2. CASE \E r \in wire : ServeLate(r)
  BY <1>2, ServingAnswers, AnswerRefines
<1>3. CASE NotifyLocalEdit
  BY <1>3 DEF NotifyLocalEdit, serviceVars, History!Next, History!Make
<1>4. ASSUME UNCHANGED <<revs, generation>> PROVE [History!Next]_(History!vars)
  BY <1>4 DEF History!vars
<1>5. CASE Flush \/ DebounceFires \/ RetryFires \/ Dispose
  BY <1>4, <1>5 DEF Flush, DebounceFires, RetryFires, Dispose, serviceVars
<1>6. ASSUME NEW c \in Calls, Complete(c) \/ NetworkFails(c)
      PROVE  [History!Next]_(History!vars)
  BY <1>4, <1>6 DEF Complete, NetworkFails, serviceVars
<1>7. CASE OtherAsks \/ UNCHANGED vars
  BY <1>4, <1>7 DEF OtherAsks, vars, clientVars, serviceVars
<1>8. CASE ServiceStep
  BY <1>4, <1>8 DEF ServiceStep, ServiceNext, PutSnapshotFile, InsertSnapshotRow, Restart,
     BootLists, BootSweeps, clientVars
<1> QED BY <1>1, <1>2, <1>3, <1>5, <1>6, <1>7, <1>8 DEF Next

(* Saving implements the history it promises: the edits of the client in    *)
(* their order, none twice, none on top of somebody else's revision (the    *)
(* compare-and-set on head_revision and the transaction lookup).            *)
THEOREM SavingRefinesHistory == Spec => WritesAreOrdered
<1>1. Init => History!Init
  <2>1. Init => generation = 0 /\ revs = <<>>
    BY DEF Init, ServiceInit
  <2>2. revs = <<>> => [i \in DOMAIN revs |-> [by |-> revs[i].tx.by, doc |-> revs[i].doc]] = <<>>
    OBVIOUS
  <2> QED BY <2>1, <2>2 DEF History!Init
<1> QED BY <1>1, StepRefines, AutosaveInvariant, PTL DEF Spec, WritesAreOrdered, History!Spec
=============================================================================
