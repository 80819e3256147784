--------------------------- MODULE LiveEditProofs ---------------------------
(***************************************************************************)
(* What is proved of live editing, for any peers, cells and bounds: the    *)
(* types, that an edit stays on its learner's screen until it is pushed,   *)
(* and that all screens agree when nothing is under way.                   *)
(***************************************************************************)
EXTENDS LiveEdit, TLAPS

-----------------------------------------------------------------------------
(* The types.                                                               *)
Cell == [path : Seq(Peers), val : Nat, gone : BOOLEAN]
Replica == [Cells -> Cell]
JobType == [at : {"idle", "flush", "load", "persist"}, doc : Sprites]

SharedOK == doc \in [Peers -> Replica]
LocalOK == /\ vm \in [Peers -> Sprites] /\ base \in [Peers -> Sprites]
           /\ pending \in [Peers -> SUBSET Sprites]
TimersOK == localTimer \in [Peers -> BOOLEAN] /\ applyTimer \in [Peers -> BOOLEAN]
JobOK == job \in [Peers -> JobType]
LearnerOK == /\ running \in [Peers -> BOOLEAN]
             /\ edits \in 0..MaxEdits /\ trouble \in 0..MaxTrouble
ObserversOK == /\ unseen \in [Peers -> SUBSET Cells] /\ swallowed \in [Peers -> SUBSET Cells]
               /\ touched \in [Peers -> SUBSET Cells] /\ stale \subseteq Peers

LEMMA TypeParts ==
  /\ TypeOK <=> SharedOK /\ LocalOK /\ TimersOK /\ JobOK /\ LearnerOK /\ ObserversOK
  /\ TypeOK' <=> SharedOK' /\ LocalOK' /\ TimersOK' /\ JobOK' /\ LearnerOK' /\ ObserversOK'
BY DEF TypeOK, SharedOK, LocalOK, TimersOK, JobOK, LearnerOK, ObserversOK, Replica, Cell, JobType

(* A cell shows a value; a value that is written is what it then shows, and *)
(* of two items one is kept.                                                *)
LEMMA CellShows ==
  ASSUME NEW x \in Cell
  PROVE  Val(x) \in Values
BY DEF Val, Cell, Values

LEMMA WrittenShows ==
  ASSUME NEW p \in Peers, NEW x \in Cell, NEW v \in Values
  PROVE  Written(p, x, v) \in Cell /\ Val(Written(p, x, v)) = v
<1>1. CASE v = Val(x)
  BY <1>1 DEF Written
<1>2. CASE v # Val(x) /\ v = Gone
  <2>1. Written(p, x, v) = [x EXCEPT !.gone = TRUE]
    BY <1>2 DEF Written
  <2>2. [x EXCEPT !.gone = TRUE] \in Cell /\ [x EXCEPT !.gone = TRUE].gone = TRUE
    BY DEF Cell
  <2> QED BY <1>2, <2>1, <2>2 DEF Val
<1>3. CASE v # Val(x) /\ v # Gone
  <2>1. Written(p, x, v) = [path |-> Append(x.path, p), val |-> v, gone |-> FALSE]
    BY <1>3 DEF Written
  <2>2. v \in Nat /\ Append(x.path, p) \in Seq(Peers)
    BY <1>3 DEF Values, Cell
  <2> QED BY <2>1, <2>2 DEF Val, Cell
<1> QED BY <1>1, <1>2, <1>3

LEMMA JoinType ==
  ASSUME NEW x \in Cell, NEW y \in Cell
  PROVE  Join(x, y) \in Cell
<1>1. [x EXCEPT !.gone = x.gone \/ y.gone] \in Cell
  <2>1. (x.gone \/ y.gone) \in BOOLEAN
    BY Zenon
  <2> QED BY <2>1 DEF Cell
<1> QED BY <1>1 DEF Join

(* What a push makes of the shared sprite, and an apply of the one to load. *)
LEMMA PatchedShows ==
  ASSUME NEW p \in Peers, NEW d \in Replica, NEW b \in Sprites, NEW s \in Sprites
  PROVE  /\ Patched(p, d, b, s) \in Replica
         /\ \A c \in Cells : Val(Patched(p, d, b, s)[c]) = IF s[c] = b[c] THEN Val(d[c]) ELSE s[c]
<1>1. ASSUME NEW c \in Cells
      PROVE  /\ Patched(p, d, b, s)[c] \in Cell
             /\ Val(Patched(p, d, b, s)[c]) = IF s[c] = b[c] THEN Val(d[c]) ELSE s[c]
  <2>1. d[c] \in Cell /\ s[c] \in Values
    BY DEF Replica, Sprites
  <2>2. Patched(p, d, b, s)[c] = IF s[c] = b[c] THEN d[c] ELSE Written(p, d[c], s[c])
    BY DEF Patched
  <2> QED BY <2>1, <2>2, WrittenShows
<1>2. Patched(p, d, b, s) = [c \in Cells |-> Patched(p, d, b, s)[c]]
  BY DEF Patched
<1> QED BY <1>1, <1>2 DEF Replica

LEMMA ShownType ==
  ASSUME NEW d \in Replica
  PROVE  [c \in Cells |-> Val(d[c])] \in Sprites
<1>1. \A c \in Cells : Val(d[c]) \in Values
  BY CellShows DEF Replica
<1> QED BY <1>1 DEF Sprites

LEMMA MergedType ==
  ASSUME NEW d \in Replica, NEW b \in Sprites, NEW s \in Sprites
  PROVE  /\ Merged(d, b, s) \in Sprites
         /\ \A c \in Cells : Merged(d, b, s)[c] = IF s[c] = b[c] THEN Val(d[c]) ELSE s[c]
<1>1. \A c \in Cells : Val(d[c]) \in Values /\ s[c] \in Values
  BY CellShows DEF Replica, Sprites
<1> QED BY <1>1 DEF Sprites, Merged

(* A push: the types, and what the document then shows.                     *)
LEMMA PushType ==
  ASSUME SharedOK, LocalOK, ObserversOK, NEW p \in Peers,
         NEW d \in Replica, NEW b \in Sprites, NEW S \in SUBSET Sprites, Push(p, d, b, S)
  PROVE  /\ SharedOK' /\ base' \in [Peers -> Sprites] /\ pending' \in [Peers -> SUBSET Sprites]
         /\ touched' \in [Peers -> SUBSET Cells]
         /\ \A q \in Peers \ {p} : doc'[q] = doc[q] /\ base'[q] = base[q] /\ pending'[q] = pending[q]
         /\ pending'[p] = {}
         /\ S = {} => doc'[p] = d /\ base'[p] = b
         /\ \A s \in S : (\A t \in S : t = s) =>
               /\ base'[p] = s
               /\ \A c \in Cells : Val(doc'[p][c]) = IF s[c] = b[c] THEN Val(d[c]) ELSE s[c]
<1> DEFINE s0 == CHOOSE s \in S : TRUE
           d1 == IF S = {} THEN d ELSE Patched(p, d, b, s0)
           b1 == IF S = {} THEN b ELSE s0
<1>1. S # {} => s0 \in S /\ s0 \in Sprites
  OBVIOUS
<1> HIDE DEF s0
<1>2. d1 \in Replica /\ b1 \in Sprites
  BY <1>1, PatchedShows
<1>3. doc' = [doc EXCEPT ![p] = d1] /\ base' = [base EXCEPT ![p] = b1]
      /\ pending' = [pending EXCEPT ![p] = {}] /\ touched' = [touched EXCEPT ![p] = {}]
  BY DEF Push, s0
<1>4. \A c \in Cells : S # {} =>
        Val(d1[c]) = IF s0[c] = b[c] THEN Val(d[c]) ELSE s0[c]
  BY <1>1, PatchedShows
<1>5. S = {} => d1 = d /\ b1 = b
  OBVIOUS
<1>8. ASSUME NEW s \in S, \A t \in S : t = s PROVE b1 = s
  BY <1>1, <1>8
<1> HIDE DEF d1, b1
<1>6. /\ SharedOK' /\ base' \in [Peers -> Sprites] /\ pending' \in [Peers -> SUBSET Sprites]
      /\ touched' \in [Peers -> SUBSET Cells]
      /\ \A q \in Peers \ {p} : doc'[q] = doc[q] /\ base'[q] = base[q] /\ pending'[q] = pending[q]
      /\ pending'[p] = {} /\ doc'[p] = d1 /\ base'[p] = b1
  BY <1>2, <1>3 DEF SharedOK, LocalOK, ObserversOK
<1>7. ASSUME NEW s \in S, \A t \in S : t = s, NEW c \in Cells
      PROVE  Val(doc'[p][c]) = IF s[c] = b[c] THEN Val(d[c]) ELSE s[c]
  <2>1. s0 = s
    BY <1>1, <1>7
  <2> QED BY <1>4, <1>6, <1>7, <2>1
<1> QED BY <1>5, <1>6, <1>7, <1>8

(* The parts of a step that change one peer's job.                          *)
LEMMA JobAt ==
  ASSUME JobOK, NEW p \in Peers, NEW at \in {"idle", "flush", "load", "persist"},
         job' = [job EXCEPT ![p].at = at]
  PROVE  /\ JobOK' /\ job'[p].at = at /\ job'[p].doc = job[p].doc
         /\ \A q \in Peers \ {p} : job'[q] = job[q]
<1>1. job' = [job EXCEPT ![p] = [job[p] EXCEPT !.at = at]]
  BY DEF JobOK
<1>2. job[p] \in JobType
  BY DEF JobOK
<1>3. [job[p] EXCEPT !.at = at] \in JobType
  BY <1>2 DEF JobType
<1> QED BY <1>1, <1>2, <1>3 DEF JobOK, JobType

LEMMA JobSet ==
  ASSUME JobOK, NEW p \in Peers, NEW at \in {"idle", "flush", "load", "persist"},
         NEW d \in Sprites, job' = [job EXCEPT ![p] = [at |-> at, doc |-> d]]
  PROVE  /\ JobOK' /\ job'[p].at = at /\ job'[p].doc = d
         /\ \A q \in Peers \ {p} : job'[q] = job[q]
BY DEF JobOK, JobType

LEMMA NoJobType ==
  ASSUME JobOK, NEW p \in Peers, job' = [job EXCEPT ![p] = NoJob]
  PROVE  /\ JobOK' /\ job'[p].at = "idle"
         /\ \A q \in Peers \ {p} : job'[q] = job[q]
<1>1. [c \in Cells |-> 0] \in Sprites
  BY DEF Sprites, Values
<1> QED BY <1>1, JobSet DEF NoJob

(* An edit, on screen and as it is noted.                                   *)
LEMMA EditEffect ==
  ASSUME TypeOK, NEW p \in Peers, NEW c \in Cells, Edit(p, c)
  PROVE  /\ vm' \in [Peers -> Sprites] /\ \A q \in Peers \ {p} : vm'[q] = vm[q]
         /\ \A d \in Cells \ {c} : vm'[p][d] = vm[p][d]
         /\ edits' \in 0..MaxEdits
<1>0. LocalOK /\ LearnerOK /\ edits < MaxEdits /\ edits' = edits + 1
  BY TypeParts DEF Edit
<1>1. PICK v \in {edits + 1, Gone, base[p][c]} \ {vm[p][c]} :
        vm' = [vm EXCEPT ![p][c] = v]
  BY DEF Edit
<1>2. v \in Values
  BY <1>0 DEF LearnerOK, LocalOK, Sprites, Values
<1>3. vm' = [vm EXCEPT ![p] = [vm[p] EXCEPT ![c] = v]] /\ vm[p] \in Sprites
  BY <1>0, <1>1 DEF LocalOK
<1>4. /\ [vm[p] EXCEPT ![c] = v] \in Sprites /\ [vm[p] EXCEPT ![c] = v][c] = v
      /\ \A d \in Cells \ {c} : [vm[p] EXCEPT ![c] = v][d] = vm[p][d]
  BY <1>2, <1>3 DEF Sprites
<1>5. /\ vm' \in [Peers -> Sprites] /\ \A q \in Peers \ {p} : vm'[q] = vm[q]
      /\ vm'[p] = [vm[p] EXCEPT ![c] = v]
  BY <1>0, <1>3, <1>4 DEF LocalOK
<1>6. edits' \in 0..MaxEdits
  BY <1>0, LiveAssumption DEF LearnerOK
<1> QED BY <1>1, <1>4, <1>5, <1>6

(* What a delivery, the beginning of an apply and its end do to one peer.   *)
LEMMA DeliverEffect ==
  ASSUME TypeOK, NEW p \in Peers, NEW q \in Peers, Deliver(p, q)
  PROVE  /\ SharedOK' /\ TimersOK' /\ applyTimer'[q]
         /\ \A r \in Peers \ {q} : doc'[r] = doc[r] /\ applyTimer'[r] = applyTimer[r]
         /\ UNCHANGED <<localVars, job, stale, learnerVars, missedVars, touched>>
<1> DEFINE new == [c \in Cells |-> Join(doc[q][c], doc[p][c])]
<1>1. SharedOK /\ TimersOK
  BY TypeParts
<1>2. new \in Replica
  <2>1. \A c \in Cells : doc[q][c] \in Cell /\ doc[p][c] \in Cell
    BY <1>1 DEF SharedOK, Replica
  <2>2. \A c \in Cells : Join(doc[q][c], doc[p][c]) \in Cell
    BY <2>1, JoinType
  <2> QED BY <2>2 DEF Replica
<1>3. /\ new # doc[q] /\ doc' = [doc EXCEPT ![q] = new]
      /\ applyTimer' = [applyTimer EXCEPT ![q] = @ \/ ContentChanged(q, new)]
      /\ UNCHANGED <<localVars, job, stale, learnerVars, missedVars, touched>>
  BY DEF Deliver
<1> HIDE DEF new
<1>4. ContentChanged(q, new)
  BY <1>3 DEF ContentChanged
<1>5. (applyTimer[q] \/ ContentChanged(q, new)) = TRUE
  BY <1>4, Zenon
<1>6. applyTimer' = [applyTimer EXCEPT ![q] = TRUE]
  BY <1>3, <1>5
<1>7. TimersOK' /\ applyTimer'[q] /\ \A r \in Peers \ {q} : applyTimer'[r] = applyTimer[r]
  <2>1. localTimer' = localTimer
    BY <1>3 DEF localVars
  <2> QED BY <1>1, <1>6, <2>1 DEF TimersOK
<1>8. SharedOK' /\ \A r \in Peers \ {q} : doc'[r] = doc[r]
  BY <1>1, <1>2, <1>3 DEF SharedOK
<1> QED BY <1>3, <1>7, <1>8

LEMMA BeginEffect ==
  ASSUME TypeOK, NEW p \in Peers, ApplyBegins(p)
  PROVE  /\ JobOK' /\ TimersOK' /\ ~applyTimer'[p] /\ job'[p].at = "flush"
         /\ \A q \in Peers \ {p} : job'[q] = job[q] /\ applyTimer'[q] = applyTimer[q]
         /\ pending[p] = {} => \A c \in Cells : job'[p].doc[c] = Val(doc[p][c])
         /\ \A s \in pending[p] : (\A t \in pending[p] : t = s) =>
               \A c \in Cells : job'[p].doc[c] = IF s[c] = base[p][c] THEN Val(doc[p][c]) ELSE s[c]
<1> DEFINE s0 == CHOOSE s \in pending[p] : TRUE
           shown == [c \in Cells |-> Val(doc[p][c])]
           d == IF pending[p] = {} THEN shown ELSE Merged(doc[p], base[p], s0)
<1>1. SharedOK /\ LocalOK /\ TimersOK /\ JobOK
  BY TypeParts
<1>2. /\ doc[p] \in Replica /\ base[p] \in Sprites /\ pending[p] \subseteq Sprites
      /\ pending[p] # {} => s0 \in pending[p]
  BY <1>1 DEF SharedOK, LocalOK
<1>3. /\ job' = [job EXCEPT ![p] = [at |-> "flush", doc |-> d]]
      /\ applyTimer' = [applyTimer EXCEPT ![p] = FALSE] /\ localTimer' = localTimer
  BY DEF ApplyBegins, localVars
<1>4. shown \in Sprites /\ \A c \in Cells : shown[c] = Val(doc[p][c])
  BY <1>2, ShownType
<1> HIDE DEF s0, shown
<1>5. pending[p] # {} =>
        /\ Merged(doc[p], base[p], s0) \in Sprites
        /\ \A c \in Cells : Merged(doc[p], base[p], s0)[c]
                              = IF s0[c] = base[p][c] THEN Val(doc[p][c]) ELSE s0[c]
  BY <1>2, MergedType
<1>6. d \in Sprites
  BY <1>4, <1>5
<1>7. pending[p] = {} => \A c \in Cells : d[c] = Val(doc[p][c])
  BY <1>4
<1>8. ASSUME NEW s \in pending[p], \A t \in pending[p] : t = s, NEW c \in Cells
      PROVE  d[c] = IF s[c] = base[p][c] THEN Val(doc[p][c]) ELSE s[c]
  <2>1. s0 = s /\ d = Merged(doc[p], base[p], s0)
    BY <1>2, <1>8
  <2> QED BY <1>5, <1>8, <2>1
<1> HIDE DEF d
<1>9. /\ JobOK' /\ job'[p].at = "flush" /\ job'[p].doc = d
      /\ \A q \in Peers \ {p} : job'[q] = job[q]
  BY <1>1, <1>3, <1>6, JobSet
<1>10. TimersOK' /\ ~applyTimer'[p] /\ \A q \in Peers \ {p} : applyTimer'[q] = applyTimer[q]
  BY <1>1, <1>3 DEF TimersOK
<1> QED BY <1>7, <1>8, <1>9, <1>10

LEMMA DoneTypes ==
  ASSUME TypeOK, NEW p \in Peers
  PROVE  /\ Acknowledged(p) \in Sprites
         /\ (IF pending[p] = {} THEN {} ELSE {vm[p]}) \in SUBSET Sprites
<1>1. SharedOK /\ LocalOK
  BY TypeParts
<1>2. doc[p] \in Replica /\ vm[p] \in Sprites
  BY <1>1 DEF SharedOK, LocalOK
<1> QED BY <1>2, ShownType DEF Acknowledged

LEMMA TypeInit == Init => TypeOK
<1> SUFFICES ASSUME Init PROVE TypeOK
  OBVIOUS
<1>1. [c \in Cells |-> Empty] \in Replica
  BY DEF Replica, Cell, Empty
<1>2. [c \in Cells |-> 0] \in Sprites
  BY DEF Sprites, Values
<1>3. NoJob \in JobType
  BY <1>2 DEF NoJob, JobType
<1>4. SharedOK
  BY <1>1 DEF Init, SharedOK
<1>5. LocalOK /\ TimersOK
  BY <1>2 DEF Init, LocalOK, TimersOK
<1>6. JobOK
  BY <1>3 DEF Init, JobOK
<1>7. LearnerOK /\ ObserversOK
  BY LiveAssumption DEF Init, LearnerOK, ObserversOK
<1> QED BY <1>4, <1>5, <1>6, <1>7, TypeParts

(* One step, by actions.                                                    *)
LEMMA NextCases ==
  ASSUME Next
  PROVE  \E p \in Peers :
           \/ \E c \in Cells : Edit(p, c)
           \/ Run(p) \/ Stop(p)
           \/ PushFires(p)
           \/ \E q \in Peers \ {p} : Deliver(p, q)
           \/ ApplyBegins(p) \/ ApplyFlushed(p)
           \/ ApplyLoads(p) \/ ApplyLoadFails(p) \/ ApplyDone(p)
BY DEF Next

LEMMA TypeStep ==
  ASSUME TypeOK, [Next]_vars
  PROVE  TypeOK'
<1>0. SharedOK /\ LocalOK /\ TimersOK /\ JobOK /\ LearnerOK /\ ObserversOK
  BY TypeParts
<1>1. ASSUME NEW p \in Peers, NEW c \in Cells, Edit(p, c)
      PROVE  TypeOK'
  <2>1. UNCHANGED <<doc, base, applyVars, running, trouble, swallowed>> /\ NoteLocalChange(p, c)
    BY <1>1 DEF Edit
  <2>2. vm' \in [Peers -> Sprites] /\ edits' \in 0..MaxEdits
    BY <1>1, EditEffect
  <2>3. vm'[p] \in Sprites
    BY <2>2
  <2>4. PICK S \in SUBSET Sprites :
          \/ pending' = pending /\ localTimer' = localTimer /\ touched' = touched
          \/ /\ pending' = [pending EXCEPT ![p] = S]
             /\ localTimer' = [localTimer EXCEPT ![p] = TRUE]
             /\ touched' = [touched EXCEPT ![p] = @ \cup {c}]
    <3>1. (IF vm'[p] = base[p] THEN pending[p] ELSE {vm'[p]}) \in SUBSET Sprites
      BY <1>0, <2>3 DEF LocalOK
    <3> QED BY <2>1, <3>1 DEF NoteLocalChange
  <2>5. LocalOK' /\ TimersOK'
    BY <1>0, <2>1, <2>2, <2>4 DEF LocalOK, TimersOK, applyVars
  <2>6. ObserversOK'
    BY <1>0, <2>1 DEF ObserversOK, applyVars, NoteLocalChange
  <2>7. SharedOK' /\ JobOK' /\ LearnerOK'
    BY <1>0, <2>1, <2>2 DEF SharedOK, JobOK, LearnerOK, applyVars
  <2> QED BY <2>5, <2>6, <2>7, TypeParts
<1>2. ASSUME NEW p \in Peers, Run(p) \/ Stop(p)
      PROVE  TypeOK'
  <2>1. UNCHANGED <<doc, localVars, applyVars, edits, missedVars, touched>>
    BY <1>2 DEF Run, Stop
  <2>2. LearnerOK'
    <3>1. /\ \E b \in BOOLEAN : running' = [running EXCEPT ![p] = b]
          /\ trouble' = trouble \/ (trouble < MaxTrouble /\ trouble' = trouble + 1)
      BY <1>2 DEF Run, Stop
    <3>2. edits' = edits
      BY <2>1
    <3> QED BY <1>0, <3>1, <3>2, LiveAssumption DEF LearnerOK
  <2>3. SharedOK' /\ LocalOK' /\ TimersOK' /\ JobOK' /\ ObserversOK'
    BY <1>0, <2>1 DEF SharedOK, LocalOK, TimersOK, JobOK, ObserversOK, missedVars, localVars, applyVars
  <2> QED BY <2>2, <2>3, TypeParts
<1>3. ASSUME NEW p \in Peers, PushFires(p)
      PROVE  TypeOK'
  <2>1. UNCHANGED <<vm, applyVars, learnerVars, unseen>>
    BY <1>3 DEF PushFires
  <2>2. TimersOK'
    <3>1. localTimer' = [localTimer EXCEPT ![p] = Rearmed(p)]
      BY <1>3 DEF PushFires
    <3>2. Rearmed(p) \in BOOLEAN
      BY DEF Rearmed, Suppressed
    <3> QED BY <1>0, <2>1, <3>1, <3>2 DEF TimersOK, applyVars
  <2>3. /\ SharedOK' /\ base' \in [Peers -> Sprites] /\ pending' \in [Peers -> SUBSET Sprites]
        /\ touched' \in [Peers -> SUBSET Cells] /\ swallowed' \in [Peers -> SUBSET Cells]
    <3>1. CASE Suppressed(p)
      BY <1>0, <1>3, <3>1 DEF PushFires, SharedOK, LocalOK, ObserversOK
    <3>2. CASE ~Suppressed(p)
      <4>1. Push(p, doc[p], base[p], pending[p])
        BY <1>3, <3>2 DEF PushFires
      <4>2. doc[p] \in Replica /\ base[p] \in Sprites /\ pending[p] \in SUBSET Sprites
        BY <1>0 DEF SharedOK, LocalOK
      <4>3. swallowed' = [swallowed EXCEPT ![p] =
                           {c \in @ : \A s \in pending[p] : s[c] = base[p][c]}]
        BY <1>3, <3>2 DEF PushFires
      <4>4. swallowed' \in [Peers -> SUBSET Cells]
        BY <1>0, <4>3 DEF ObserversOK
      <4> QED BY <1>0, <4>1, <4>2, <4>4, PushType
    <3> QED BY <3>1, <3>2
  <2>4. LocalOK' /\ JobOK' /\ LearnerOK' /\ ObserversOK'
    BY <1>0, <2>1, <2>3 DEF LocalOK, JobOK, LearnerOK, ObserversOK, applyVars, learnerVars
  <2> QED BY <2>2, <2>3, <2>4, TypeParts
<1>4. ASSUME NEW p \in Peers, NEW q \in Peers, Deliver(p, q)
      PROVE  TypeOK'
  <2>1. SharedOK' /\ TimersOK' /\ UNCHANGED <<localVars, job, stale, learnerVars, missedVars, touched>>
    BY <1>4, DeliverEffect
  <2>2. LocalOK' /\ JobOK' /\ LearnerOK' /\ ObserversOK'
    BY <1>0, <2>1 DEF LocalOK, JobOK, LearnerOK, ObserversOK, missedVars, localVars, learnerVars
  <2> QED BY <2>1, <2>2, TypeParts
<1>5. ASSUME NEW p \in Peers, ApplyBegins(p)
      PROVE  TypeOK'
  <2>1. JobOK' /\ TimersOK'
    BY <1>5, BeginEffect
  <2>2. UNCHANGED <<doc, localVars, stale, learnerVars, missedVars, touched>>
    BY <1>5 DEF ApplyBegins
  <2>3. SharedOK' /\ LocalOK' /\ LearnerOK' /\ ObserversOK'
    BY <1>0, <2>2 DEF SharedOK, LocalOK, LearnerOK, ObserversOK, missedVars, localVars, learnerVars
  <2> QED BY <2>1, <2>3, TypeParts
<1>6. ASSUME NEW p \in Peers, ApplyFlushed(p)
      PROVE  TypeOK'
  <2>1. JobOK'
    BY <1>0, <1>6, JobAt DEF ApplyFlushed
  <2>2. UNCHANGED <<doc, localVars, applyTimer, stale, learnerVars, missedVars, touched>>
    BY <1>6 DEF ApplyFlushed
  <2>3. SharedOK' /\ LocalOK' /\ TimersOK' /\ LearnerOK' /\ ObserversOK'
    BY <1>0, <2>2 DEF SharedOK, LocalOK, TimersOK, LearnerOK, ObserversOK, missedVars, localVars, learnerVars
  <2> QED BY <2>1, <2>3, TypeParts
<1>7. ASSUME NEW p \in Peers, ApplyLoads(p)
      PROVE  TypeOK'
  <2>1. JobOK'
    BY <1>0, <1>7, JobAt DEF ApplyLoads
  <2>2. job[p].doc \in Sprites
    BY <1>0 DEF JobOK, JobType
  <2>3. /\ vm' = [vm EXCEPT ![p] = job[p].doc]
        /\ unseen' = [unseen EXCEPT ![p] = {}] /\ swallowed' = [swallowed EXCEPT ![p] = {}]
        /\ UNCHANGED <<doc, base, pending, localTimer, applyTimer, stale, learnerVars, touched>>
    BY <1>7 DEF ApplyLoads
  <2>4. LocalOK' /\ ObserversOK'
    BY <1>0, <2>2, <2>3 DEF LocalOK, ObserversOK
  <2>5. SharedOK' /\ TimersOK' /\ LearnerOK'
    BY <1>0, <2>3 DEF SharedOK, TimersOK, LearnerOK, learnerVars
  <2> QED BY <2>1, <2>4, <2>5, TypeParts
<1>8. ASSUME NEW p \in Peers, ApplyLoadFails(p)
      PROVE  TypeOK'
  <2>1. JobOK'
    BY <1>0, <1>8, NoJobType DEF ApplyLoadFails
  <2>2. /\ stale' = stale \cup {p} /\ Push(p, doc[p], base[p], pending[p])
        /\ trouble < MaxTrouble /\ trouble' = trouble + 1
        /\ vm' \in {vm, [vm EXCEPT ![p] = [c \in Cells |-> Gone]]}
        /\ UNCHANGED <<localTimer, applyTimer, running, edits, missedVars>>
    BY <1>8 DEF ApplyLoadFails
  <2>7. vm' \in [Peers -> Sprites]
    <3>1. [c \in Cells |-> Gone] \in Sprites
      BY DEF Sprites, Values
    <3> QED BY <1>0, <2>2, <3>1 DEF LocalOK
  <2>3. doc[p] \in Replica /\ base[p] \in Sprites /\ pending[p] \in SUBSET Sprites
    BY <1>0 DEF SharedOK, LocalOK
  <2>4. /\ SharedOK' /\ base' \in [Peers -> Sprites] /\ pending' \in [Peers -> SUBSET Sprites]
        /\ touched' \in [Peers -> SUBSET Cells]
    BY <1>0, <2>2, <2>3, PushType
  <2>5. LearnerOK'
    BY <1>0, <2>2, LiveAssumption DEF LearnerOK
  <2>6. LocalOK' /\ TimersOK' /\ ObserversOK'
    BY <1>0, <2>2, <2>4, <2>7 DEF LocalOK, TimersOK, ObserversOK, missedVars
  <2> QED BY <2>1, <2>4, <2>5, <2>6, TypeParts
<1>9. ASSUME NEW p \in Peers, ApplyDone(p)
      PROVE  TypeOK'
  <2> DEFINE S == IF pending[p] = {} THEN {} ELSE {vm[p]}
  <2>1. JobOK'
    BY <1>0, <1>9, NoJobType DEF ApplyDone
  <2>2. /\ stale' = stale \ {p} /\ Push(p, doc[p], Acknowledged(p), S)
        /\ unseen' = [unseen EXCEPT ![p] = {}]
        /\ swallowed' = [swallowed EXCEPT ![p] = IF pending[p] = {} THEN @ \cup unseen[p] ELSE {}]
        /\ UNCHANGED <<vm, localTimer, applyTimer, learnerVars>>
    BY <1>9 DEF ApplyDone
  <2>3. doc[p] \in Replica /\ Acknowledged(p) \in Sprites /\ S \in SUBSET Sprites
    BY <1>0, DoneTypes DEF SharedOK
  <2> HIDE DEF S
  <2>4. /\ SharedOK' /\ base' \in [Peers -> Sprites] /\ pending' \in [Peers -> SUBSET Sprites]
        /\ touched' \in [Peers -> SUBSET Cells]
    BY <1>0, <2>2, <2>3, PushType
  <2>5. LocalOK' /\ TimersOK' /\ ObserversOK' /\ LearnerOK'
    BY <1>0, <2>2, <2>4 DEF LocalOK, TimersOK, ObserversOK, LearnerOK, learnerVars
  <2> QED BY <2>1, <2>4, <2>5, TypeParts
<1>10. CASE UNCHANGED vars
  BY <1>10 DEF TypeOK, vars, sharedVars, localVars, applyVars, learnerVars, missedVars
<1>11. CASE Next
  BY <1>1, <1>2, <1>3, <1>4, <1>5, <1>6, <1>7, <1>8, <1>9, <1>11, NextCases
<1> QED BY <1>10, <1>11

(* Every variable stays of its type, in every behaviour of the peers.       *)
THEOREM LiveTypeCorrect == Spec => []TypeOK
<1>1. TypeOK /\ [Next]_vars => TypeOK'
  BY TypeStep
<1> QED BY <1>1, TypeInit, PTL DEF Spec

-----------------------------------------------------------------------------
(* What waits to be pushed, and what the screen shows, of one peer p.  One  *)
(* snapshot waits at most; what it changes is on screen, and in what an     *)
(* apply is about to load; the rest of the screen, unless an apply is due,  *)
(* is the shared sprite, and so is the rest of what is about to be loaded;  *)
(* and with no apply under way the baseline is the shared sprite, but for   *)
(* what it swallowed.                                                       *)
OneWaits(p) == \A s, t \in pending[p] : s = t

Shows(p) == \A s \in pending[p] : \A c \in Cells \ unseen[p] :
              s[c] # base[p][c] => vm[p][c] = s[c]

Loading(p) == job[p].at \in {"flush", "load"}

Carries(p) == Loading(p) => \A s \in pending[p], c \in Cells :
                s[c] # base[p][c] => job[p].doc[c] = s[c]

WaitInv == \A p \in Peers : OneWaits(p) /\ Shows(p) /\ Carries(p)

Kept(p, c) == \A s \in pending[p] : s[c] = base[p][c]

LoadsShared(p) == Loading(p) => \A c \in Cells : Kept(p, c) => job[p].doc[c] = Val(doc[p][c])

Resting(p) == job[p].at = "idle" /\ p \notin stale
Settled(p) == job[p].at = "persist" \/ Resting(p)

ShowsShared(p) == Settled(p) => \A c \in Cells \ (unseen[p] \cup swallowed[p]) :
                    Kept(p, c) => vm[p][c] = Val(doc[p][c])

StartsShared(p) == Resting(p) => \A c \in Cells \ swallowed[p] :
                     base[p][c] = Val(doc[p][c])

InStep(p) == LoadsShared(p) /\ ShowsShared(p) /\ StartsShared(p)

ScreenInv == \A p \in Peers : ~applyTimer[p] => InStep(p)

(* Both are of one peer alone: a step that leaves its part of the state     *)
(* leaves them, and of a delivery only the due apply counts.                *)
LEMMA WaitFrame ==
  ASSUME NEW p \in Peers, OneWaits(p), Shows(p), Carries(p),
         pending'[p] = pending[p], base'[p] = base[p], vm'[p] = vm[p],
         job'[p] = job[p], unseen'[p] = unseen[p]
  PROVE  OneWaits(p)' /\ Shows(p)' /\ Carries(p)'
<1>1. OneWaits(p)'
  BY DEF OneWaits
<1>2. Shows(p)'
  BY DEF Shows
<1>3. Carries(p)'
  BY DEF Carries, Loading
<1> QED BY <1>1, <1>2, <1>3

LEMMA ScreenFrame ==
  ASSUME NEW p \in Peers, ~applyTimer[p] => InStep(p),
         pending'[p] = pending[p], base'[p] = base[p], vm'[p] = vm[p],
         job'[p] = job[p], unseen'[p] = unseen[p], swallowed'[p] = swallowed[p], doc'[p] = doc[p],
         applyTimer'[p] = applyTimer[p], p \in stale' <=> p \in stale
  PROVE  ~applyTimer'[p] => InStep(p)'
<1>1. LoadsShared(p) => LoadsShared(p)'
  BY DEF LoadsShared, Loading, Kept
<1>2. ShowsShared(p) => ShowsShared(p)'
  BY DEF ShowsShared, Settled, Resting, Kept
<1>3. StartsShared(p) => StartsShared(p)'
  BY DEF StartsShared, Resting
<1> QED BY <1>1, <1>2, <1>3 DEF InStep

(* The other peers: what a step of p leaves to them.                        *)
LEMMA OthersKeep ==
  ASSUME WaitInv, NEW p \in Peers, OneWaits(p)' /\ Shows(p)' /\ Carries(p)',
         \A q \in Peers \ {p} : /\ pending'[q] = pending[q] /\ base'[q] = base[q]
                                /\ vm'[q] = vm[q] /\ job'[q] = job[q] /\ unseen'[q] = unseen[q]
  PROVE  WaitInv'
<1>1. ASSUME NEW q \in Peers
      PROVE  OneWaits(q)' /\ Shows(q)' /\ Carries(q)'
  <2>1. CASE q = p
    BY <2>1
  <2>2. CASE q # p
    <3>1. OneWaits(q) /\ Shows(q) /\ Carries(q)
      BY DEF WaitInv
    <3> QED BY <2>2, <3>1, WaitFrame
  <2> QED BY <2>1, <2>2
<1> QED BY <1>1 DEF WaitInv

LEMMA OthersShow ==
  ASSUME ScreenInv, NEW p \in Peers, ~applyTimer'[p] => InStep(p)',
         \A q \in Peers \ {p} : /\ pending'[q] = pending[q] /\ base'[q] = base[q]
                                /\ vm'[q] = vm[q] /\ job'[q] = job[q] /\ unseen'[q] = unseen[q]
                                /\ swallowed'[q] = swallowed[q]
                                /\ doc'[q] = doc[q] /\ applyTimer'[q] = applyTimer[q]
                                /\ (q \in stale' <=> q \in stale)
  PROVE  ScreenInv'
<1>1. ASSUME NEW q \in Peers
      PROVE  ~applyTimer'[q] => InStep(q)'
  <2>1. CASE q = p
    BY <2>1
  <2>2. CASE q # p
    <3>1. ~applyTimer[q] => InStep(q)
      BY DEF ScreenInv
    <3> QED BY <2>2, <3>1, ScreenFrame
  <2> QED BY <2>1, <2>2
<1> QED BY <1>1 DEF ScreenInv

(* An edit that is noted is the one snapshot that waits, or takes the sprite *)
(* back to the baseline; where the snapshot has it otherwise, and one that is *)
(* not noted, is unseen.                                                    *)
LEMMA EditNoted ==
  ASSUME TypeOK, NEW p \in Peers, NEW c \in Cells, Edit(p, c)
  PROVE  /\ UNCHANGED <<doc, base, applyVars, swallowed>>
         /\ Suppressed(p) => pending' = pending /\ unseen'[p] = unseen[p] \cup {c}
         /\ ~Suppressed(p) =>
              /\ \/ vm'[p] = base[p] /\ pending'[p] = pending[p]
                 \/ pending'[p] = {vm'[p]}
              /\ unseen'[p] = {d \in Cells : \E s \in pending'[p] : s[d] # vm'[p][d]}
         /\ \A q \in Peers \ {p} : pending'[q] = pending[q] /\ unseen'[q] = unseen[q]
<1>1. LocalOK /\ ObserversOK
  BY TypeParts
<1>2. UNCHANGED <<doc, base, applyVars, swallowed>> /\ NoteLocalChange(p, c)
  BY DEF Edit
<1>3. CASE Suppressed(p)
  BY <1>1, <1>2, <1>3 DEF NoteLocalChange, LocalOK, ObserversOK
<1>4. CASE ~Suppressed(p)
  <2> DEFINE D == {d \in Cells : \E s \in pending'[p] : s[d] # vm'[p][d]}
             S == IF vm'[p] = base[p] THEN pending[p] ELSE {vm'[p]}
  <2>1. pending' = [pending EXCEPT ![p] = S] /\ unseen' = [unseen EXCEPT ![p] = D]
    BY <1>2, <1>4 DEF NoteLocalChange
  <2>2. (vm'[p] = base[p] /\ S = pending[p]) \/ S = {vm'[p]}
    OBVIOUS
  <2> HIDE DEF D, S
  <2>3. /\ unseen'[p] = D /\ pending'[p] = S
        /\ \A q \in Peers \ {p} : pending'[q] = pending[q] /\ unseen'[q] = unseen[q]
    BY <1>1, <2>1 DEF LocalOK, ObserversOK
  <2> QED BY <1>2, <1>4, <2>2, <2>3 DEF D
<1> QED BY <1>2, <1>3, <1>4

LEMMA EditKeeps ==
  ASSUME TypeOK, WaitInv, NEW p \in Peers, NEW c \in Cells, Edit(p, c)
  PROVE  WaitInv' /\ (ScreenInv => ScreenInv')
<1>1. /\ UNCHANGED <<doc, base, applyTimer, job, stale, swallowed>>
      /\ Suppressed(p) => pending' = pending /\ unseen'[p] = unseen[p] \cup {c}
      /\ ~Suppressed(p) =>
           /\ \/ vm'[p] = base[p] /\ pending'[p] = pending[p]
              \/ pending'[p] = {vm'[p]}
           /\ unseen'[p] = {d \in Cells : \E s \in pending'[p] : s[d] # vm'[p][d]}
      /\ \A q \in Peers \ {p} : pending'[q] = pending[q] /\ unseen'[q] = unseen[q]
  BY EditNoted DEF applyVars
<1>2. /\ \A q \in Peers \ {p} : vm'[q] = vm[q]
      /\ \A d \in Cells \ {c} : vm'[p][d] = vm[p][d]
  BY EditEffect
<1>3. OneWaits(p) /\ Shows(p) /\ Carries(p)
  BY DEF WaitInv
<1>4. OneWaits(p)' /\ Shows(p)' /\ Carries(p)'
  <2>1. CASE Suppressed(p)
    <3>1. OneWaits(p)' /\ Carries(p)'
      BY <1>1, <1>3, <2>1 DEF OneWaits, Carries, Loading
    <3>2. Shows(p)'
      BY <1>1, <1>2, <1>3, <2>1 DEF Shows
    <3> QED BY <3>1, <3>2
  <2>2. CASE ~Suppressed(p)
    <3>1. OneWaits(p)'
      BY <1>1, <1>3, <2>2 DEF OneWaits
    <3>2. Shows(p)'
      BY <1>1, <2>2 DEF Shows
    <3>3. Carries(p)'
      BY <1>1, <2>2 DEF Carries, Loading, Suppressed
    <3> QED BY <3>1, <3>2, <3>3
  <2> QED BY <2>1, <2>2
<1>5. ASSUME ScreenInv PROVE ~applyTimer'[p] => InStep(p)'
  <2>1. SUFFICES ASSUME ~applyTimer[p] PROVE InStep(p)'
    BY <1>1
  <2>2. LoadsShared(p) /\ ShowsShared(p) /\ StartsShared(p)
    BY <1>5, <2>1 DEF ScreenInv, InStep
  <2>3. StartsShared(p)'
    BY <1>1, <2>2 DEF StartsShared, Resting
  <2>4. CASE Suppressed(p)
    <3>1. LoadsShared(p)'
      BY <1>1, <2>2, <2>4 DEF LoadsShared, Loading, Kept
    <3>2. ShowsShared(p)'
      BY <1>1, <1>2, <2>2, <2>4 DEF ShowsShared, Settled, Resting, Kept
    <3> QED BY <2>3, <3>1, <3>2 DEF InStep
  <2>5. CASE ~Suppressed(p)
    <3>1. LoadsShared(p)'
      BY <1>1, <2>5 DEF LoadsShared, Loading, Suppressed
    <3>2. ASSUME Resting(p), NEW d \in Cells \ (unseen'[p] \cup swallowed[p]),
                 \A s \in pending'[p] : s[d] = base[p][d]
          PROVE  vm'[p][d] = Val(doc[p][d])
      <4>1. \A s \in pending'[p] : s[d] = vm'[p][d]
        BY <1>1, <2>5
      <4>2. vm'[p][d] = base[p][d]
        BY <1>1, <2>5, <3>2, <4>1
      <4> QED BY <2>2, <3>2, <4>2 DEF StartsShared
    <3>3. ShowsShared(p)'
      BY <1>1, <2>5, <3>2 DEF ShowsShared, Settled, Resting, Suppressed, Kept
    <3> QED BY <2>3, <3>1, <3>3 DEF InStep
  <2> QED BY <2>4, <2>5
<1>6. WaitInv'
  BY <1>1, <1>2, <1>4, OthersKeep
<1>7. ScreenInv => ScreenInv'
  BY <1>1, <1>2, <1>5, OthersShow
<1> QED BY <1>6, <1>7

(* A push that nothing puts off: nothing waits, and the shared sprite shows *)
(* what the screen does.                                                    *)
LEMMA PushKeeps ==
  ASSUME TypeOK, WaitInv, NEW p \in Peers, PushFires(p)
  PROVE  WaitInv' /\ (ScreenInv => ScreenInv')
<1>0. SharedOK /\ LocalOK /\ ObserversOK
  BY TypeParts
<1>1. UNCHANGED <<vm, applyTimer, job, stale, unseen>>
  BY DEF PushFires, applyVars
<1>2. CASE Suppressed(p)
  <2>1. UNCHANGED <<doc, base, pending, swallowed>>
    BY <1>2 DEF PushFires
  <2>2. OneWaits(p) /\ Shows(p) /\ Carries(p)
    BY DEF WaitInv
  <2>3. WaitInv'
    BY <1>1, <2>1, <2>2, WaitFrame, OthersKeep
  <2>4. ASSUME ScreenInv PROVE ScreenInv'
    <3>1. ~applyTimer[p] => InStep(p)
      BY <2>4 DEF ScreenInv
    <3>2. ~applyTimer'[p] => InStep(p)'
      BY <1>1, <2>1, <3>1, ScreenFrame
    <3> QED BY <1>1, <2>1, <2>4, <3>2, OthersShow
  <2> QED BY <2>3, <2>4
<1>3. CASE ~Suppressed(p)
  <2>1. /\ Push(p, doc[p], base[p], pending[p])
        /\ swallowed' = [swallowed EXCEPT ![p] =
                           {c \in @ : \A s \in pending[p] : s[c] = base[p][c]}]
    BY <1>3 DEF PushFires
  <2>2. doc[p] \in Replica /\ base[p] \in Sprites /\ pending[p] \in SUBSET Sprites
    BY <1>0 DEF SharedOK, LocalOK
  <2>3. /\ \A q \in Peers \ {p} : doc'[q] = doc[q] /\ base'[q] = base[q] /\ pending'[q] = pending[q]
        /\ pending'[p] = {}
        /\ pending[p] = {} => doc'[p] = doc[p] /\ base'[p] = base[p]
        /\ \A s \in pending[p] : (\A t \in pending[p] : t = s) =>
             /\ base'[p] = s
             /\ \A c \in Cells :
                  Val(doc'[p][c]) = IF s[c] = base[p][c] THEN Val(doc[p][c]) ELSE s[c]
    BY <1>0, <2>1, <2>2, PushType
  <2>4. /\ swallowed'[p] = {c \in swallowed[p] : \A s \in pending[p] : s[c] = base[p][c]}
        /\ \A q \in Peers \ {p} : swallowed'[q] = swallowed[q]
    BY <1>0, <2>1 DEF ObserversOK
  <2>5. OneWaits(p)' /\ Shows(p)' /\ Carries(p)'
    BY <2>3 DEF OneWaits, Shows, Carries
  <2>6. WaitInv'
    BY <1>1, <2>3, <2>5, OthersKeep
  <2>7. ASSUME ScreenInv, ~applyTimer[p] PROVE InStep(p)'
    <3>1. OneWaits(p) /\ Shows(p) /\ ShowsShared(p) /\ StartsShared(p)
      BY <2>7 DEF ScreenInv, InStep, WaitInv
    <3>2. LoadsShared(p)'
      BY <1>1, <1>3 DEF LoadsShared, Loading, Suppressed
    <3>3. ASSUME Resting(p), NEW c \in Cells \ swallowed'[p]
          PROVE  /\ base'[p][c] = Val(doc'[p][c])
                 /\ c \notin unseen[p] => vm[p][c] = Val(doc'[p][c])
      <4>1. CASE pending[p] = {}
        <5>1. c \notin swallowed[p] /\ doc'[p] = doc[p] /\ base'[p] = base[p]
          BY <2>3, <2>4, <3>3, <4>1
        <5>2. base[p][c] = Val(doc[p][c])
          BY <3>1, <3>3, <5>1 DEF StartsShared
        <5>3. c \notin unseen[p] => vm[p][c] = Val(doc[p][c])
          BY <3>1, <3>3, <4>1, <5>1 DEF ShowsShared, Settled, Kept
        <5> QED BY <5>1, <5>2, <5>3
      <4>2. CASE pending[p] # {}
        <5>1. PICK s \in pending[p] : TRUE
          BY <4>2
        <5>2. \A t \in pending[p] : t = s
          BY <3>1, <5>1 DEF OneWaits
        <5>3. /\ base'[p] = s
              /\ Val(doc'[p][c]) = IF s[c] = base[p][c] THEN Val(doc[p][c]) ELSE s[c]
          BY <2>3, <5>1, <5>2
        <5>4. CASE s[c] = base[p][c]
          <6>1. Kept(p, c)
            BY <5>2, <5>4 DEF Kept
          <6>2. c \notin swallowed[p]
            BY <2>4, <3>3, <6>1 DEF Kept
          <6>3. base[p][c] = Val(doc[p][c])
            BY <3>1, <3>3, <6>2 DEF StartsShared
          <6>4. c \notin unseen[p] => vm[p][c] = Val(doc[p][c])
            BY <3>1, <3>3, <6>1, <6>2 DEF ShowsShared, Settled
          <6> QED BY <5>3, <5>4, <6>3, <6>4
        <5>5. CASE s[c] # base[p][c]
          <6>1. c \notin unseen[p] => vm[p][c] = s[c]
            BY <3>1, <3>3, <5>1, <5>5 DEF Shows
          <6> QED BY <5>3, <5>5, <6>1
        <5> QED BY <5>4, <5>5
      <4> QED BY <4>1, <4>2
    <3>4. ShowsShared(p)'
      BY <1>1, <1>3, <3>3 DEF ShowsShared, Settled, Resting, Suppressed
    <3>5. StartsShared(p)'
      BY <1>1, <3>3 DEF StartsShared, Resting
    <3> QED BY <3>2, <3>4, <3>5 DEF InStep
  <2>8. ScreenInv => ScreenInv'
    BY <1>1, <2>3, <2>4, <2>7, OthersShow
  <2> QED BY <2>6, <2>8
<1> QED BY <1>2, <1>3

LEMMA RunKeeps ==
  ASSUME WaitInv, UNCHANGED <<doc, localVars, applyVars, missedVars>>
  PROVE  WaitInv' /\ (ScreenInv => ScreenInv')
<1>1. UNCHANGED <<doc, vm, base, pending, applyTimer, job, stale, unseen, swallowed>>
  BY DEF localVars, applyVars, missedVars
<1>2. ASSUME NEW p \in Peers PROVE OneWaits(p)' /\ Shows(p)' /\ Carries(p)'
  BY <1>1, WaitFrame DEF WaitInv
<1>3. ASSUME ScreenInv, NEW p \in Peers
      PROVE  ~applyTimer'[p] => InStep(p)'
  BY <1>1, <1>3, ScreenFrame DEF ScreenInv
<1> QED BY <1>2, <1>3 DEF WaitInv, ScreenInv

(* What arrives makes an apply due, and nothing else.                       *)
LEMMA DeliverKeeps ==
  ASSUME TypeOK, WaitInv, NEW p \in Peers, NEW q \in Peers, Deliver(p, q)
  PROVE  WaitInv' /\ (ScreenInv => ScreenInv')
<1>1. /\ applyTimer'[q] /\ UNCHANGED <<vm, base, pending, job, stale, unseen, swallowed>>
      /\ \A r \in Peers \ {q} : doc'[r] = doc[r] /\ applyTimer'[r] = applyTimer[r]
  BY DeliverEffect DEF localVars, missedVars
<1>2. OneWaits(q)' /\ Shows(q)' /\ Carries(q)'
  BY <1>1, WaitFrame DEF WaitInv
<1>3. WaitInv'
  BY <1>1, <1>2, OthersKeep
<1>4. ScreenInv => ScreenInv'
  BY <1>1, OthersShow
<1> QED BY <1>3, <1>4

(* What is about to be loaded is the shared sprite with the snapshot over   *)
(* it, and stays so until it is loaded or others send more.                 *)
LEMMA BeginKeeps ==
  ASSUME TypeOK, WaitInv, NEW p \in Peers, ApplyBegins(p)
  PROVE  WaitInv' /\ (ScreenInv => ScreenInv')
<1>1. /\ ~applyTimer'[p] /\ job'[p].at = "flush"
      /\ \A q \in Peers \ {p} : job'[q] = job[q] /\ applyTimer'[q] = applyTimer[q]
      /\ pending[p] = {} => \A c \in Cells : job'[p].doc[c] = Val(doc[p][c])
      /\ \A s \in pending[p] : (\A t \in pending[p] : t = s) =>
            \A c \in Cells : job'[p].doc[c] = IF s[c] = base[p][c] THEN Val(doc[p][c]) ELSE s[c]
  BY BeginEffect
<1>2. UNCHANGED <<doc, vm, base, pending, stale, unseen, swallowed>>
  BY DEF ApplyBegins, localVars, missedVars
<1>3. OneWaits(p) /\ Shows(p)
  BY DEF WaitInv
<1>4. OneWaits(p)' /\ Shows(p)'
  BY <1>2, <1>3 DEF OneWaits, Shows
<1>5. ASSUME NEW s \in pending[p], NEW c \in Cells
      PROVE  job'[p].doc[c] = IF s[c] = base[p][c] THEN Val(doc[p][c]) ELSE s[c]
  BY <1>1, <1>3 DEF OneWaits
<1>6. Carries(p)'
  BY <1>2, <1>5 DEF Carries
<1>7. LoadsShared(p)'
  <2>1. ASSUME NEW c \in Cells, Kept(p, c)
        PROVE  job'[p].doc[c] = Val(doc[p][c])
    BY <1>1, <1>5, <2>1 DEF Kept
  <2> QED BY <1>2, <2>1 DEF LoadsShared, Kept
<1>8. InStep(p)'
  BY <1>1, <1>7 DEF InStep, ShowsShared, StartsShared, Settled, Resting
<1>9. WaitInv'
  BY <1>1, <1>2, <1>4, <1>6, OthersKeep
<1>10. ScreenInv => ScreenInv'
  BY <1>1, <1>2, <1>8, OthersShow
<1> QED BY <1>9, <1>10

LEMMA FlushedKeeps ==
  ASSUME TypeOK, WaitInv, NEW p \in Peers, ApplyFlushed(p)
  PROVE  WaitInv' /\ (ScreenInv => ScreenInv')
<1>1. /\ job[p].at = "flush" /\ job'[p].at = "load" /\ job'[p].doc = job[p].doc
      /\ \A q \in Peers \ {p} : job'[q] = job[q]
  BY JobAt, TypeParts DEF ApplyFlushed
<1>2. UNCHANGED <<doc, vm, base, pending, applyTimer, stale, unseen, swallowed>>
  BY DEF ApplyFlushed, localVars, missedVars
<1>3. OneWaits(p)' /\ Shows(p)' /\ Carries(p)'
  <2>1. OneWaits(p) /\ Shows(p) /\ Carries(p)
    BY DEF WaitInv
  <2>2. OneWaits(p)' /\ Shows(p)'
    BY <1>2, <2>1 DEF OneWaits, Shows
  <2>3. Carries(p)'
    BY <1>1, <1>2, <2>1 DEF Carries, Loading
  <2> QED BY <2>2, <2>3
<1>4. ASSUME ScreenInv, ~applyTimer[p] PROVE InStep(p)'
  <2>1. LoadsShared(p)
    BY <1>4 DEF ScreenInv, InStep
  <2>2. LoadsShared(p)'
    BY <1>1, <1>2, <2>1 DEF LoadsShared, Loading, Kept
  <2>3. ShowsShared(p)' /\ StartsShared(p)'
    BY <1>1 DEF ShowsShared, StartsShared, Settled, Resting
  <2> QED BY <2>2, <2>3 DEF InStep
<1>5. WaitInv'
  BY <1>1, <1>2, <1>3, OthersKeep
<1>6. ScreenInv => ScreenInv'
  BY <1>1, <1>2, <1>4, OthersShow
<1> QED BY <1>5, <1>6

LEMMA LoadsKeeps ==
  ASSUME TypeOK, WaitInv, NEW p \in Peers, ApplyLoads(p)
  PROVE  WaitInv' /\ (ScreenInv => ScreenInv')
<1>1. /\ job[p].at = "load" /\ job'[p].at = "persist"
      /\ \A q \in Peers \ {p} : job'[q] = job[q]
  BY JobAt, TypeParts DEF ApplyLoads
<1>2. /\ UNCHANGED <<doc, base, pending, applyTimer, stale>>
      /\ vm'[p] = job[p].doc /\ unseen'[p] = {}
      /\ \A q \in Peers \ {p} : /\ vm'[q] = vm[q] /\ unseen'[q] = unseen[q]
                                /\ swallowed'[q] = swallowed[q]
  BY TypeParts DEF ApplyLoads, LocalOK, ObserversOK
<1>3. OneWaits(p)' /\ Shows(p)' /\ Carries(p)'
  <2>1. OneWaits(p) /\ Carries(p)
    BY DEF WaitInv
  <2>2. OneWaits(p)'
    BY <1>2, <2>1 DEF OneWaits
  <2>3. Shows(p)'
    BY <1>1, <1>2, <2>1 DEF Shows, Carries, Loading
  <2>4. Carries(p)'
    BY <1>1 DEF Carries, Loading
  <2> QED BY <2>2, <2>3, <2>4
<1>4. ASSUME ScreenInv, ~applyTimer[p] PROVE InStep(p)'
  <2>1. LoadsShared(p)
    BY <1>4 DEF ScreenInv, InStep
  <2>2. ShowsShared(p)'
    BY <1>1, <1>2, <2>1 DEF LoadsShared, ShowsShared, Loading, Kept
  <2>3. LoadsShared(p)' /\ StartsShared(p)'
    BY <1>1 DEF LoadsShared, Loading, StartsShared, Resting
  <2> QED BY <2>2, <2>3 DEF InStep
<1>5. WaitInv'
  BY <1>1, <1>2, <1>3, OthersKeep
<1>6. ScreenInv => ScreenInv'
  BY <1>1, <1>2, <1>4, OthersShow
<1> QED BY <1>5, <1>6

(* A peer whose load failed has nothing that waits, and its screen is not   *)
(* spoken of until an apply is done.                                        *)
LEMMA LoadFailsKeeps ==
  ASSUME TypeOK, WaitInv, NEW p \in Peers, ApplyLoadFails(p)
  PROVE  WaitInv' /\ (ScreenInv => ScreenInv')
<1>0. SharedOK /\ LocalOK /\ JobOK /\ ObserversOK
  BY TypeParts
<1>1. job'[p].at = "idle" /\ \A q \in Peers \ {p} : job'[q] = job[q]
  BY <1>0, NoJobType DEF ApplyLoadFails
<1>2. /\ UNCHANGED <<applyTimer, unseen, swallowed>> /\ stale' = stale \cup {p}
      /\ Push(p, doc[p], base[p], pending[p])
  BY DEF ApplyLoadFails, missedVars
<1>9. \A q \in Peers \ {p} : vm'[q] = vm[q]
  BY <1>0 DEF ApplyLoadFails, LocalOK
<1>3. doc[p] \in Replica /\ base[p] \in Sprites /\ pending[p] \in SUBSET Sprites
  BY <1>0 DEF SharedOK, LocalOK
<1>4. /\ \A q \in Peers \ {p} : doc'[q] = doc[q] /\ base'[q] = base[q] /\ pending'[q] = pending[q]
      /\ pending'[p] = {}
  BY <1>0, <1>2, <1>3, PushType
<1>5. OneWaits(p)' /\ Shows(p)' /\ Carries(p)'
  BY <1>4 DEF OneWaits, Shows, Carries
<1>6. InStep(p)'
  BY <1>1, <1>2 DEF InStep, LoadsShared, ShowsShared, StartsShared, Loading, Settled, Resting
<1>7. WaitInv'
  BY <1>1, <1>2, <1>4, <1>5, <1>9, OthersKeep
<1>8. ScreenInv => ScreenInv'
  BY <1>1, <1>2, <1>4, <1>6, <1>9, OthersShow
<1> QED BY <1>7, <1>8

(* At the end of an apply the screen is put over the shared sprite, if      *)
(* something waits; if nothing does, they are the same already.             *)
LEMMA DoneKeeps ==
  ASSUME TypeOK, WaitInv, NEW p \in Peers, ApplyDone(p)
  PROVE  WaitInv' /\ (ScreenInv => ScreenInv')
<1> DEFINE S == IF pending[p] = {} THEN {} ELSE {vm[p]}
<1>0. SharedOK /\ LocalOK /\ JobOK /\ ObserversOK
  BY TypeParts
<1>1. /\ job[p].at = "persist" /\ job'[p].at = "idle"
      /\ \A q \in Peers \ {p} : job'[q] = job[q]
  BY <1>0, NoJobType DEF ApplyDone
<1>2. /\ UNCHANGED <<vm, applyTimer>> /\ stale' = stale \ {p}
      /\ Push(p, doc[p], Acknowledged(p), S)
      /\ unseen' = [unseen EXCEPT ![p] = {}]
      /\ swallowed' = [swallowed EXCEPT ![p] = IF pending[p] = {} THEN @ \cup unseen[p] ELSE {}]
  BY DEF ApplyDone
<1>3. doc[p] \in Replica /\ Acknowledged(p) \in Sprites /\ S \in SUBSET Sprites
  BY <1>0, DoneTypes DEF SharedOK
<1>4. S = {} <=> pending[p] = {}
  OBVIOUS
<1>5. \A s \in S : s = vm[p]
  OBVIOUS
<1>6. pending[p] # {} => vm[p] \in S
  OBVIOUS
<1> HIDE DEF S
<1>7. /\ \A q \in Peers \ {p} : doc'[q] = doc[q] /\ base'[q] = base[q] /\ pending'[q] = pending[q]
      /\ pending'[p] = {}
      /\ S = {} => doc'[p] = doc[p] /\ base'[p] = Acknowledged(p)
      /\ \A s \in S : (\A t \in S : t = s) =>
           /\ base'[p] = s
           /\ \A c \in Cells :
                Val(doc'[p][c]) = IF s[c] = Acknowledged(p)[c] THEN Val(doc[p][c]) ELSE s[c]
  BY <1>0, <1>2, <1>3, PushType
<1>8. \A q \in Peers \ {p} : unseen'[q] = unseen[q] /\ swallowed'[q] = swallowed[q]
  BY <1>0, <1>2 DEF ObserversOK
<1>9. OneWaits(p)' /\ Shows(p)' /\ Carries(p)'
  BY <1>7 DEF OneWaits, Shows, Carries
<1>10. ASSUME ScreenInv, ~applyTimer[p], NEW c \in Cells \ swallowed'[p]
       PROVE  vm[p][c] = Val(doc'[p][c]) /\ base'[p][c] = vm[p][c]
  <2>1. ShowsShared(p) /\ Settled(p)
    BY <1>1, <1>10 DEF ScreenInv, InStep, Settled
  <2>2. CASE pending[p] = {}
    <3>1. swallowed'[p] = swallowed[p] \cup unseen[p]
      BY <1>0, <1>2, <2>2 DEF ObserversOK
    <3>2. doc'[p] = doc[p] /\ base'[p] = vm[p]
      BY <1>4, <1>7, <2>2 DEF Acknowledged
    <3>3. Kept(p, c)
      BY <2>2 DEF Kept
    <3> QED BY <1>10, <2>1, <3>1, <3>2, <3>3 DEF ShowsShared
  <2>3. CASE pending[p] # {}
    <3>1. Acknowledged(p)[c] = Val(doc[p][c])
      BY <2>3 DEF Acknowledged
    <3>2. /\ base'[p] = vm[p]
          /\ Val(doc'[p][c]) = IF vm[p][c] = Acknowledged(p)[c] THEN Val(doc[p][c]) ELSE vm[p][c]
      BY <1>5, <1>6, <1>7, <2>3
    <3> QED BY <3>1, <3>2
  <2> QED BY <2>2, <2>3
<1>11. ASSUME ScreenInv, ~applyTimer[p] PROVE InStep(p)'
  <2>1. LoadsShared(p)'
    BY <1>1 DEF LoadsShared, Loading
  <2>2. ShowsShared(p)'
    BY <1>2, <1>10, <1>11 DEF ShowsShared
  <2>3. StartsShared(p)'
    BY <1>10, <1>11 DEF StartsShared
  <2> QED BY <2>1, <2>2, <2>3 DEF InStep
<1>12. WaitInv'
  BY <1>1, <1>2, <1>7, <1>8, <1>9, OthersKeep
<1>13. ScreenInv => ScreenInv'
  <2>1. \A q \in Peers \ {p} : (q \in stale' <=> q \in stale)
    BY <1>2
  <2> QED BY <1>1, <1>2, <1>7, <1>8, <1>11, <2>1, OthersShow
<1> QED BY <1>12, <1>13

-----------------------------------------------------------------------------
LEMMA InvInit == Init => WaitInv /\ ScreenInv
<1> SUFFICES ASSUME Init PROVE WaitInv /\ ScreenInv
  OBVIOUS
<1>1. ASSUME NEW p \in Peers
      PROVE  /\ pending[p] = {} /\ job[p].at = "idle"
             /\ \A c \in Cells : vm[p][c] = 0 /\ base[p][c] = 0 /\ Val(doc[p][c]) = 0
  BY DEF Init, NoJob, Empty, Val
<1>2. WaitInv
  BY <1>1 DEF WaitInv, OneWaits, Shows, Carries
<1>3. ScreenInv
  BY <1>1 DEF ScreenInv, InStep, LoadsShared, ShowsShared, StartsShared, Loading
<1> QED BY <1>2, <1>3

LEMMA InvStep ==
  ASSUME TypeOK, WaitInv, [Next]_vars
  PROVE  WaitInv' /\ (ScreenInv => ScreenInv')
<1>1. ASSUME NEW p \in Peers, Run(p) \/ Stop(p)
      PROVE  WaitInv' /\ (ScreenInv => ScreenInv')
  <2>1. UNCHANGED <<doc, localVars, applyVars, missedVars>>
    BY <1>1 DEF Run, Stop
  <2> QED BY <2>1, RunKeeps
<1>2. CASE UNCHANGED vars
  BY <1>2, RunKeeps DEF vars, sharedVars
<1>3. CASE Next
  BY <1>1, <1>3, NextCases, EditKeeps, PushKeeps, DeliverKeeps, BeginKeeps, FlushedKeeps,
     LoadsKeeps, LoadFailsKeeps, DoneKeeps
<1> QED BY <1>2, <1>3

(* An edit that waits to be pushed stays on its learner's screen, whatever  *)
(* of others is loaded meanwhile (mergePendingTarget).                      *)
THEOREM PendingStaysOnShow == Spec => []PendingOnShow
<1>1. Init => WaitInv
  BY InvInit
<1>2. TypeOK /\ WaitInv /\ [Next]_vars => WaitInv'
  BY InvStep
<1>3. WaitInv => PendingOnShow
  BY DEF WaitInv, Shows, PendingOnShow
<1> QED BY <1>1, <1>2, <1>3, LiveTypeCorrect, PTL DEF Spec

(* Every screen shows the shared sprite when nothing is under way, but for  *)
(* a peer whose last apply failed and on a learner's own screen the cells   *)
(* whose last edit nothing notes.                                           *)
THEOREM ScreensComeToAgree == Spec => []ScreensAgree
<1>1. Init => WaitInv /\ ScreenInv
  BY InvInit
<1>2. TypeOK /\ WaitInv /\ ScreenInv /\ [Next]_vars => WaitInv' /\ ScreenInv'
  BY InvStep
<1>3. ScreenInv => ScreensAgree
  <2> SUFFICES ASSUME ScreenInv, Quiet, NEW p \in Peers \ stale,
                      NEW c \in Cells \ (unseen[p] \cup swallowed[p])
               PROVE  vm[p][c] = Val(doc[p][c])
    BY DEF ScreensAgree
  <2>1. pending[p] = {} /\ ~applyTimer[p] /\ job[p].at = "idle"
    BY DEF Quiet
  <2>2. ShowsShared(p) /\ Settled(p) /\ Kept(p, c)
    BY <2>1 DEF ScreenInv, InStep, Settled, Resting, Kept
  <2> QED BY <2>2 DEF ShowsShared
<1> QED BY <1>1, <1>2, <1>3, LiveTypeCorrect, PTL DEF Spec
=============================================================================
