------------------------------ MODULE LiveEdit ------------------------------
(***************************************************************************)
(* Peers that are past the bootstrap and edit one project together         *)
(* (apps/editor-web/src/collab-session.ts over packages/collaboration-     *)
(* domain).  What the learner does on screen is noted against a baseline,  *)
(* pushed into the shared document after a debounce, and merged into what  *)
(* others sent whenever that is loaded into the Scratch VM.  Loading takes *)
(* three awaits, in which the learner goes on and others go on sending.    *)
(*                                                                         *)
(* A cell is a block or a field of one sprite, which is never deleted; all *)
(* assets are there.  An edit makes a value nobody had before, or deletes, *)
(* or takes the cell back to the baseline.                                 *)
(***************************************************************************)
EXTENDS Naturals, Sequences, FiniteSetsExt

CONSTANTS
    Peers,        \* Yjs client ids
    Cells,
    Gone,         \* the value of a cell that is not there
    MaxEdits,     \* bound on edits
    MaxTrouble    \* bound on loads that fail and on the learner's runs

ASSUME LiveAssumption ==
    /\ Peers \subseteq Nat
    /\ Gone \notin Nat
    /\ {MaxEdits, MaxTrouble} \subseteq Nat

VARIABLES
    doc,         \* each peer's replica of the Y.Doc
    vm,          \* what each peer's VM holds and shows
    base,        \* lastLocalTargetJson
    pending,     \* pendingTargets: no snapshot of the sprite, or one, in a set
    localTimer,  \* is a push due?
    applyTimer,  \* is an apply due?
    job,         \* the apply under way, and what it loads
    running,     \* does the learner run the project?
    edits,       \* how many edits were made
    trouble,     \* how much of MaxTrouble is used up
    unseen,      \* observer: cells edited, which the snapshot has otherwise
    swallowed,   \* observer: cells edited, which only the baseline has
    stale,       \* observer: peers whose last apply failed
    touched      \* observer: cells edited, and noted, since the last push

sharedVars == <<doc>>
localVars == <<vm, base, pending, localTimer>>
applyVars == <<applyTimer, job, stale>>
learnerVars == <<running, edits, trouble>>
missedVars == <<unseen, swallowed>>
vars == <<sharedVars, localVars, applyVars, learnerVars, missedVars, touched>>

Values == Nat \cup {Gone}

-----------------------------------------------------------------------------
(* A cell of a Y.Doc.  Writing a key of a Y.Map puts the new item after the *)
(* one that holds the key; of items after the same one the greater client   *)
(* comes last, and the last item holds the key.  So a write is known by the *)
(* clients on the path to it, and the greatest path wins.  Deleting marks   *)
(* the item that holds the key.                                             *)
Empty == [path |-> <<>>, val |-> 0, gone |-> FALSE]

Val(x) == IF x.gone THEN Gone ELSE x.val

Common(s, t) ==
    Max({0} \cup {n \in DOMAIN s \cap DOMAIN t : \A i \in 1..n : s[i] = t[i]})

Beats(s, t) ==
    LET n == Common(s, t)
    IN  /\ n < Len(s)
        /\ n < Len(t) => s[n + 1] > t[n + 1]

Join(x, y) ==
    IF x.path = y.path THEN [x EXCEPT !.gone = x.gone \/ y.gone]
    ELSE IF Beats(x.path, y.path) THEN x ELSE y

(* (Definitions named Slip* are deliberate mistakes, used by no action.)    *)
SlipDeletionWritten(p, x, v) == [path |-> Append(x.path, p), val |-> v, gone |-> FALSE]

Written(p, x, v) ==
    CASE v = Val(x)               -> x
      [] v # Val(x) /\ v = Gone   -> [x EXCEPT !.gone = TRUE]
      [] v # Val(x) /\ v # Gone   ->
            [path |-> Append(x.path, p), val |-> v, gone |-> FALSE]

-----------------------------------------------------------------------------
(* diffBlocks and mergePendingTarget: what the learner changed since the    *)
(* baseline is written, or put over what others made.                       *)
Patched(p, d, b, s) ==
    [c \in Cells |-> IF s[c] = b[c] THEN d[c] ELSE Written(p, d[c], s[c])]

SlipRemoteWins(d, b, s) == [c \in Cells |-> Val(d[c])]

Merged(d, b, s) == [c \in Cells |-> IF s[c] = b[c] THEN Val(d[c]) ELSE s[c]]

NoJob == [at |-> "idle", doc |-> [c \in Cells |-> 0]]

\* suppressLocal
Suppressed(p) == job[p].at # "idle"

Init ==
    /\ doc = [p \in Peers |-> [c \in Cells |-> Empty]]
    /\ vm = [p \in Peers |-> [c \in Cells |-> 0]]
    /\ base = [p \in Peers |-> [c \in Cells |-> 0]]
    /\ pending = [p \in Peers |-> {}]
    /\ localTimer = [p \in Peers |-> FALSE]
    /\ applyTimer = [p \in Peers |-> FALSE]
    /\ job = [p \in Peers |-> NoJob]
    /\ running = [p \in Peers |-> FALSE]
    /\ edits = 0 /\ trouble = 0
    /\ unseen = [p \in Peers |-> {}] /\ swallowed = [p \in Peers |-> {}]
    /\ touched = [p \in Peers |-> {}] /\ stale = {}

-----------------------------------------------------------------------------
(* The learner.                                                             *)
\* noteLocalChange: an event during an apply is ignored; any other takes a
\* snapshot if the sprite is not as the baseline has it.  One that was taken of
\* what the learner takes back stays.
NoteLocalChange(p, c) ==
    IF Suppressed(p)
    THEN /\ unseen' = [unseen EXCEPT ![p] = @ \cup {c}]
         /\ UNCHANGED <<pending, localTimer, touched>>
    ELSE /\ pending' = [pending EXCEPT ![p] = IF vm'[p] = base[p] THEN @ ELSE {vm'[p]}]
         /\ localTimer' = [localTimer EXCEPT ![p] = TRUE]
         /\ unseen' = [unseen EXCEPT ![p] = {d \in Cells : \E s \in pending'[p] : s[d] # vm'[p][d]}]
         /\ touched' = [touched EXCEPT ![p] = @ \cup {c}]

Edit(p, c) ==
    /\ edits < MaxEdits
    /\ edits' = edits + 1
    /\ \E v \in {edits + 1, Gone, base[p][c]} \ {vm[p][c]} : vm' = [vm EXCEPT ![p][c] = v]
    /\ NoteLocalChange(p, c)
    /\ UNCHANGED <<doc, base, applyVars, running, trouble, swallowed>>

\* The learner runs the project, and stops it.
Run(p) ==
    /\ ~running[p]
    /\ trouble < MaxTrouble /\ trouble' = trouble + 1
    /\ running' = [running EXCEPT ![p] = TRUE]
    /\ UNCHANGED <<doc, localVars, applyVars, edits, missedVars, touched>>

Stop(p) ==
    /\ running[p]
    /\ running' = [running EXCEPT ![p] = FALSE]
    /\ UNCHANGED <<doc, localVars, applyVars, edits, trouble, missedVars, touched>>

-----------------------------------------------------------------------------
(* Pushing.                                                                 *)
\* pushPendingLocalChanges, with d, b and s as they are then.
Push(p, d, b, S) ==
    /\ doc' = [doc EXCEPT ![p] = IF S = {} THEN d
                                 ELSE Patched(p, d, b, CHOOSE s \in S : TRUE)]
    /\ base' = [base EXCEPT ![p] = IF S = {} THEN b ELSE CHOOSE s \in S : TRUE]
    /\ pending' = [pending EXCEPT ![p] = {}]
    /\ touched' = [touched EXCEPT ![p] = {}]

\* doLocalPush: during an apply it is put off.
SlipRearmedAlways(p) == TRUE

Rearmed(p) == Suppressed(p)

PushFires(p) ==
    /\ localTimer[p]
    /\ localTimer' = [localTimer EXCEPT ![p] = Rearmed(p)]
    /\ IF Suppressed(p) THEN UNCHANGED <<doc, base, pending, touched, swallowed>>
       ELSE /\ Push(p, doc[p], base[p], pending[p])
            /\ swallowed' = [swallowed EXCEPT ![p] =
                               {c \in @ : \A s \in pending[p] : s[c] = base[p][c]}]
    /\ UNCHANGED <<vm, applyVars, learnerVars, unseen>>

\* Another peer's updates arrive; if they change content an apply is due.
SlipIgnoredDuringApply(q, new) == new # doc[q] /\ ~Suppressed(q)

ContentChanged(q, new) == new # doc[q]

Deliver(p, q) ==
    LET new == [c \in Cells |-> Join(doc[q][c], doc[p][c])]
    IN  /\ new # doc[q]
        /\ doc' = [doc EXCEPT ![q] = new]
        /\ applyTimer' = [applyTimer EXCEPT ![q] = @ \/ ContentChanged(q, new)]
        /\ UNCHANGED <<localVars, job, stale, learnerVars, missedVars, touched>>

-----------------------------------------------------------------------------
(* Applying: runApplyToLocal.  An apply that has to wait for the one before *)
(* is a timer that fires later; so is one that is put off while the learner *)
(* runs the project, or for at most eight seconds of a drag.                *)
ApplyBegins(p) ==
    /\ applyTimer[p] /\ ~Suppressed(p)
    /\ ~running[p]
    /\ applyTimer' = [applyTimer EXCEPT ![p] = FALSE]
    /\ job' = [job EXCEPT ![p] =
                 [at |-> "flush",
                  doc |-> IF pending[p] = {} THEN [c \in Cells |-> Val(doc[p][c])]
                          ELSE Merged(doc[p], base[p], CHOOSE s \in pending[p] : TRUE)]]
    /\ UNCHANGED <<doc, localVars, stale, learnerVars, missedVars, touched>>

\* saveCoordinator.flush() is done; the VM loads.
ApplyFlushed(p) ==
    /\ job[p].at = "flush"
    /\ job' = [job EXCEPT ![p].at = "load"]
    /\ UNCHANGED <<doc, localVars, applyTimer, stale, learnerVars, missedVars, touched>>

ApplyLoads(p) ==
    /\ job[p].at = "load"
    /\ job' = [job EXCEPT ![p].at = "persist"]
    /\ vm' = [vm EXCEPT ![p] = job[p].doc]
    /\ unseen' = [unseen EXCEPT ![p] = {}] /\ swallowed' = [swallowed EXCEPT ![p] = {}]
    /\ UNCHANGED <<doc, base, pending, localTimer, applyTimer, stale, learnerVars, touched>>

\* The load fails, before the VM was cleared for it or after (then it shows none
\* of the cells; that the sprite itself is gone is left out); what is pending is
\* pushed.
ApplyLoadFails(p) ==
    /\ job[p].at = "load"
    /\ trouble < MaxTrouble /\ trouble' = trouble + 1
    /\ job' = [job EXCEPT ![p] = NoJob]
    /\ stale' = stale \cup {p}
    /\ vm' \in {vm, [vm EXCEPT ![p] = [c \in Cells |-> Gone]]}
    /\ Push(p, doc[p], base[p], pending[p])
    /\ UNCHANGED <<localTimer, applyTimer, running, edits, missedVars>>

\* Saved or not, the apply is done: with something pending the snapshot is taken
\* anew, the baseline is the shared sprite, and the push follows at once.
Acknowledged(p) ==
    IF pending[p] = {} THEN vm[p] ELSE [c \in Cells |-> Val(doc[p][c])]

ApplyDone(p) ==
    /\ job[p].at = "persist"
    /\ job' = [job EXCEPT ![p] = NoJob]
    /\ stale' = stale \ {p}
    /\ Push(p, doc[p], Acknowledged(p), IF pending[p] = {} THEN {} ELSE {vm[p]})
    /\ unseen' = [unseen EXCEPT ![p] = {}]
    /\ swallowed' = [swallowed EXCEPT ![p] = IF pending[p] = {} THEN @ \cup unseen[p] ELSE {}]
    /\ UNCHANGED <<vm, localTimer, applyTimer, learnerVars>>

-----------------------------------------------------------------------------
Next ==
    \E p \in Peers :
        \/ \E c \in Cells : Edit(p, c)
        \/ Run(p) \/ Stop(p)
        \/ PushFires(p)
        \/ \E q \in Peers \ {p} : Deliver(p, q)
        \/ ApplyBegins(p) \/ ApplyFlushed(p)
        \/ ApplyLoads(p) \/ ApplyLoadFails(p) \/ ApplyDone(p)

Spec == Init /\ [][Next]_vars

\* Timers fire, updates arrive, and a load or a save that was begun is completed.
\* Nobody has to edit, nor to stop a program that runs.
FairSpec ==
    /\ Spec
    /\ \A p \in Peers :
        /\ WF_vars(PushFires(p)) /\ WF_vars(ApplyBegins(p)) /\ WF_vars(ApplyFlushed(p))
        /\ WF_vars(ApplyLoads(p) \/ ApplyLoadFails(p)) /\ WF_vars(ApplyDone(p))
        /\ \A q \in Peers \ {p} : WF_vars(Deliver(p, q))

-----------------------------------------------------------------------------
Sprites == [Cells -> Values]

TypeOK ==
    /\ doc \in [Peers -> [Cells -> [path : Seq(Peers), val : Nat, gone : BOOLEAN]]]
    /\ vm \in [Peers -> Sprites] /\ base \in [Peers -> Sprites]
    /\ pending \in [Peers -> SUBSET Sprites]
    /\ localTimer \in [Peers -> BOOLEAN] /\ applyTimer \in [Peers -> BOOLEAN]
    /\ job \in [Peers -> [at : {"idle", "flush", "load", "persist"}, doc : Sprites]]
    /\ running \in [Peers -> BOOLEAN]
    /\ edits \in 0..MaxEdits /\ trouble \in 0..MaxTrouble
    /\ unseen \in [Peers -> SUBSET Cells] /\ swallowed \in [Peers -> SUBSET Cells]
    /\ touched \in [Peers -> SUBSET Cells] /\ stale \subseteq Peers

Quiet ==
    /\ \A p, q \in Peers : doc[p] = doc[q]
    /\ \A p \in Peers :
        pending[p] = {} /\ ~localTimer[p] /\ ~applyTimer[p] /\ job[p].at = "idle"

\* When nothing is under way, every screen shows the shared sprite: what was
\* pushed, rebased, deferred or overtaken on the way has ended up the same for
\* all.  Excepted are a peer whose last apply failed, which nothing repeats, and
\* on a learner's own screen the cells whose last edit nothing notes: made during
\* an apply, or taking the sprite back to the baseline.
ScreensAgree ==
    Quiet => \A p \in Peers \ stale : \A c \in Cells \ (unseen[p] \cup swallowed[p]) :
                vm[p][c] = Val(doc[p][c])

\* An edit that waits to be pushed stays on its learner's screen, whatever of
\* others is loaded meanwhile (mergePendingTarget).
PendingOnShow ==
    \A p \in Peers : \A s \in pending[p] : \A c \in Cells \ unseen[p] :
        s[c] # base[p][c] => vm[p][c] = s[c]

\* Peers do not echo one another's updates for ever: with a learner who now and
\* then stops the program, everything comes to rest.
SettlesDown == (\A p \in Peers : []<>~running[p]) => <>[]Quiet

\* A push overwrites only what its learner edited; what arrived from others and
\* was not on screen yet survives it (the comments at collab-session.ts:500 and
\* :1083).
RemoteEditsSurvive ==
    [][\A p \in Peers, c \in Cells :
          Len(doc'[p][c].path) > Len(doc[p][c].path)
              /\ doc'[p][c].path = Append(doc[p][c].path, p)
          => c \in touched[p] \cup unseen[p] \cup swallowed[p]]_vars
=============================================================================
