------------------------------ MODULE Autosave ------------------------------
(***************************************************************************)
(* A client that saves its edits by itself: packages/project-autosave over *)
(* a save function that asks the server of ProjectService and passes the   *)
(* code of a refusal on, as the package expects.  An edit starts a         *)
(* debounce; the debounce, a retry timer or a flush calls runSave and may  *)
(* find a save in flight, wait for it and go on from there.  Calls that    *)
(* wait for the same save resume in the same turn, one after another.      *)
(*                                                                         *)
(* The network may lose a request or its answer, and what the client gave  *)
(* up may reach the server later.  Edits are numbered: edit e makes        *)
(* document e, so generation and pendingDocument agree.                    *)
(***************************************************************************)
EXTENDS ProjectService, FiniteSets

CONSTANTS
    Calls,         \* bound on the calls of runSave that are under way at once
    NoCall,
    MaxRetries,    \* retryDelaysMs.length
    MaxEdits       \* bound on the edits

ASSUME AutosaveAssumption ==
    /\ NoCall \notin Calls /\ IsFiniteSet(Calls)
    /\ {MaxRetries, MaxEdits} \subseteq Nat
    /\ 0..MaxEdits \subseteq Documents

VARIABLES
    state,       \* SaveState
    disposed,
    generation,  \* the edits made; the last one is pendingDocument
    pending,     \* is there a pendingDocument?
    debounce,    \* is debounceTimer set?
    retry,       \* is retryTimer set?
    inFlight,    \* the call whose save others wait for
    call,        \* each call of runSave: what it does, for whom, what it sent
    active,      \* activeTransactionId and activeGeneration; id 0 for null
    attempts,    \* retryAttempt
    base,        \* baseRevision, as getBaseRevision gives it
    drawn,       \* how many ids idFactory made
    wire         \* requests on their way that no call waits for

clientVars == <<state, disposed, generation, pending, debounce, retry, inFlight,
                call, active, attempts, base, drawn>>
vars == <<clientVars, wire, serviceVars>>

NoActive == [id |-> 0, gen |-> 0]
Nothing == [tx |-> [by |-> "client", id |-> 0], base |-> 0, doc |-> 0, snap |-> 0]
Idle == [at |-> "idle", flush |-> FALSE, on |-> NoCall, sent |-> Nothing, answer |-> 0]

Init ==
    /\ ServiceInit
    /\ state = "clean" /\ disposed = FALSE
    /\ generation = 0 /\ pending = FALSE
    /\ debounce = FALSE /\ retry = FALSE
    /\ inFlight = NoCall /\ call = [c \in Calls |-> Idle]
    /\ active = NoActive /\ attempts = 0 /\ base = 0 /\ drawn = 0
    /\ wire = {}

Waiting(c) == {w \in Calls : call[w].at = "waits" /\ call[w].on = c}
Free == {c \in Calls : call[c].at = "idle"}

-----------------------------------------------------------------------------
(* runSave past its guards, for each call of S in one turn: the first one   *)
(* draws an id unless the pending document has one, all of them send it.    *)
(* (Definitions named Slip* are deliberate mistakes, used by no action.)    *)
SlipIdKeptForNewerEdit(act, gen) == act.id = 0

NeedsId(act, gen) == act.id = 0 \/ act.gen # gen

\* What the calls of S send, given the base revision b and what is active.
Sending(S, cs, act, b) ==
    LET id == IF NeedsId(act, generation) THEN drawn + 1 ELSE act.id
    IN  [c \in Calls |->
            IF c \in S
            THEN [cs[c] EXCEPT !.at = "sent", !.on = NoCall,
                    !.sent = [tx |-> [by |-> "client", id |-> id],
                              base |-> b, doc |-> generation, snap |-> 0]]
            ELSE cs[c]]

Start(S, cs, act, b, tries) ==
    /\ call' = Sending(S, cs, act, b)
    /\ inFlight' = CHOOSE c \in S : TRUE
    /\ state' = "saving"
    /\ IF NeedsId(act, generation)
       THEN /\ active' = [id |-> drawn + 1, gen |-> generation]
            /\ drawn' = drawn + 1
            /\ attempts' = 0
       ELSE active' = act /\ attempts' = tries /\ UNCHANGED drawn

\* runSave called by a timer or by flush.  Calls have no identity: any free
\* one stands for the new one.
RunSave(flush) ==
    /\ Free # {}
    /\ LET c  == CHOOSE f \in Free : TRUE
           cs == [call EXCEPT ![c] = [Idle EXCEPT !.flush = flush]]
       IN  IF inFlight # NoCall
           THEN /\ call' = [cs EXCEPT ![c].at = "waits", ![c].on = inFlight]
                /\ UNCHANGED <<state, inFlight, active, attempts, drawn>>
           ELSE IF pending
                THEN Start({c}, cs, active, base, attempts)
                ELSE UNCHANGED <<state, inFlight, call, active, attempts, drawn>>

DebounceFires ==
    /\ debounce /\ ~disposed
    /\ debounce' = FALSE
    /\ RunSave(FALSE)
    /\ UNCHANGED <<disposed, generation, pending, retry, base, wire, serviceVars>>

RetryFires ==
    /\ retry /\ ~disposed
    /\ retry' = FALSE
    /\ RunSave(FALSE)
    /\ UNCHANGED <<disposed, generation, pending, debounce, base, wire, serviceVars>>

Flush ==
    /\ ~disposed
    /\ debounce' = FALSE
    /\ RunSave(TRUE)
    /\ UNCHANGED <<disposed, generation, pending, retry, base, wire, serviceVars>>

NotifyLocalEdit ==
    /\ ~disposed /\ generation < MaxEdits
    /\ generation' = generation + 1
    /\ pending' = TRUE
    /\ state' = IF state = "saving" THEN state ELSE "dirty"
    /\ debounce' = TRUE
    /\ UNCHANGED <<disposed, retry, inFlight, call, active, attempts, base, drawn,
                   wire, serviceVars>>

\* A call that comes back to a disposed controller ends.
Dispose ==
    /\ ~disposed
    /\ disposed' = TRUE
    /\ pending' = FALSE /\ debounce' = FALSE /\ retry' = FALSE
    /\ active' = NoActive
    /\ UNCHANGED <<state, generation, inFlight, call, attempts, base, drawn,
                   wire, serviceVars>>

-----------------------------------------------------------------------------
(* What follows the end of a save, in the same turn: inFlight is null, and  *)
(* the calls that waited go on if something is left to save -- whatever has *)
(* been started meanwhile.  If nothing waited, a flush goes round again     *)
(* while the state is dirty.  st, pend, act, tries and b are as the end of  *)
(* the save has left them.                                                  *)
GoOn(c, st, pend) ==
    IF ~pend \/ st \in {"clean", "conflict"} THEN {}
    ELSE IF Waiting(c) # {} THEN Waiting(c)
    ELSE IF call[c].flush /\ st = "dirty" THEN {c}
    ELSE {}

Resume(c, st, pend, act, tries, b) ==
    LET on == GoOn(c, st, pend)
        cs == [d \in Calls |-> IF d \in (Waiting(c) \cup {c}) \ on THEN Idle ELSE call[d]]
    IN  IF on = {}
        THEN /\ call' = cs /\ inFlight' = NoCall /\ state' = st
             /\ active' = act /\ attempts' = tries /\ UNCHANGED drawn
        ELSE Start(on, cs, act, b, tries)

(* A flush that goes round clears the debounce the end of the save has set; *)
(* calls that waited leave it.                                              *)
RoundAgain(c, st, pend) == GoOn(c, st, pend) = {c}

\* save resolved: is something newer pending than what was sent?
SlipNothingNewer(c) == FALSE

Newer(c) == generation > call[c].sent.doc /\ pending

Saved(c) ==
    LET st == IF Newer(c) THEN "dirty" ELSE "clean"
    IN  /\ base' = call[c].answer
        /\ pending' = Newer(c)
        /\ debounce' = IF RoundAgain(c, st, Newer(c)) THEN FALSE
                       ELSE debounce \/ Newer(c)
        /\ UNCHANGED retry
        /\ Resume(c, st, Newer(c), NoActive, 0, call[c].answer)

Conflicts(c) ==
    /\ retry' = FALSE
    /\ UNCHANGED <<pending, debounce, base>>
    /\ Resume(c, "conflict", pending, active, attempts, base)

\* Any other error: the retry timer is set while attempts are left.
SlipOneRetryMore == attempts <= MaxRetries

SlipNeverRetries == FALSE

RetriesLeft == attempts < MaxRetries

Fails(c) ==
    /\ retry' = (retry \/ RetriesLeft)
    /\ UNCHANGED <<pending, debounce, base>>
    /\ Resume(c, "error", pending, active,
              IF RetriesLeft THEN attempts + 1 ELSE attempts, base)

\* The end of a save nobody is interested in any more.
Ignored(c) ==
    /\ call' = [d \in Calls |-> IF d \in Waiting(c) \cup {c} THEN Idle ELSE call[d]]
    /\ inFlight' = NoCall
    /\ UNCHANGED <<state, pending, debounce, retry, active, attempts, base, drawn>>

\* A refusal is a conflict.  (The save function of autosave-host.ts loses its code
\* in persist-client.ts: there a refusal ends like a failure, as in Fails.)
Complete(c) ==
    /\ call[c].at = "answered"
    /\ IF disposed THEN Ignored(c)
       ELSE IF call[c].answer = Refused THEN Conflicts(c)
       ELSE Saved(c)
    /\ UNCHANGED <<disposed, generation, wire, serviceVars>>

\* The network fails: the request is lost, or on its way and no longer waited
\* for, or was answered and the answer is lost.
NetworkFails(c) ==
    /\ call[c].at \in {"sent", "answered"}
    /\ FromOutside
    /\ wire' = IF call[c].at = "sent" THEN wire \cup {call[c].sent} ELSE wire
    /\ IF disposed THEN Ignored(c) ELSE Fails(c)
    /\ UNCHANGED <<disposed, generation, revs, metas, blobs, snapping, sweeping, boots>>

-----------------------------------------------------------------------------
Serve(c) ==
    /\ call[c].at = "sent"
    /\ Handle(call[c].sent)
    /\ call' = [call EXCEPT ![c].at = "answered", ![c].answer = AnswerTo(call[c].sent)]
    /\ UNCHANGED <<state, disposed, generation, pending, debounce, retry, inFlight,
                   active, attempts, base, drawn, wire, outside>>

ServeLate(r) ==
    /\ wire' = wire \ {r}
    /\ Handle(r)
    /\ UNCHANGED <<clientVars, outside>>

\* Another client, which has read the head, saves the empty document again or
\* restores a snapshot.
OtherAsks ==
    /\ FromOutside
    /\ \E s \in 0..Len(metas) :
          wire' = wire \cup {[tx |-> [by |-> "other", id |-> outside + 1],
                              base |-> Len(revs), snap |-> s,
                              doc |-> IF s = 0 THEN 0 ELSE metas[s]]}
    /\ UNCHANGED <<clientVars, revs, metas, blobs, snapping, sweeping, boots>>

ServiceStep == ServiceNext /\ UNCHANGED <<clientVars, wire>>

Next ==
    \/ NotifyLocalEdit \/ Flush \/ DebounceFires \/ RetryFires \/ Dispose
    \/ \E c \in Calls : Serve(c) \/ Complete(c) \/ NetworkFails(c)
    \/ \E r \in wire : ServeLate(r)
    \/ OtherAsks \/ ServiceStep

Spec == Init /\ [][Next]_vars

\* Timers fire, and a request that the network does not lose is served and its
\* answer delivered.  Edits, flushes and failures are not forced.
FairSpec ==
    /\ Spec
    /\ WF_vars(DebounceFires) /\ WF_vars(RetryFires)
    /\ \A c \in Calls : WF_vars(Serve(c)) /\ WF_vars(Complete(c))

-----------------------------------------------------------------------------
States == {"clean", "dirty", "saving", "error", "conflict"}

TypeOK ==
    /\ ServiceTypeOK
    /\ state \in States /\ disposed \in BOOLEAN
    /\ generation \in 0..MaxEdits /\ pending \in BOOLEAN
    /\ debounce \in BOOLEAN /\ retry \in BOOLEAN
    /\ inFlight \in Calls \cup {NoCall}
    /\ call \in [Calls -> [at : {"idle", "waits", "sent", "answered"}, flush : BOOLEAN,
                           on : Calls \cup {NoCall}, sent : Requests, answer : Nat]]
    /\ active \in [id : Nat, gen : 0..MaxEdits]
    /\ attempts \in 0..MaxRetries /\ base \in Nat /\ drawn \in Nat
    /\ wire \subseteq Requests

\* The revisions of the server are a history as SaveHistory describes it: the
\* client's edits in their order, none of them twice, none on top of somebody
\* else's (the compare-and-set on head_revision and the transaction lookup).
History == INSTANCE SaveHistory WITH
    made <- generation,
    history <- [i \in DOMAIN revs |-> [by |-> revs[i].tx.by, doc |-> revs[i].doc]]

WritesAreOrdered == History!Spec

\* A client that shows "clean" after an edit has its last edit on the server,
\* even when answers to saves sent twice arrive after newer edits.
CleanMeansSaved ==
    state = "clean" /\ ~disposed /\ generation > 0 =>
        \E i \in DOMAIN revs : revs[i].tx.by = "client" /\ revs[i].doc = generation

\* An id stands for one document, wherever it is: the client is never answered
\* TRANSACTION_PAYLOAD_MISMATCH and a replayed answer is about what was sent.
Known ==
    {[tx |-> revs[i].tx, doc |-> revs[i].doc] : i \in DOMAIN revs}
        \cup {[tx |-> r.tx, doc |-> r.doc] : r \in wire}
        \cup {[tx |-> call[c].sent.tx, doc |-> call[c].sent.doc] : c \in Calls}

IdsNameOneDocument ==
    \A k, l \in Known : k.tx = l.tx /\ k.tx.id # 0 => k.doc = l.doc

\* An edit is not left behind: it is saved, or the client shows a conflict or
\* an error after its last retry, or is disposed of.
Settled ==
    \/ disposed \/ ~pending
    \/ state = "conflict"
    \/ state = "error" /\ attempts = MaxRetries

SaveSettles == pending ~> Settled

\* What invariant 5 of the design asks: while no newer edit has been made, what
\* is sent again for a document carries the id it was first sent with.
RetriesKeepTheirId ==
    \A k, l \in Known :
        k.tx.by = "client" /\ l.tx.by = "client" /\ k.tx.id # 0 /\ l.tx.id # 0
            /\ k.doc = l.doc => k.tx.id = l.tx.id
=============================================================================
