--------------------------- MODULE StallClockProofs ---------------------------
(* Proofs about StallClock, for any lengths of the waits in the order that  *)
(* the code's constants have.                                               *)
EXTENDS StallClock, TLAPS

USE ClockAssumption DEF ClockAssumption

(* No wait is shorter than the configured one, whoever is in sight.         *)
LEMMA ShortestStall ==
  ASSUME NEW inTopic, NEW seen, NEW near, NEW everSeen
  PROVE  /\ CurrentStall(inTopic, seen, near, everSeen) \in Nat
         /\ CurrentStall(inTopic, seen, near, everSeen) >= Short
         /\ CurrentStall(inTopic, seen, near, everSeen) <= Empty
BY DEF CurrentStall

(* The halves of the types: the project and who is in sight, and the clocks. *)
Sights ==
  /\ phase \in {"receiving", "saving", "failed", "stalled"}
  /\ toEvaluate \in BOOLEAN /\ applying \in {"no", "yes", "changed", "undoing"}
  /\ online \in BOOLEAN /\ joined \in BOOLEAN /\ roster \in BOOLEAN /\ peers \in BOOLEAN
  /\ sawRoster \in BOOLEAN /\ sawPeer \in BOOLEAN /\ busy \in BOOLEAN

Clocks ==
  /\ silent \in 0..Limit /\ alone \in 0..Limit
  /\ stallIn \in 0..Empty \cup {Off}
  /\ lossIn \in 0..Grace \cup {Off}

(* Every event leaves a guest that sees somebody or not, and waits or not.  *)
LEMMA SightsStep == Sights /\ [Next]_vars => Sights'
<1> SUFFICES ASSUME Sights, [Next]_vars PROVE Sights'
  OBVIOUS
<1> USE DEF Sights, project, sights, absence
<1>t. TRUE \in BOOLEAN /\ FALSE \in BOOLEAN
  OBVIOUS
<1>b. AbsenceBegins => busy' \in BOOLEAN
  BY Zenon DEF AbsenceBegins, Saving
<1>p. Progress => phase' \in {"receiving", "saving", "failed", "stalled"}
  BY DEF Progress
<1>n. ASSUME NEW from, NEW news, NotYet(from, news)
      PROVE  /\ phase' \in {"receiving", "saving", "failed", "stalled"}
             /\ UNCHANGED <<sights, absence>>
  BY <1>n DEF NotYet
<1>s. ASSUME NEW news, StartsSave(news)
      PROVE  /\ phase' \in {"receiving", "saving", "failed", "stalled"}
             /\ applying' \in {"no", "yes", "changed", "undoing"}
             /\ busy' = TRUE
             /\ UNCHANGED sights
  BY <1>s DEF StartsSave
<1>1. ASSUME NEW seen \in BOOLEAN, Signaling(seen) PROVE Sights'
  <2>1. sawRoster' \in BOOLEAN
    BY <1>1, Zenon DEF Signaling
  <2> QED BY <1>1, <2>1, Zenon DEF Signaling
<1>2. ASSUME NEW hub \in BOOLEAN, NobodyLeft(hub), roster' \in BOOLEAN PROVE Sights'
  BY <1>2, <1>b, <1>t, Zenon DEF NobodyLeft
<1>3. CASE PeerOpens
  BY <1>3, <1>p, <1>t, Zenon DEF PeerOpens
<1>4. CASE Bytes
  <2>1. applying' \in {"no", "yes", "changed", "undoing"}
    BY <1>4 DEF Bytes
  <2> QED BY <1>4, <1>p, <1>t, <2>1, Zenon DEF Bytes
<1>5. CASE Evaluates \/ SaveOutdated \/ RetrySave
  <2>1. toEvaluate' \in BOOLEAN
    BY <1>5, <1>t, Zenon DEF Evaluates, SaveOutdated, RetrySave
  <2>2. CASE UNCHANGED <<phase, applying, sights, absence>>
    BY <2>1, <2>2, Zenon
  <2>3. CASE \E news \in BOOLEAN : \E from \in {phase, "receiving"} :
               NotYet(from, news) /\ applying' \in {applying, "undoing"}
    <3>1. applying' \in {"no", "yes", "changed", "undoing"}
      BY <2>3
    <3> QED BY <1>n, <2>1, <2>3, <3>1, Zenon
  <2>4. CASE \E news \in BOOLEAN : StartsSave(news)
    BY <1>s, <1>t, <2>1, <2>4, Zenon
  <2> QED BY <1>5, <2>2, <2>3, <2>4 DEF Evaluates, SaveOutdated, RetrySave
<1>6. CASE SaveUndone \/ SaveFails
  <2>1. applying' = "no" /\ phase' \in {"receiving", "saving", "failed", "stalled"}
    BY <1>6 DEF SaveUndone, SaveFails
  <2>2. UNCHANGED <<toEvaluate, sights, absence>>
    BY <1>6 DEF SaveUndone, SaveFails
  <2>3. applying' \in {"no", "yes", "changed", "undoing"}
    BY <2>1
  <2> QED BY <2>1, <2>2, <2>3, Zenon
<1>7. CASE StallDue \/ LossDue
  <2>1. phase' \in {"receiving", "saving", "failed", "stalled"}
    BY <1>7 DEF StallDue, LossDue
  <2> QED BY <1>7, <2>1, Zenon DEF StallDue, LossDue
<1>8. CASE Reconnect \/ SocketLost
  <2>1. phase' \in {"receiving", "saving", "failed", "stalled"}
    BY <1>8 DEF Reconnect, SocketLost
  <2> QED BY <1>8, <1>b, <1>t, <2>1, Zenon DEF Reconnect, SocketLost, Cycle, ForgetEverybody
<1>9. CASE SocketStaysLost
  BY <1>9, <1>b, <1>t, Zenon DEF SocketStaysLost, ForgetEverybody
<1>10. CASE Tick \/ UNCHANGED vars
  <2>1. UNCHANGED <<phase, project, sights, busy>>
    BY <1>10 DEF Tick, vars
  <2> QED BY <2>1
<1> QED BY <1>1, <1>2, <1>3, <1>4, <1>5, <1>6, <1>7, <1>8, <1>9, <1>10, <1>t
        DEF Next, JoinsTopic, RosterFills, PeerCloses, RosterEmpties

(* No timer runs below zero and none is armed for longer than the longest   *)
(* wait.                                                                    *)
LEMMA ClocksStep == Clocks /\ [Next]_vars => Clocks'
<1> SUFFICES ASSUME Clocks, [Next]_vars PROVE Clocks'
  OBVIOUS
<1> USE DEF Clocks, Limit, project, sights, absence
<1>a. ASSUME NEW inTopic, NEW seen, NEW near, NEW everSeen, Arm(inTopic, seen, near, everSeen)
      PROVE  stallIn' \in 0..Empty \cup {Off}
  BY <1>a, ShortestStall DEF Arm
<1>b. AbsenceBegins => alone' \in 0..Limit
  BY DEF AbsenceBegins
<1>1. CASE Tick
  BY <1>1 DEF Tick, Sooner, Later
<1>2. ASSUME NEW seen \in BOOLEAN, Signaling(seen) PROVE Clocks'
  <2>1. CASE seen /\ ~sawRoster
    <3>1. stallIn' \in 0..Empty \cup {Off}
      BY <1>2, <2>1 DEF Signaling, Arm, CurrentStall
    <3> QED BY <1>2, <2>1, <3>1 DEF Signaling
  <2>2. CASE ~(seen /\ ~sawRoster)
    BY <1>2, <2>2 DEF Signaling
  <2> QED BY <2>1, <2>2
<1>3. ASSUME NEW hub \in BOOLEAN, NobodyLeft(hub) PROVE Clocks'
  BY <1>3, <1>b DEF NobodyLeft, AfterLoss
<1>4. CASE PeerOpens
  <2>1. stallIn' \in 0..Empty \cup {Off}
    BY <1>4 DEF PeerOpens, Arm, CurrentStall
  <2> QED BY <1>4, <2>1 DEF PeerOpens, Progress
<1>5. CASE Bytes
  <2>1. stallIn' \in 0..Empty \cup {Off}
    BY <1>5 DEF Bytes, Arm, CurrentStall
  <2> QED BY <1>5, <2>1 DEF Bytes, Progress
<1>6. ASSUME NEW from, NEW news, NotYet(from, news) PROVE Clocks'
  BY <1>6, <1>a DEF NotYet
<1>7. ASSUME NEW news, StartsSave(news) PROVE Clocks'
  BY <1>7, <1>a DEF StartsSave
<1>8. CASE Evaluates \/ SaveOutdated \/ RetrySave
  <2>1. CASE UNCHANGED <<silent, stallIn, lossIn, absence>>
    BY <2>1
  <2> QED BY <1>6, <1>7, <1>8, <2>1 DEF Evaluates, SaveOutdated, RetrySave
<1>9. CASE SaveUndone \/ SaveFails
  BY <1>9 DEF SaveUndone, SaveFails
<1>10. CASE StallDue \/ LossDue
  BY <1>10 DEF StallDue, LossDue
<1>11. CASE Reconnect \/ SocketLost
  <2>1. stallIn' \in 0..Empty \cup {Off}
    BY <1>11 DEF Reconnect, SocketLost, Arm, CurrentStall
  <2>2. silent' = 0 /\ lossIn' = Off /\ AbsenceBegins
    BY <1>11 DEF Reconnect, SocketLost, Cycle, ForgetEverybody
  <2> QED BY <1>b, <2>1, <2>2
<1>12. CASE SocketStaysLost
  BY <1>12, <1>b DEF SocketStaysLost, ForgetEverybody
<1>13. CASE UNCHANGED vars
  BY <1>13 DEF vars
<1> QED BY <1>1, <1>2, <1>3, <1>4, <1>5, <1>8, <1>9, <1>10, <1>11, <1>12, <1>13
        DEF Next, JoinsTopic, RosterFills, PeerCloses, RosterEmpties

(* The types are kept by every step.                                        *)
LEMMA TypeStep == TypeOK /\ [Next]_vars => TypeOK'
<1>1. TypeOK <=> Sights /\ Clocks
  BY Zenon DEF TypeOK, Sights, Clocks
<1>2. TypeOK' <=> Sights' /\ Clocks'
  BY Zenon DEF TypeOK, Sights, Clocks
<1> QED BY <1>1, <1>2, SightsStep, ClocksStep

(* Every variable keeps its type, whatever the lengths of the waits.        *)
THEOREM StallTypeCorrect == Spec => []TypeOK
<1>1. Init => TypeOK
  <2>1. Init => Sights
    <3>1. Init => /\ phase \in {"receiving", "saving", "failed", "stalled"}
                  /\ applying \in {"no", "yes", "changed", "undoing"}
      BY DEF Init
    <3> QED BY <3>1, Zenon DEF Init, Sights
  <2>2. Init => Clocks
    BY DEF Init, Clocks, Limit
  <2> QED BY <2>1, <2>2, Zenon DEF TypeOK, Sights, Clocks
<1> QED BY <1>1, TypeStep, PTL DEF Spec

-----------------------------------------------------------------------------
(* The grace period that runs measures the time without a peer: it is armed *)
(* at the moment the last one goes, runs on through further "nobody left"   *)
(* events, and ends with the first peer that is back or with the connection.*)
GraceMeasured == lossIn # Off => ~peers /\ alone + lossIn = Grace

(* Whoever is or was there since the connection was made has been seen      *)
(* announced.                                                               *)
SightsFit == (roster => sawRoster) /\ (sawPeer => sawRoster) /\ (peers => sawPeer)

(* Nothing arrives from a peer that went, and what it sent is evaluated     *)
(* before the clock moves on.                                               *)
EvaluatesAtOnce == toEvaluate /\ sawPeer /\ ~peers => alone = 0

(* A guest that was receiving when it lost its peer, and has not saved      *)
(* since, is in its grace period until it is told.                          *)
GraceRuns ==
  ~busy /\ sawPeer /\ ~peers
    => /\ phase \in {"receiving", "stalled"} /\ ~Saving
       /\ lossIn # Off \/ (phase = "stalled" /\ ~toEvaluate)

(* Any other that is receiving is in a grace period or will be told by the  *)
(* silence timer.                                                           *)
SilenceRuns ==
  busy /\ sawPeer /\ ~peers /\ phase = "receiving" => lossIn # Off \/ SilenceWillTell

LossInv == GraceMeasured /\ SightsFit /\ EvaluatesAtOnce /\ GraceRuns /\ SilenceRuns

(* A silence timer just armed for Ice will tell ...                         *)
LEMMA IceTells == ASSUME NEW s \in Nat PROVE Ice # Off /\ Ice <= Ice /\ s + Ice >= Ice
OBVIOUS

(* ... and so will one that is a unit further.                              *)
LEMMA TickTells ==
  ASSUME NEW w \in 1..Empty, NEW s \in Nat, NEW t \in Nat, w <= Ice, s + w >= Ice,
         t = s + 1 \/ t >= Ice
  PROVE  w - 1 # Off /\ w - 1 <= Ice /\ t + (w - 1) >= Ice
OBVIOUS

(* Only the sight of a peer, its absence and the timers matter to LossInv.  *)
LEMMA LossQuiet ==
  ASSUME LossInv, UNCHANGED <<phase, silent, stallIn, lossIn, toEvaluate, applying, peers,
                              sawRoster, sawPeer, alone, busy>>,
         roster' => sawRoster
  PROVE  LossInv'
BY DEF LossInv, GraceMeasured, SightsFit, EvaluatesAtOnce, GraceRuns, SilenceRuns,
       SilenceWillTell, Saving

(* With a peer there, or none since the connection was made, there is       *)
(* nothing to tell.                                                         *)
LEMMA LossIdle ==
  ASSUME lossIn' = Off, roster' => sawRoster', sawPeer' => sawRoster' /\ peers',
         peers' => sawPeer'
  PROVE  LossInv'
BY DEF LossInv, GraceMeasured, SightsFit, EvaluatesAtOnce, GraceRuns, SilenceRuns

(* An evaluation, from whatever starts it, that finds nothing to save.      *)
LEMMA LossNotYet ==
  ASSUME TypeOK, LossInv, NEW from, NEW news \in BOOLEAN, NotYet(from, news),
         toEvaluate' \in {FALSE, toEvaluate}, applying' \in {applying, "undoing"},
         lossIn # Off \/ busy \/ peers \/ ~sawPeer
  PROVE  LossInv'
<1> USE DEF LossInv
<1>1. UNCHANGED <<lossIn, sights, absence>>
  BY DEF NotYet
<1>2. GraceMeasured' /\ SightsFit'
  BY <1>1 DEF GraceMeasured, SightsFit, sights, absence
<1>3. EvaluatesAtOnce'
  BY <1>1 DEF EvaluatesAtOnce, sights, absence
<1>4. GraceRuns'
  BY <1>1 DEF GraceRuns, NotYet, Saving, sights, absence
<1>5. SilenceRuns'
  <2> SUFFICES ASSUME busy, sawPeer, ~peers, phase' = "receiving"
               PROVE  SilenceWillTell'
    BY <1>1 DEF SilenceRuns, sights, absence
  <2>1. sawRoster /\ stallIn' = Ice
    BY DEF SightsFit, NotYet, Arm, CurrentStall
  <2>2. silent' \in Nat
    BY DEF NotYet, TypeOK
  <2>3. Ice # Off /\ Ice <= Ice /\ silent' + Ice >= Ice
    BY <2>2, IceTells, Zenon
  <2> QED BY <2>1, <2>3, Zenon DEF SilenceWillTell
<1> QED BY <1>2, <1>3, <1>4, <1>5

(* A save that begins: from now on the absence counts as busy.              *)
LEMMA LossSaving ==
  ASSUME LossInv, NEW news \in BOOLEAN, StartsSave(news), toEvaluate' \in {FALSE, toEvaluate}
  PROVE  LossInv'
<1>1. /\ UNCHANGED <<lossIn, peers, sawRoster, sawPeer, alone>>
      /\ phase' = "saving" /\ busy' = TRUE
  BY DEF StartsSave, sights
<1>2. roster' = roster
  BY DEF StartsSave, sights
<1>3. GraceMeasured' /\ SightsFit'
  BY <1>1, <1>2 DEF LossInv, GraceMeasured, SightsFit
<1>4. EvaluatesAtOnce'
  BY <1>1 DEF LossInv, EvaluatesAtOnce
<1>5. GraceRuns' /\ SilenceRuns'
  BY <1>1 DEF GraceRuns, SilenceRuns
<1> QED BY <1>3, <1>4, <1>5 DEF LossInv

(* Every step keeps the timers in line with the absence they tell of.       *)
LEMMA LossStep == TypeOK /\ LossInv /\ [Next]_vars => LossInv'
<1> SUFFICES ASSUME TypeOK, LossInv, [Next]_vars PROVE LossInv'
  OBVIOUS
<1> USE DEF project, sights, absence
<1>1. CASE Tick
  <2>1. /\ UNCHANGED <<phase, toEvaluate, applying, roster, peers, sawRoster, sawPeer, busy>>
        /\ ~toEvaluate
    BY <1>1 DEF Tick
  <2>2. GraceMeasured'
    <3>1. CASE lossIn = Off
      BY <1>1, <3>1 DEF Tick, Sooner, GraceMeasured
    <3>2. CASE lossIn # Off
      <4>1. /\ lossIn \in 1..Grace /\ ~peers /\ alone + lossIn = Grace
            /\ alone < Limit /\ alone \in Nat
        BY <1>1, <3>2 DEF Tick, Limit, TypeOK, LossInv, GraceMeasured
      <4>2. lossIn' = lossIn - 1 /\ alone' = alone + 1
        BY <1>1, <4>1 DEF Tick, Sooner, Later
      <4> QED BY <2>1, <4>1, <4>2 DEF GraceMeasured
    <3> QED BY <3>1, <3>2
  <2>3. lossIn # Off => lossIn' # Off
    BY <1>1 DEF Tick, Sooner, TypeOK
  <2>4. SilenceWillTell => SilenceWillTell'
    <3> SUFFICES ASSUME SilenceWillTell PROVE SilenceWillTell'
      OBVIOUS
    <3>1. stallIn \in 1..Empty /\ stallIn' = stallIn - 1
      BY <1>1 DEF SilenceWillTell, Tick, Sooner, TypeOK
    <3>2. silent \in Nat /\ silent' \in Nat /\ (silent' = silent + 1 \/ silent' >= Ice)
      BY <1>1 DEF Tick, Later, Limit, TypeOK
    <3>3. stallIn <= Ice /\ silent + stallIn >= Ice
      BY DEF SilenceWillTell
    <3>4. /\ stallIn - 1 # Off /\ stallIn - 1 <= Ice
          /\ silent' + (stallIn - 1) >= Ice
      BY <3>1, <3>2, <3>3, TickTells, Zenon
    <3> QED BY <3>1, <3>4, Zenon DEF SilenceWillTell
  <2>5. GraceRuns' /\ SilenceRuns'
    BY <2>1, <2>3, <2>4 DEF LossInv, GraceRuns, SilenceRuns, Saving
  <2> QED BY <2>1, <2>2, <2>5 DEF LossInv, SightsFit, EvaluatesAtOnce
<1>2. ASSUME NEW seen \in BOOLEAN, Signaling(seen) PROVE LossInv'
  <2>1. CASE sawRoster
    BY <1>2, <2>1, LossQuiet DEF Signaling
  <2>2. CASE ~sawRoster
    <3>1. ~sawPeer /\ ~peers
      BY <2>2 DEF LossInv, SightsFit
    <3> QED BY <1>2, <3>1 DEF Signaling, LossInv, GraceMeasured, SightsFit, EvaluatesAtOnce,
               GraceRuns, SilenceRuns
  <2> QED BY <2>1, <2>2
<1>3. ASSUME NEW hub \in BOOLEAN, NobodyLeft(hub), roster' => roster PROVE LossInv'
  <2>1. CASE peers
    <3>1. /\ sawPeer /\ sawRoster /\ alone' = 0 /\ ~peers'
          /\ busy' = (phase # "receiving" \/ Saving)
          /\ lossIn' = IF phase = "receiving" THEN Grace ELSE Off
          /\ UNCHANGED <<phase, toEvaluate, applying, sawPeer, sawRoster>>
      BY <1>3, <2>1 DEF NobodyLeft, AbsenceBegins, AfterLoss, LossInv, SightsFit, GraceMeasured
    <3>2. GraceMeasured' /\ SightsFit' /\ EvaluatesAtOnce'
      BY <3>1 DEF GraceMeasured, SightsFit, EvaluatesAtOnce
    <3>3. phase = "receiving" => lossIn' # Off
      BY <3>1
    <3>4. ~busy' => phase = "receiving" /\ ~Saving
      BY <3>1
    <3> QED BY <3>1, <3>2, <3>3, <3>4 DEF LossInv, GraceRuns, SilenceRuns, Saving
  <2>2. CASE ~peers
    <3>1. roster' => sawRoster
      BY <1>3 DEF LossInv, SightsFit
    <3>2. UNCHANGED <<phase, silent, stallIn, lossIn, toEvaluate, applying, peers,
                      sawRoster, sawPeer, alone, busy>>
      <4>1. peers' = peers
        BY <1>3, <2>2, Zenon DEF NobodyLeft, TypeOK
      <4> QED BY <1>3, <2>2, <4>1 DEF NobodyLeft, AbsenceBegins
    <3> QED BY <3>1, <3>2, LossQuiet
  <2> QED BY <2>1, <2>2
<1>4. CASE PeerOpens
  <2>1. sawRoster' = sawRoster /\ roster /\ lossIn' = Off /\ peers' /\ sawPeer'
    BY <1>4 DEF PeerOpens
  <2> QED BY <2>1, LossIdle DEF LossInv, SightsFit
<1>5. CASE Bytes
  <2>1. peers /\ peers' /\ UNCHANGED <<lossIn, roster, sawRoster, sawPeer>>
    BY <1>5 DEF Bytes
  <2>2. lossIn' = Off
    BY <2>1 DEF LossInv, GraceMeasured
  <2> QED BY <2>1, <2>2, LossIdle DEF LossInv, SightsFit
<1>6. CASE Evaluates
  <2>1. CASE applying # "no" \/ phase = "failed"
    <3>1. /\ UNCHANGED <<phase, silent, stallIn, lossIn, applying, sights, absence>>
          /\ ~toEvaluate'
      BY <1>6, <2>1 DEF Evaluates
    <3> QED BY <3>1 DEF LossInv, GraceMeasured, SightsFit, EvaluatesAtOnce, GraceRuns,
               SilenceRuns, SilenceWillTell, Saving
  <2>2. ASSUME NEW news \in BOOLEAN, NotYet(phase, news), UNCHANGED applying PROVE LossInv'
    <3>1. lossIn # Off \/ busy \/ peers \/ ~sawPeer
      BY <1>6 DEF Evaluates, LossInv, GraceRuns
    <3>2. toEvaluate' \in {FALSE, toEvaluate} /\ applying' \in {applying, "undoing"}
      BY <1>6, <2>2 DEF Evaluates
    <3> QED BY <2>2, <3>1, <3>2, LossNotYet
  <2>3. ASSUME NEW news \in BOOLEAN, StartsSave(news) PROVE LossInv'
    BY <1>6, <2>3, LossSaving DEF Evaluates
  <2> QED BY <1>6, <2>1, <2>2, <2>3 DEF Evaluates
<1>7. CASE SaveOutdated
  <2>1. ASSUME NEW news \in BOOLEAN, NotYet(phase, news), applying' = "undoing" PROVE LossInv'
    <3>1. lossIn # Off \/ busy \/ peers \/ ~sawPeer
      BY <1>7 DEF SaveOutdated, Saving, LossInv, GraceRuns
    <3>2. toEvaluate' \in {FALSE, toEvaluate} /\ applying' \in {applying, "undoing"}
      BY <1>7, <2>1 DEF SaveOutdated
    <3> QED BY <2>1, <3>1, <3>2, LossNotYet
  <2>2. ASSUME NEW news \in BOOLEAN, StartsSave(news) PROVE LossInv'
    BY <1>7, <2>2, LossSaving DEF SaveOutdated
  <2> QED BY <1>7, <2>1, <2>2 DEF SaveOutdated
<1>8. CASE SaveUndone
  BY <1>8 DEF SaveUndone, LossInv, GraceMeasured, SightsFit, EvaluatesAtOnce, GraceRuns,
     SilenceRuns, SilenceWillTell, Saving
<1>9. CASE SaveFails
  <2>1. busy \/ peers \/ ~sawPeer
    BY <1>9 DEF SaveFails, LossInv, GraceRuns
  <2> QED BY <1>9, <2>1 DEF SaveFails, LossInv, GraceMeasured, SightsFit, EvaluatesAtOnce,
             GraceRuns, SilenceRuns
<1>10. CASE RetrySave
  <2>1. lossIn # Off \/ busy \/ peers \/ ~sawPeer
    BY <1>10 DEF RetrySave, LossInv, GraceRuns
  <2>2. toEvaluate' \in {FALSE, toEvaluate}
    BY <1>10 DEF RetrySave
  <2>3. ASSUME NEW news \in BOOLEAN, NotYet("receiving", news), UNCHANGED applying
        PROVE  LossInv'
    <3>1. applying' \in {applying, "undoing"}
      BY <2>3
    <3> QED BY <2>1, <2>2, <2>3, <3>1, LossNotYet
  <2>4. ASSUME NEW news \in BOOLEAN, StartsSave(news) PROVE LossInv'
    BY <2>2, <2>4, LossSaving
  <2> QED BY <1>10, <2>3, <2>4 DEF RetrySave
<1>11. CASE StallDue
  <2>1. /\ UNCHANGED <<lossIn, toEvaluate, applying, roster, peers, sawRoster, sawPeer, alone,
                       busy>>
        /\ phase' \in {phase, "stalled"}
    BY <1>11 DEF StallDue
  <2>2. ~toEvaluate \/ lossIn # Off \/ busy \/ peers \/ ~sawPeer
    BY DEF LossInv, GraceRuns
  <2>3. SilenceWillTell /\ sawPeer /\ ~peers => phase' = "stalled"
    <3> SUFFICES ASSUME SilenceWillTell, sawPeer, ~peers PROVE phase' = "stalled"
      OBVIOUS
    <3>1. CurrentStall(joined, roster, peers, sawRoster) = Ice
      BY DEF CurrentStall, LossInv, SightsFit
    <3>2. silent >= Ice
      BY <1>11 DEF StallDue, SilenceWillTell, TypeOK, Limit
    <3> QED BY <1>11, <3>1, <3>2 DEF StallDue
  <2>4. GraceRuns'
    BY <2>1, <2>2 DEF LossInv, GraceRuns, Saving
  <2>5. SilenceRuns'
    BY <2>1, <2>3 DEF LossInv, SilenceRuns
  <2> QED BY <2>1, <2>4, <2>5 DEF LossInv, GraceMeasured, SightsFit, EvaluatesAtOnce
<1>12. CASE LossDue
  <2>1. /\ UNCHANGED <<stallIn, silent, toEvaluate, applying, roster, peers, sawRoster, sawPeer,
                       alone, busy>>
        /\ lossIn' = Off
        /\ phase' = IF phase = "receiving" THEN "stalled" ELSE phase
        /\ ~peers /\ alone # 0
    BY <1>12 DEF LossDue, LossInv, GraceMeasured, TypeOK
  <2>2. GraceRuns'
    BY <2>1 DEF LossInv, GraceRuns, EvaluatesAtOnce, Saving
  <2> QED BY <2>1, <2>2 DEF LossInv, GraceMeasured, SightsFit, EvaluatesAtOnce, SilenceRuns
<1>13. CASE Reconnect \/ SocketLost
  <2>1. lossIn' = Off /\ ~roster' /\ ~sawPeer' /\ ~peers'
    BY <1>13 DEF Reconnect, SocketLost, Cycle, ForgetEverybody
  <2> QED BY <2>1, LossIdle
<1>14. CASE SocketStaysLost
  <2>1. /\ lossIn' = Off /\ ~roster' /\ ~peers'
        /\ UNCHANGED <<phase, sawPeer, sawRoster>>
        /\ phase = "failed" \/ ~sawPeer
    BY <1>14 DEF SocketStaysLost, ForgetEverybody
  <2>2. CASE ~sawPeer
    BY <2>1, <2>2, LossIdle
  <2>3. CASE phase = "failed" /\ sawPeer
    <3>1. busy'
      BY <1>14, <2>3 DEF SocketStaysLost, ForgetEverybody, AbsenceBegins, LossInv, GraceRuns
    <3>2. EvaluatesAtOnce'
      BY <1>14, <2>3 DEF SocketStaysLost, ForgetEverybody, AbsenceBegins, LossInv,
         EvaluatesAtOnce
    <3> QED BY <2>1, <2>3, <3>1, <3>2 DEF LossInv, GraceMeasured, SightsFit, GraceRuns,
               SilenceRuns
  <2> QED BY <2>1, <2>2, <2>3
<1>15. CASE UNCHANGED vars
  <2>1. roster' => sawRoster
    BY <1>15 DEF vars, LossInv, SightsFit
  <2>2. UNCHANGED <<phase, silent, stallIn, lossIn, toEvaluate, applying, peers,
                    sawRoster, sawPeer, alone, busy>>
    BY <1>15 DEF vars
  <2> QED BY <2>1, <2>2, LossQuiet
<1>16. CASE JoinsTopic
  BY <1>2, <1>16 DEF JoinsTopic
<1>17. CASE RosterFills
  <2>1. TRUE \in BOOLEAN /\ Signaling(TRUE)
    BY <1>17 DEF RosterFills
  <2> QED BY <1>2, <2>1, Zenon
<1>18. CASE PeerCloses
  <2>1. FALSE \in BOOLEAN /\ NobodyLeft(FALSE) /\ (roster' => roster)
    BY <1>18 DEF PeerCloses
  <2> QED BY <1>3, <2>1, Zenon
<1>19. CASE RosterEmpties
  <2>1. TRUE \in BOOLEAN /\ NobodyLeft(TRUE) /\ (roster' => roster)
    BY <1>19 DEF RosterEmpties
  <2> QED BY <1>3, <2>1, Zenon
<1> QED BY <1>1, <1>4, <1>5, <1>6, <1>7, <1>8, <1>9, <1>10, <1>11, <1>12, <1>13, <1>14,
           <1>15, <1>16, <1>17, <1>18, <1>19 DEF Next

(* The timers are never out of step with the absence of the peer: a grace   *)
(* period that runs measures it to the unit, and a receiving guest without  *)
(* one has a silence timer that will tell.                                  *)
THEOREM GraceIsExact == Spec => [](TypeOK /\ LossInv)
<1>1. Init => LossInv
  BY DEF Init, LossInv, GraceMeasured, SightsFit, EvaluatesAtOnce, GraceRuns, SilenceRuns
<1>2. TypeOK /\ LossInv /\ [Next]_vars => (TypeOK /\ LossInv)'
  BY TypeStep, LossStep
<1> QED BY <1>1, <1>2, StallTypeCorrect, PTL DEF Spec

(* A guest that lost the peer it had is told: within the grace period, or,  *)
(* when it was saving or otherwise not receiving, by a timer that is armed  *)
(* and will do it (maybeArmPeerLossStall, armStallTimer).                   *)
THEOREM LossReported == Spec => []LossIsReported
<1>1. TypeOK /\ LossInv => LossIsReported
  <2> SUFFICES ASSUME TypeOK, LossInv, phase = "receiving", sawPeer, ~peers
               PROVE  IF busy THEN lossIn # Off \/ SilenceWillTell ELSE alone <= Grace
    BY DEF LossIsReported
  <2>1. CASE busy
    BY <2>1 DEF LossInv, SilenceRuns
  <2>2. CASE ~busy
    <3>1. lossIn # Off
      BY <2>2 DEF LossInv, GraceRuns
    <3> QED BY <2>2, <3>1 DEF LossInv, GraceMeasured, TypeOK
  <2> QED BY <2>1, <2>2
<1> QED BY <1>1, GraceIsExact, PTL

(* The step at which a guest is told that nothing comes is one of the two   *)
(* timers falling due, and each has measured what it was armed for.         *)
LEMMA StallsInTime ==
  TypeOK /\ LossInv /\ [Next]_vars
    => [phase # "stalled" /\ phase' = "stalled"
          => silent >= Short \/ (~peers /\ alone >= Grace)]_vars
<1> SUFFICES ASSUME TypeOK, LossInv, [Next]_vars,
                    phase # "stalled", phase' = "stalled"
             PROVE  silent >= Short \/ (~peers /\ alone >= Grace)
  BY DEF vars
<1>1. CASE StallDue
  <2>1. silent >= CurrentStall(joined, roster, peers, sawRoster)
    BY <1>1 DEF StallDue
  <2> QED BY <2>1, ShortestStall DEF TypeOK
<1>2. CASE LossDue
  BY <1>2 DEF LossDue, TypeOK, LossInv, GraceMeasured
<1>3. ASSUME NEW seen \in BOOLEAN, Signaling(seen) PROVE FALSE
  BY <1>3 DEF Signaling
<1>4. ASSUME NEW news \in BOOLEAN,
             NotYet(phase, news) \/ NotYet("receiving", news) \/ StartsSave(news)
      PROVE  FALSE
  BY <1>4 DEF NotYet, StartsSave
<1>5. CASE Evaluates \/ SaveOutdated \/ RetrySave
  BY <1>4, <1>5 DEF Evaluates, SaveOutdated, RetrySave
<1> QED BY <1>1, <1>2, <1>3, <1>5 DEF Next, Tick, JoinsTopic, RosterFills, RosterEmpties,
        PeerOpens, PeerCloses, NobodyLeft, Bytes, SaveUndone, SaveFails, Reconnect, SocketLost,
        SocketStaysLost, Progress, vars

(* Flaps of the peer list shorter than the grace period never stall a guest *)
(* whose silence is shorter than the shortest wait.                         *)
THEOREM FlapsAbsorbed == Spec => FlapsAreAbsorbed
<1> QED BY GraceIsExact, StallsInTime, PTL DEF Spec, FlapsAreAbsorbed
=============================================================================
