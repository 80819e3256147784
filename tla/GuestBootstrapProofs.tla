------------------------- MODULE GuestBootstrapProofs -------------------------
(***************************************************************************)
(* What the bootstrap guarantees however many edits are made and whatever  *)
(* fails, in any order: a creator at rest offers what it shows; a guest is *)
(* ready only for the latest seal, leaves no stray record, and shows its   *)
(* own project whenever nothing is applied.                                *)
(***************************************************************************)
EXTENDS GuestBootstrap, TLAPS

USE SealAssumption, GuestAssumption DEF SealAssumption

-----------------------------------------------------------------------------
(* The creator's side alone (RollingSeal), for any number of edits of either *)
(* editor and any set of contents that cannot be sealed.                    *)
Kinds == {"edit", "seeding", "sealed"}

(* What the edits of a log are after one more operation.                    *)
LEMMA EditsAppend ==
  ASSUME NEW ops \in Seq(Op), NEW op \in Op
  PROVE  Edits(Append(ops, op)) = op.own
BY DEF Edits

(* The number of edits in a log is within its bound.                        *)
LEMMA EditsType ==
  ASSUME NEW ops \in Seq(Op)
  PROVE  Edits(ops) \in 0..MaxEdits
<1>1. CASE ops = <<>>
  BY <1>1 DEF Edits
<1>2. CASE ops # <<>>
  <2>1. Len(ops) \in 1..Len(ops)
    BY <1>2
  <2>2. ops[Len(ops)] \in Op
    BY <2>1
  <2> QED BY <1>2, <2>2 DEF Edits, Op
<1> QED BY <1>1, <1>2

(* A checkpoint just written is the last one.                               *)
LEMMA LastOfAppend ==
  ASSUME NEW ops \in Seq(Op), NEW op \in Op, op.kind # "edit"
  PROVE  LastCheckpoint(Append(ops, op)) = op
<1> DEFINE longer == Append(ops, op)
           at == {i \in DOMAIN longer : longer[i].kind # "edit"}
           n == Len(ops) + 1
<1>1. /\ n \in DOMAIN longer
      /\ longer[n] = op
      /\ DOMAIN longer = 1..n
  OBVIOUS
<1>2. n \in at
  BY <1>1
<1>3. \A j \in at : j \in Nat /\ j <= n
  BY <1>1
<1> DEFINE last == CHOOSE i \in at : \A j \in at : j <= i
<1>4. last \in at /\ \A j \in at : j <= last
  BY <1>2, <1>3
<1>5. last = n
  BY <1>2, <1>3, <1>4
<1>6. LastCheckpoint(longer) = IF at = {} THEN [kind |-> "none", own |-> 0, peer |-> 0]
                               ELSE longer[last]
  BY DEF LastCheckpoint
<1> HIDE DEF last, at
<1> QED BY <1>1, <1>2, <1>5, <1>6

(* What Write appends.                                                      *)
Written(kind) == [kind |-> kind, own |-> Edits(log), peer |-> hostPeer]

(* Writing a checkpoint keeps the edits and makes it the last one.          *)
LEMMA WriteTypes ==
  ASSUME SealTypeOK, NEW kind \in Kinds, Write(kind)
  PROVE  /\ Written(kind) \in Op
         /\ log' \in Seq(Op)
         /\ Edits(log') = Edits(log)
         /\ kind # "edit" => LastCheckpoint(log') = Written(kind)
<1>1. Edits(log) \in 0..MaxEdits
  BY EditsType DEF SealTypeOK
<1>2. hostPeer \in 0..MaxPeerEdits
  BY DEF SealTypeOK
<1>3. Written(kind) \in Op
  BY <1>1, <1>2 DEF Written, Op, Kinds
<1>4. log' = Append(log, Written(kind)) /\ log \in Seq(Op)
  BY DEF Write, Written, SealTypeOK
<1>5. Edits(log') = Edits(log)
  BY <1>3, <1>4, EditsAppend DEF Written
<1>6. kind # "edit" => LastCheckpoint(log') = Written(kind)
  BY <1>3, <1>4, LastOfAppend DEF Written
<1> QED BY <1>3, <1>4, <1>5, <1>6

-----------------------------------------------------------------------------
(* Types hold when the room opens ...                                       *)
LEMMA SealTypesInit == ASSUME SealInit PROVE SealTypeOK
<1>1. [kind |-> "seeding", own |-> 0, peer |-> 0] \in Op
  BY DEF Op
<1>2. [kind |-> "sealed", own |-> 0, peer |-> 0] \in Op
  BY DEF Op
<1>3. log \in Seq(Op)
  BY <1>1, <1>2 DEF SealInit
<1>4. /\ peerEdits \in 0..MaxPeerEdits
      /\ hostPeer \in 0..peerEdits
  BY DEF SealInit
<1>5. sealTimer \in BOOLEAN /\ hostActive \in BOOLEAN /\ sealing \in {"no", "current", "superseded"}
  BY DEF SealInit
<1> QED BY <1>3, <1>4, <1>5 DEF SealTypeOK

(* ... and every step keeps them.                                           *)
LEMMA SealTypesStep ==
  ASSUME SealTypeOK, [SealNext]_sealVars
  PROVE  SealTypeOK'
<1>0. /\ log \in Seq(Op) /\ peerEdits \in 0..MaxPeerEdits /\ hostPeer \in 0..peerEdits
      /\ peerEdits \in Nat /\ hostPeer \in Nat
  BY DEF SealTypeOK
<1>1. CASE HostEdits
  <2>1. Edits(log) \in 0..MaxEdits
    BY EditsType, <1>0
  <2>2. [kind |-> "edit", own |-> Edits(log) + 1, peer |-> hostPeer] \in Op
    BY <1>0, <1>1, <2>1 DEF HostEdits, Op
  <2>3. log' \in Seq(Op)
    BY <1>0, <1>1, <2>2 DEF HostEdits
  <2> QED BY <1>1, <2>3 DEF HostEdits, SealTypeOK
<1>2. CASE PeerEdits
  BY <1>0, <1>2 DEF PeerEdits, SealTypeOK
<1>3. CASE HostHears
  BY <1>0, <1>3 DEF HostHears, SealTypeOK
<1>4. CASE SealStarts
  <2>1. log' \in Seq(Op)
    BY <1>4, WriteTypes DEF SealStarts, Kinds
  <2> QED BY <1>4, <2>1 DEF SealStarts, SealTypeOK
<1>5. CASE SealEnds
  <2>1. log' \in Seq(Op)
    BY <1>0, <1>5, WriteTypes DEF SealEnds, Kinds
  <2> QED BY <1>5, <2>1 DEF SealEnds, SealTypeOK
<1>6. CASE HostLeaves
  BY <1>6 DEF HostLeaves, SealTypeOK
<1>7. CASE UNCHANGED sealVars
  BY <1>7 DEF sealVars, SealTypeOK
<1> QED BY <1>1, <1>2, <1>3, <1>4, <1>5, <1>6, <1>7 DEF SealNext

(* RollingSeal keeps its types: every operation in the log counts edits     *)
(* that were made, and the creator never has an edit that was not.          *)
THEOREM SealTypes == SealSpec => []SealTypeOK
<1>1. SealInit => SealTypeOK
  BY SealTypesInit
<1>2. SealTypeOK /\ [SealNext]_sealVars => SealTypeOK'
  BY SealTypesStep
<1> QED BY <1>1, <1>2, PTL DEF SealSpec

-----------------------------------------------------------------------------
(* OfferIsCurrent is not inductive: it says nothing while a seal is under   *)
(* way.  There, the last checkpoint is the "seeding" that seal wrote, and a *)
(* seal that was overtaken has a successor scheduled.                       *)
UnderWay ==
  sealing # "no" => hostActive /\ LastCheckpoint(log).kind = "seeding"

Overtaken == sealing = "superseded" => sealTimer

OfferInv == SealTypeOK /\ UnderWay /\ Overtaken /\ OfferIsCurrent

(* The room opens with a seal of everything ...                             *)
LEMMA OfferInit == ASSUME SealInit PROVE UnderWay /\ Overtaken /\ OfferIsCurrent
<1> DEFINE first == [kind |-> "seeding", own |-> 0, peer |-> 0]
           second == [kind |-> "sealed", own |-> 0, peer |-> 0]
<1>1. first \in Op /\ second \in Op
  BY DEF Op
<1>2. log = Append(<<first>>, second) /\ <<first>> \in Seq(Op)
  BY <1>1 DEF SealInit
<1>3. LastCheckpoint(log) = second
  <2> HIDE DEF first
  <2> QED BY <1>1, <1>2, LastOfAppend
<1>4. Edits(log) = 0
  <2> HIDE DEF first
  <2> QED BY <1>1, <1>2, EditsAppend
<1>5. OfferCovers
  BY <1>3, <1>4 DEF OfferCovers, HostContent, SealInit
<1> QED BY <1>5 DEF UnderWay, Overtaken, OfferIsCurrent, SealInit

(* ... and no step leaves it behind.                                        *)
LEMMA OfferStep ==
  ASSUME OfferInv, [SealNext]_sealVars
  PROVE  (UnderWay /\ Overtaken /\ OfferIsCurrent)'
<1>1. CASE HostEdits
  BY <1>1 DEF HostEdits, UnderWay, Overtaken, OfferIsCurrent
<1>2. CASE PeerEdits
  BY <1>2 DEF PeerEdits, OfferInv, UnderWay, Overtaken, OfferIsCurrent, OfferCovers, HostContent
<1>3. CASE HostHears
  BY <1>3 DEF HostHears, OfferInv, UnderWay, Overtaken, OfferIsCurrent
<1>4. CASE SealStarts
  <2>1. LastCheckpoint(log') = Written("seeding")
    BY <1>4, WriteTypes DEF SealStarts, OfferInv, Kinds
  <2> QED BY <1>4, <2>1 DEF SealStarts, Written, UnderWay, Overtaken, OfferIsCurrent
<1>5. CASE SealEnds
  <2>1. CASE MaySeal
    <3>1. LastCheckpoint(log') = Written("sealed") /\ Edits(log') = Edits(log)
      BY <1>5, <2>1, WriteTypes DEF SealEnds, OfferInv, Kinds
    <3>2. OfferCovers'
      BY <1>5, <3>1 DEF SealEnds, OfferCovers, HostContent, Written
    <3> QED BY <1>5, <3>2 DEF SealEnds, UnderWay, Overtaken, OfferIsCurrent
  <2>2. CASE ~MaySeal /\ sealing = "current"
    <3>1. HostContent' \in Unsealable /\ LastCheckpoint(log').kind = "seeding"
      BY <1>5, <2>2 DEF SealEnds, MaySeal, HostContent, OfferInv, UnderWay
    <3> QED BY <1>5, <3>1 DEF SealEnds, UnderWay, Overtaken, OfferIsCurrent, OfferCovers
  <2>3. CASE sealing = "superseded"
    BY <1>5, <2>3 DEF SealEnds, OfferInv, UnderWay, Overtaken, OfferIsCurrent
  <2> QED BY <1>5, <2>1, <2>2, <2>3 DEF SealEnds, OfferInv, SealTypeOK
<1>6. CASE HostLeaves
  BY <1>6 DEF HostLeaves, UnderWay, Overtaken, OfferIsCurrent
<1>7. CASE UNCHANGED sealVars
  BY <1>7 DEF sealVars, OfferInv, UnderWay, Overtaken, OfferIsCurrent, OfferCovers, HostContent
<1> QED BY <1>1, <1>2, <1>3, <1>4, <1>5, <1>6, <1>7 DEF SealNext

(* No room ever rests on an outdated offer.                                 *)
THEOREM OfferStaysCurrent == SealSpec => []OfferIsCurrent
<1>1. SealInit => UnderWay /\ Overtaken /\ OfferIsCurrent
  BY OfferInit
<1>2. SealTypeOK /\ (UnderWay /\ Overtaken /\ OfferIsCurrent) /\ [SealNext]_sealVars
        => (UnderWay /\ Overtaken /\ OfferIsCurrent)'
  BY OfferStep DEF OfferInv
<1>3. SealSpec => []SealTypeOK
  BY SealTypes
<1> QED BY <1>1, <1>2, <1>3, PTL DEF SealSpec

-----------------------------------------------------------------------------
(* The guest.                                                               *)
(* Types.                                                                   *)

Jobs == [at : {"idle", "flush", "load", "persist", "remove", "restore",
               "delete", "reload"},
         update : BOOLEAN, next : Contents, prev : Contents, failed : BOOLEAN]

(* A prefix of the creator's log does not change when the log grows.        *)
LEMMA PrefixStays ==
  ASSUME NEW ops \in Seq(Op), NEW op, NEW n \in 0..Len(ops)
  PROVE  SubSeq(Append(ops, op), 1, n) = SubSeq(ops, 1, n)
OBVIOUS

(* What a guest sees of the log is a log, and its content a content.        *)
LEMMA StagingType ==
  ASSUME TypeOK
  PROVE  Seen \in Seq(Op) /\ Staging \in Content /\ Staging \in Contents
<1>1. /\ log \in Seq(Op) /\ got \in 0..Len(log)
      /\ gotPeer \in 0..peerEdits /\ peerEdits \in 0..MaxPeerEdits
  BY DEF TypeOK, SealTypeOK
<1>2. Seen \in Seq(Op)
  BY <1>1 DEF Seen
<1>3. Edits(Seen) \in 0..MaxEdits
  BY <1>2, EditsType
<1>4. gotPeer \in 0..MaxPeerEdits
  BY <1>1 DEF SealAssumption
<1>5. Staging \in Content
  BY <1>3, <1>4 DEF Staging, Content
<1> QED BY <1>2, <1>5 DEF Contents

(* The creator's steps only lengthen the log and the list of edits.         *)
LEMMA CreatorGrows ==
  ASSUME TypeOK, SealNext, UNCHANGED <<got, gotPeer>>
  PROVE  /\ SealTypeOK'
         /\ got \in 0..Len(log') /\ gotPeer \in 0..peerEdits'
         /\ Seen' = Seen /\ Staging' = Staging
<1>1. SealTypeOK /\ got \in 0..Len(log) /\ gotPeer \in 0..peerEdits
  BY DEF TypeOK
<1>2. SealTypeOK'
  BY <1>1, SealTypesStep
<1>3. log' = log \/ \E op : log' = Append(log, op)
  BY DEF SealNext, HostEdits, PeerEdits, HostHears, SealStarts, SealEnds, HostLeaves, Write
<1>4. log \in Seq(Op) /\ Len(log) \in Nat
  BY <1>1 DEF SealTypeOK
<1>5. got \in 0..Len(log') /\ SubSeq(log', 1, got) = SubSeq(log, 1, got)
  BY <1>1, <1>3, <1>4, PrefixStays
<1>6. peerEdits' = peerEdits \/ peerEdits' = peerEdits + 1
  BY DEF SealNext, HostEdits, PeerEdits, HostHears, SealStarts, SealEnds, HostLeaves
<1>7. gotPeer \in 0..peerEdits'
  BY <1>1, <1>2, <1>6 DEF SealTypeOK, SealAssumption
<1> QED BY <1>2, <1>5, <1>7 DEF Seen, Staging

(* A new job, and an old one at another await, are jobs.                    *)
LEMMA JobTypes ==
  ASSUME TypeOK
  PROVE  /\ Idle \in Jobs /\ job \in Jobs
         /\ \A u \in BOOLEAN, c \in Contents :
              [Idle EXCEPT !.at = "flush", !.update = u, !.next = c] \in Jobs
         /\ \A to \in {"load", "persist", "remove", "restore", "delete", "reload"} :
              [job EXCEPT !.at = to] \in Jobs
         /\ \A c \in Contents : [job EXCEPT !.at = "load", !.prev = c] \in Jobs
         /\ \A f \in BOOLEAN : [job EXCEPT !.at = "restore", !.failed = f] \in Jobs
BY DEF TypeOK, Idle, Jobs, Contents

(* Over every link, a timer that is armed is a timer.                       *)
LEMMA ArmedTypes ==
  ASSUME NEW l \in {"joining", "up", "gap", "down"}
  PROVE  Armed(l) \subseteq StallTimers /\ "off" \in StallTimers /\ "off" \notin Armed(l)
BY DEF Armed, StallTimers

(* The pieces of an evaluation keep their types.                            *)
LEMMA EvaluateTypes ==
  ASSUME TypeOK, NEW from \in Phases, Evaluate(from)
  PROVE  phase' \in Phases /\ stallTimer' \in StallTimers /\ changed' \in BOOLEAN /\ job' \in Jobs
<1>1. /\ applied \in BOOLEAN /\ stallTimer \in StallTimers /\ changed \in BOOLEAN
      /\ Armed(link) \subseteq StallTimers /\ "off" \in StallTimers
  BY ArmedTypes DEF TypeOK
<1>2. CASE Verdict(Seen, Staging) = "ready"
  <2>1. /\ phase' = "saving" /\ changed' = FALSE /\ stallTimer' \in {stallTimer} \cup Armed(link)
        /\ job' = [Idle EXCEPT !.at = "flush", !.update = applied, !.next = Staging]
    BY <1>2 DEF Evaluate
  <2>2. job' \in Jobs
    BY <1>1, <2>1, StagingType, JobTypes
  <2> QED BY <1>1, <2>1, <2>2 DEF Phases
<1>3. CASE Verdict(Seen, Staging) = "invalid"
  BY <1>1, <1>3, JobTypes DEF Evaluate, EnterInvalid, Phases
<1>4. CASE Verdict(Seen, Staging) \notin {"ready", "invalid"}
  BY <1>1, <1>4, JobTypes DEF Evaluate, NotYet, AfterProgress, Phases
<1> QED BY <1>2, <1>3, <1>4

(* A rollback keeps the types.                                              *)
LEMMA RollBackTypes ==
  ASSUME TypeOK, NEW tentative \in BOOLEAN, RollBack(tentative)
  PROVE  applied' \in BOOLEAN /\ slot' \in BOOLEAN /\ job' \in Jobs /\ changed' \in BOOLEAN
BY JobTypes DEF RollBack, TypeOK

(* What the catch clause assigns has its type.                              *)
LEMMA ThrowsTypes ==
  ASSUME TypeOK, Throws
  PROVE  /\ phase' \in Phases /\ stallTimer' \in StallTimers /\ changed' \in BOOLEAN
         /\ job' \in Jobs /\ applied' \in BOOLEAN /\ slot' \in BOOLEAN
<1>1. CASE ~active \/ phase = "invalid"
  BY <1>1, RollBackTypes DEF Throws, TypeOK
<1>2. CASE ~(~active \/ phase = "invalid")
  BY <1>2, JobTypes DEF Throws, JobEnds, TypeOK, Phases
<1> QED BY <1>1, <1>2

(* What follows a commit has its type.                                      *)
LEMMA CommittedTypes ==
  ASSUME TypeOK, Committed
  PROVE  /\ phase' \in Phases /\ stallTimer' \in StallTimers /\ changed' \in BOOLEAN
         /\ job' \in Jobs /\ applied' \in BOOLEAN /\ slot' \in BOOLEAN
<1>1. /\ phase \in Phases /\ stallTimer \in StallTimers
      /\ Armed(link) \subseteq StallTimers /\ "off" \in StallTimers
  BY ArmedTypes DEF TypeOK
<1>2. CASE phase = "invalid"
  BY <1>1, <1>2, RollBackTypes DEF Committed
<1>3. CASE phase # "invalid" /\ ~changed
  BY <1>1, <1>3, JobTypes DEF Committed, JobEnds, Phases
<1>4. CASE phase # "invalid" /\ changed
  <2>1. CASE Verdict(Seen, Staging) = "ready"
    BY <1>1, <1>4, <2>1, JobTypes, StagingType DEF Committed, Phases
  <2>2. CASE Verdict(Seen, Staging) = "invalid"
    BY <1>1, <1>4, <2>2, RollBackTypes DEF Committed, EnterInvalid, Phases
  <2>3. CASE Verdict(Seen, Staging) \notin {"ready", "invalid"}
    BY <1>1, <1>4, <2>3, RollBackTypes DEF Committed, NotYet, AfterProgress, Phases
  <2> QED BY <2>1, <2>2, <2>3
<1> QED BY <1>2, <1>3, <1>4 DEF TypeOK

(* What TypeOK says of the guest.                                           *)
GuestTypeOK ==
  /\ active \in BOOLEAN
  /\ phase \in Phases
  /\ applied \in BOOLEAN /\ changed \in BOOLEAN
  /\ evalTimer \in BOOLEAN
  /\ stallTimer \in StallTimers
  /\ link \in {"joining", "up", "gap", "down"} /\ lossTimer \in BOOLEAN
  /\ got \in 0..Len(log) /\ gotPeer \in 0..peerEdits
  /\ job \in Jobs
  /\ leaving \in {"no", "delete", "reload"}
  /\ vm \in Contents
  /\ current \in [is : {"mine", "copy"}, content : Contents]
  /\ disk \in [mine : Contents, copy : Contents \cup {Absent}]
  /\ slot \in BOOLEAN
  /\ trouble \in 0..MaxTrouble

(* TypeOK is what RollingSeal says of the creator and this of the guest.    *)
LEMMA TypesSplit == TypeOK <=> SealTypeOK /\ GuestTypeOK
BY DEF TypeOK, GuestTypeOK, Jobs

(* A guest's own step leaves the creator's variables alone.                 *)
LEMMA SealTypesKept ==
  ASSUME TypeOK, UNCHANGED sealVars
  PROVE  SealTypeOK' /\ log' = log /\ peerEdits' = peerEdits
BY DEF sealVars, TypeOK, SealTypeOK

(* The initial values have their types.                                     *)
LEMMA TypesInit == ASSUME Init PROVE TypeOK
<1>1. SealTypeOK
  BY SealTypesInit DEF Init
<1>2. GuestTypeOK
  <2>1. got \in 0..Len(log) /\ gotPeer \in 0..peerEdits
    BY DEF Init, GuestInit, SealInit
  <2>2. Mine \in Contents /\ Idle \in Jobs
    BY DEF Contents, Idle, Jobs
  <2>3. /\ current \in [is : {"mine", "copy"}, content : Contents]
        /\ disk \in [mine : Contents, copy : Contents \cup {Absent}]
        /\ trouble \in 0..MaxTrouble
    BY <2>2 DEF Init, GuestInit, MineOpen, GuestAssumption
  <2> QED BY <2>1, <2>2, <2>3 DEF Init, GuestInit, GuestTypeOK, Phases, StallTimers
<1> QED BY <1>1, <1>2, TypesSplit

(* Every step keeps the types.                                              *)
LEMMA TypesStep == ASSUME TypeOK, [Next]_vars PROVE TypeOK'
<1> USE DEF netVars, localVars
<1>0. GuestTypeOK /\ SealTypeOK
  BY TypesSplit
<1>s. ASSUME UNCHANGED sealVars, GuestTypeOK' PROVE TypeOK'
  BY <1>s, SealTypesKept DEF TypeOK, GuestTypeOK, Jobs
<1>k. UNCHANGED sealVars => log' = log /\ peerEdits' = peerEdits
  BY DEF sealVars
<1>m. Mine \in Contents /\ Wrecked \in Contents /\ MineOpen \in [is : {"mine", "copy"}, content : Contents]
  BY DEF Contents, MineOpen
<1>j. job.next \in Contents /\ job.prev \in Contents /\ job.update \in BOOLEAN
  BY <1>0 DEF GuestTypeOK, Jobs
<1>f. Fault => trouble' \in 0..MaxTrouble
  BY <1>0 DEF Fault, GuestTypeOK, GuestAssumption
<1>a. /\ Armed(link) \subseteq StallTimers /\ Armed("up") \subseteq StallTimers
      /\ Armed("down") \subseteq StallTimers /\ Armed("joining") \subseteq StallTimers
      /\ "off" \in StallTimers
  BY <1>0, ArmedTypes DEF GuestTypeOK
<1>p. /\ Progress(link) => phase' \in Phases /\ stallTimer' \in StallTimers
      /\ Progress("up") => phase' \in Phases /\ stallTimer' \in StallTimers
      /\ AfterProgress(phase) \in Phases
  <2>1. AfterProgress(phase) \in Phases
    BY <1>0 DEF AfterProgress, GuestTypeOK, Phases
  <2> QED BY <1>a, <2>1 DEF Progress
<1>c. Commits => /\ phase' \in Phases /\ stallTimer' \in StallTimers /\ changed' \in BOOLEAN
                 /\ job' \in Jobs /\ applied' \in BOOLEAN /\ slot' \in BOOLEAN
                 /\ current' \in [is : {"mine", "copy"}, content : Contents]
  BY <1>j, CommittedTypes DEF Commits, Copy
<1>1. CASE CreatorSteps \/ CreatorLeaves
  <2>1. SealNext /\ UNCHANGED <<got, gotPeer>>
    BY <1>1 DEF CreatorSteps, CreatorLeaves, LinkKeeps, SealNext, guestVars
  <2>2. SealTypeOK' /\ got' \in 0..Len(log') /\ gotPeer' \in 0..peerEdits'
    BY <2>1, CreatorGrows
  <2>3. CASE CreatorSteps
    BY <1>0, <2>2, <2>3 DEF CreatorSteps, guestVars, GuestTypeOK, TypeOK, Jobs
  <2>4. CASE CreatorLeaves
    <3>1. link' \in {"joining", "up", "gap", "down"} /\ lossTimer' \in BOOLEAN
      BY <1>0, <2>4 DEF CreatorLeaves, PeerGone, GuestTypeOK
    <3> QED BY <1>0, <2>2, <2>4, <3>1 DEF CreatorLeaves, LinkKeeps, GuestTypeOK, TypeOK, Jobs
  <2> QED BY <1>1, <2>3, <2>4
<1>2. CASE HearCreator
  BY <1>0, <1>2, <1>k, <1>p, <1>s DEF HearCreator, StagingChanged, GuestTypeOK, SealTypeOK
<1>3. CASE HearPeer
  BY <1>0, <1>3, <1>k, <1>p, <1>s DEF HearPeer, StagingChanged, GuestTypeOK, SealTypeOK, SealAssumption
<1>4. CASE HearInvalid
  <2>1. phase' \in Phases /\ stallTimer' \in StallTimers
    BY <1>4, <1>a DEF HearInvalid, EnterInvalid, Phases
  <2>2. trouble' \in 0..MaxTrouble
    BY <1>4, <1>f DEF HearInvalid, Fault
  <2> QED BY <1>0, <1>4, <2>1, <2>2, <1>k, <1>s DEF HearInvalid, GuestTypeOK
<1>5. CASE LinkOpens
  BY <1>0, <1>5, <1>k, <1>p, <1>s DEF LinkOpens, GuestTypeOK
<1>6. CASE LinkDrops \/ FrameLost
  <2>1. link' \in {"joining", "up", "gap", "down"} /\ lossTimer' \in BOOLEAN
    BY <1>0, <1>6 DEF LinkDrops, FrameLost, PeerGone, GuestTypeOK
  <2>2. trouble' \in 0..MaxTrouble
    BY <1>0, <1>6 DEF LinkDrops, FrameLost, GuestTypeOK, GuestAssumption
  <2> QED BY <1>0, <1>6, <2>1, <2>2, <1>k, <1>s DEF LinkDrops, FrameLost, LinkKeeps, GuestTypeOK
<1>7. CASE SocketLost
  <2>1. stallTimer' \in StallTimers
    BY <1>7, <1>a DEF SocketLost, Cycle
  <2>2. phase' \in Phases /\ trouble' \in 0..MaxTrouble
    BY <1>0, <1>7, <1>p DEF SocketLost, GuestTypeOK, GuestAssumption
  <2> QED BY <1>0, <1>7, <2>1, <2>2, <1>k, <1>s DEF SocketLost, Cycle, GuestTypeOK
<1>8. CASE EvalFires
  <2>1. /\ phase' \in Phases /\ stallTimer' \in StallTimers
        /\ changed' \in BOOLEAN /\ job' \in Jobs
    BY <1>0, <1>8, EvaluateTypes DEF EvalFires, GuestTypeOK
  <2> QED BY <1>0, <1>8, <2>1, <1>k, <1>s DEF EvalFires, GuestTypeOK
<1>9. CASE StallFires
  <2>1. phase' \in Phases
    BY <1>0, <1>9 DEF StallFires, GuestTypeOK, Phases
  <2>2. /\ stallTimer' \in StallTimers
        /\ UNCHANGED <<active, applied, changed, evalTimer, netVars, job, leaving,
                       localVars, trouble, sealVars>>
    BY <1>9, <1>a DEF StallFires
  <2>3. GuestTypeOK'
    BY <1>0, <2>1, <2>2, <1>k DEF GuestTypeOK
  <2> QED BY <2>2, <2>3, <1>s
<1>10. CASE PeerLossFires
  BY <1>0, <1>10, <1>k, <1>s DEF PeerLossFires, GuestTypeOK, Phases
<1>11. CASE Reconnect
  <2>1. stallTimer' \in StallTimers
    BY <1>11, <1>a DEF Reconnect, Cycle
  <2> QED BY <1>0, <1>11, <2>1, <1>k, <1>s DEF Reconnect, Cycle, GuestTypeOK, Phases
<1>12. CASE RetrySave
  <2>1. /\ phase' \in Phases /\ stallTimer' \in StallTimers
        /\ changed' \in BOOLEAN /\ job' \in Jobs
    BY <1>12, EvaluateTypes DEF RetrySave, Phases
  <2> QED BY <1>0, <1>12, <2>1, <1>k, <1>s DEF RetrySave, GuestTypeOK
<1>13. CASE Leave
  BY <1>0, <1>13, <1>a, <1>k, <1>s DEF Leave, GuestTypeOK, Phases
<1>14. CASE LeavingDeletes
  BY <1>0, <1>14, <1>k, <1>s DEF LeavingDeletes, LeavingKeeps, GuestTypeOK
<1>15. CASE LeavingReloads
  BY <1>0, <1>15, <1>k, <1>m, <1>s DEF LeavingReloads, LeavingKeeps, GuestTypeOK
<1>16. CASE EditorSaves
  BY <1>0, <1>16, <1>k, <1>s DEF EditorSaves, GuestTypeOK
<1>17. CASE JobFlushes
  <2>1. /\ disk' \in [mine : Contents, copy : Contents \cup {Absent}]
        /\ current' \in [is : {"mine", "copy"}, content : Contents]
        /\ trouble' \in 0..MaxTrouble
    BY <1>0, <1>17, <1>f DEF JobFlushes, GuestTypeOK
  <2>2. current'.content \in Contents
    BY <2>1
  <2>3. changed' \in BOOLEAN /\ job' \in Jobs
    <3>1. CASE active
      <4>1. job' = [job EXCEPT !.at = "load", !.prev = current'.content] /\ changed' = changed
        BY <1>17, <3>1 DEF JobFlushes
      <4>2. changed' \in BOOLEAN
        BY <1>0, <4>1 DEF GuestTypeOK
      <4> QED BY <2>2, <4>1, <4>2, JobTypes
    <3>2. CASE ~active
      BY <1>0, <1>17, <3>2, JobTypes DEF JobFlushes, JobEnds, GuestTypeOK
    <3> QED BY <3>1, <3>2
  <2> QED BY <1>0, <1>17, <2>1, <2>3, <1>k, <1>s DEF JobFlushes, JobKeeps, GuestTypeOK
<1>18. CASE JobLoads
  <2>1. changed' \in BOOLEAN /\ job' \in Jobs
    BY <1>0, <1>18, JobTypes DEF JobLoads, Goes, GuestTypeOK
  <2> QED BY <1>0, <1>18, <2>1, <1>j, <1>k, <1>s DEF JobLoads, JobKeeps, GuestTypeOK
<1>19. CASE JobLoadFails
  <2>1. /\ phase' \in Phases /\ stallTimer' \in StallTimers /\ changed' \in BOOLEAN
        /\ job' \in Jobs /\ applied' \in BOOLEAN /\ slot' \in BOOLEAN
    BY <1>0, <1>19, ThrowsTypes, JobTypes DEF JobLoadFails, GuestTypeOK
  <2> QED BY <1>0, <1>19, <2>1, <1>f, <1>m, <1>k, <1>s DEF JobLoadFails, JobKeeps, GuestTypeOK
<1>20. CASE JobPersists
  <2>1. /\ phase' \in Phases /\ stallTimer' \in StallTimers /\ changed' \in BOOLEAN
        /\ job' \in Jobs /\ applied' \in BOOLEAN /\ slot' \in BOOLEAN
        /\ current' \in [is : {"mine", "copy"}, content : Contents]
    <3>1. CASE active
      BY <1>0, <1>20, <3>1, <1>c DEF JobPersists
    <3>2. CASE ~active
      BY <1>0, <1>20, <3>2, JobTypes DEF JobPersists, Goes, GuestTypeOK
    <3> QED BY <3>1, <3>2
  <2> QED BY <1>0, <1>20, <2>1, <1>j, <1>k, <1>s DEF JobPersists, JobKeeps, GuestTypeOK
<1>21. CASE JobPersistFails
  <2>1. /\ phase' \in Phases /\ stallTimer' \in StallTimers /\ changed' \in BOOLEAN
        /\ job' \in Jobs /\ applied' \in BOOLEAN /\ slot' \in BOOLEAN
        /\ current' \in [is : {"mine", "copy"}, content : Contents]
    <3>1. CASE job.update /\ active
      BY <1>0, <1>21, <3>1, <1>c DEF JobPersistFails
    <3>2. CASE ~(job.update /\ active)
      BY <1>0, <1>21, <3>2, <1>j, JobTypes DEF JobPersistFails, GuestTypeOK
    <3> QED BY <3>1, <3>2
  <2> QED BY <1>0, <1>21, <2>1, <1>f, <1>k, <1>s DEF JobPersistFails, JobKeeps, GuestTypeOK
<1>22. CASE JobRemoves \/ JobDeletes
  <2>1. changed' \in BOOLEAN /\ job' \in Jobs
    BY <1>0, <1>22, JobTypes DEF JobRemoves, JobDeletes, Goes, GuestTypeOK
  <2> QED BY <1>0, <1>22, <2>1, <1>k, <1>s DEF JobRemoves, JobDeletes, JobKeeps, GuestTypeOK
<1>23. CASE JobRestores
  <2>1. /\ phase' \in Phases /\ stallTimer' \in StallTimers /\ changed' \in BOOLEAN
        /\ job' \in Jobs /\ applied' \in BOOLEAN /\ slot' \in BOOLEAN
    BY <1>0, <1>23, ThrowsTypes, JobTypes DEF JobRestores, JobEnds, GuestTypeOK
  <2> QED BY <1>0, <1>23, <2>1, <1>j, <1>k, <1>s DEF JobRestores, JobKeeps, GuestTypeOK
<1>24. CASE JobReloads
  <2>1. changed' \in BOOLEAN /\ job' \in Jobs
    BY <1>24, JobTypes DEF JobReloads, JobEnds
  <2> QED BY <1>0, <1>24, <2>1, <1>m, <1>k, <1>s DEF JobReloads, JobKeeps, GuestTypeOK
<1>25. CASE UNCHANGED vars
  BY <1>0, <1>25, <1>k, <1>s DEF vars, guestVars, GuestTypeOK
<1> QED BY <1>1, <1>2, <1>3, <1>4, <1>5, <1>6, <1>7, <1>8, <1>9, <1>10, <1>11, <1>12,
           <1>13, <1>14, <1>15, <1>16, <1>17, <1>18, <1>19, <1>20, <1>21, <1>22,
           <1>23, <1>24, <1>25 DEF Next, JobSteps

(* Every variable of a bootstrap keeps its type.                            *)
THEOREM GuestTypes == Spec => []TypeOK
<1>1. Init => TypeOK
  BY TypesInit
<1>2. TypeOK /\ [Next]_vars => TypeOK'
  BY TypesStep
<1> QED BY <1>1, <1>2, PTL DEF Spec
-----------------------------------------------------------------------------
(* What the job and the rollback of leave() leave behind them.              *)

Applying == job.at \in {"flush", "load", "persist", "restore"}
Undoing  == job.at \in {"delete", "reload"}

(* Only a guest that left has the rollback of leave() running, and only one *)
(* that did not has a slot.                                                 *)
OneUndo ==
  /\ active => leaving = "no"
  /\ slot => active /\ applied /\ ~ready
  /\ Undoing => ~slot /\ leaving = "no"
  /\ applied => active
  /\ active /\ applied /\ ~ready => slot
  /\ ready => active /\ applied /\ job = Idle

(* In the room, the open project is the copy when it is applied, and the    *)
(* guest's own when it is not.                                              *)
OpenIsApplied ==
  /\ active /\ ~Undoing => (applied <=> current.is = "copy")
  /\ Undoing => ~applied

(* An apply is an update of an applied copy, and never outlives it unless   *)
(* the guest leaves.                                                        *)
JobsMode ==
  /\ active /\ job.at \in {"flush", "load", "persist"} => job.update = applied
  /\ job.at = "restore" /\ active => ~job.update /\ ~applied
  /\ job.at = "remove" => ~active /\ ~job.update
  /\ (Applying /\ ~job.update) \/ job.at = "remove" => current.is = "mine" /\ leaving = "no"
  /\ Applying /\ job.update /\ ~active /\ leaving = "no" => current.is = "mine"

(* The copy is on disk when it is open, but for the middle of an undo.      *)
Books ==
  /\ job.at \notin {"remove", "reload"} /\ leaving # "reload"
       => (disk.copy # Absent <=> current.is = "copy")
  /\ job.at = "reload" \/ leaving = "reload" => disk.copy = Absent

(* While nothing is applied, the VM shows the guest's own project, or can   *)
(* be put back to it.                                                       *)
VmIsMine ==
  /\ active /\ ~applied /\ job.at \in {"idle", "flush", "load", "persist", "restore"} => current = MineOpen
  /\ active /\ ~applied /\ job.at \in {"idle", "flush", "load"} => vm = Mine
  /\ active /\ ~applied /\ job.at \in {"load", "persist", "restore"} => job.prev = Mine
  /\ active /\ job.at = "persist" => vm = job.next
  /\ ready => current = Copy(vm)

PlaceInv == OneUndo /\ OpenIsApplied /\ JobsMode /\ Books /\ VmIsMine

(* A guest that just joined has its own project, and nothing runs.          *)
LEMMA PlaceInit == ASSUME Init PROVE PlaceInv
BY DEF Init, GuestInit, Idle, MineOpen, PlaceInv, OneUndo, OpenIsApplied, JobsMode, Books,
       VmIsMine, Applying, Undoing, ready

(* Steps that change neither a place nor who is where.                      *)
LEMMA PlaceQuiet ==
  ASSUME PlaceInv, UNCHANGED <<active, applied, slot, leaving, job, localVars>>, ready' = ready
  PROVE  PlaceInv'
BY DEF PlaceInv, OneUndo, OpenIsApplied, JobsMode, Books, VmIsMine, Applying, Undoing,
       localVars, Copy, MineOpen

(* What is written to disk is there.                                        *)
LEMMA OnDisk ==
  ASSUME TypeOK
  PROVE  vm # Absent /\ job.next # Absent
BY DEF TypeOK, Contents

(* An evaluation starts a job of the right mode, or none.                   *)
LEMMA PlaceEvaluate ==
  ASSUME TypeOK, PlaceInv, NEW from \in Phases, ~ready, active, job.at = "idle", Evaluate(from),
         UNCHANGED <<active, applied, leaving, localVars>>
  PROVE  PlaceInv'
<1>1. ~ready' /\ (job' = job \/ job' = [Idle EXCEPT !.at = "flush", !.update = applied, !.next = Staging])
  BY DEF Evaluate, EnterInvalid, NotYet, ready
<1> USE DEF PlaceInv, OneUndo, OpenIsApplied, JobsMode, Books, VmIsMine, Applying, Undoing,
            localVars, Copy, MineOpen, Idle
<1>2. CASE job' = job
  BY <1>1, <1>2
<1>3. CASE job' = [Idle EXCEPT !.at = "flush", !.update = applied, !.next = Staging]
  BY <1>1, <1>3 DEF TypeOK
<1> QED BY <1>1, <1>2, <1>3

(* Leaving, at whatever await the job is.                                   *)
LEMMA PlaceLeave == ASSUME TypeOK, PlaceInv, Leave PROVE PlaceInv'
<1>1. /\ active /\ ~active' /\ ~applied' /\ ~slot' /\ ~ready'
      /\ leaving' = IF applied /\ ~ready /\ slot THEN "delete" ELSE leaving
      /\ UNCHANGED <<job, vm, current, disk>>
  BY DEF Leave, ready
<1> USE DEF PlaceInv, OneUndo, OpenIsApplied, JobsMode, Books, VmIsMine, Applying, Undoing
<1>2. OneUndo' /\ OpenIsApplied'
  BY <1>1
<1>3. JobsMode'
  BY <1>1 DEF Idle
<1>4. Books' /\ VmIsMine'
  BY <1>1
<1> QED BY <1>2, <1>3, <1>4

(* The two steps of the undo that leave() starts, and the learner's saves.  *)
LEMMA PlaceLeft ==
  ASSUME TypeOK, PlaceInv, LeavingDeletes \/ LeavingReloads \/ EditorSaves
  PROVE  PlaceInv'
<1> USE DEF PlaceInv, OneUndo, OpenIsApplied, JobsMode, Books, VmIsMine, Applying, Undoing
<1>1. CASE LeavingDeletes
  <2>1. ~active /\ leaving = "delete" /\ leaving' = "reload" /\ disk'.copy = Absent
        /\ UNCHANGED <<active, applied, slot, job, vm, current, ready>>
    BY <1>1 DEF LeavingDeletes, LeavingKeeps, TypeOK, ready
  <2> QED BY <2>1
<1>2. CASE LeavingReloads
  <2>1. ~active /\ leaving = "reload" /\ leaving' = "no" /\ current'.is = "mine"
        /\ UNCHANGED <<active, applied, slot, job, disk, ready>>
    BY <1>2 DEF LeavingReloads, LeavingKeeps, MineOpen, TypeOK, ready
  <2> QED BY <2>1
<1>3. CASE EditorSaves
  <2>1. /\ ~active /\ job = Idle /\ leaving = "no"
        /\ UNCHANGED <<active, applied, slot, job, leaving, ready>>
    BY <1>3 DEF EditorSaves, Settled, ready
  <2>2. current'.is = current.is
    BY <1>3 DEF EditorSaves, TypeOK
  <2>3. disk'.copy # Absent <=> disk.copy # Absent
    BY <1>3, OnDisk DEF EditorSaves, TypeOK
  <2> QED BY <2>1, <2>2, <2>3 DEF Idle
<1> QED BY <1>1, <1>2, <1>3

(* The flush before an apply writes what the VM shows where it belongs.     *)
LEMMA PlaceFlush == ASSUME TypeOK, PlaceInv, JobFlushes PROVE PlaceInv'
<1>1. /\ job.at = "flush"
      /\ UNCHANGED <<active, applied, slot, leaving, vm, ready>>
  BY DEF JobFlushes, At, JobKeeps, ready
<1>2. /\ current'.is = current.is
      /\ current' = current \/ current'.content = vm
  BY DEF JobFlushes, TypeOK
<1>3. disk'.copy # Absent <=> disk.copy # Absent
  BY OnDisk DEF JobFlushes, FlushTakes, TypeOK
<1>4. current = MineOpen /\ vm = Mine => current' = MineOpen
  BY <1>2 DEF JobFlushes, MineOpen, TypeOK
<1> USE DEF PlaceInv, OneUndo, OpenIsApplied, JobsMode, Books, VmIsMine, Applying, Undoing
<1>5. CASE active
  <2>1. /\ job'.at = "load" /\ job'.update = job.update /\ job'.prev = current'.content
    BY <1>5 DEF JobFlushes, TypeOK
  <2>2. job # Idle
    BY <1>1 DEF Idle
  <2> QED BY <1>1, <1>2, <1>3, <1>4, <1>5, <2>1, <2>2 DEF MineOpen
<1>6. CASE ~active
  BY <1>1, <1>2, <1>3, <1>6 DEF JobFlushes, JobEnds, Idle
<1> QED BY <1>5, <1>6

(* An apply that throws in the room is undone if the creator's document was *)
(* refused meanwhile, and stays as it is otherwise.                         *)
LEMMA PlaceThrows ==
  ASSUME TypeOK, PlaceInv, Applying, Throws,
         UNCHANGED <<active, leaving, current, disk>>,
         active /\ ~applied => vm' = Mine
  PROVE  PlaceInv'
<1> USE DEF PlaceInv, OneUndo, OpenIsApplied, JobsMode, Books, VmIsMine, Applying, Undoing
<1>1. job # Idle
  BY DEF Idle
<1>2. CASE ~active \/ phase = "invalid"
  <2>1. ~applied' /\ ~slot' /\ ~ready'
    BY <1>1, <1>2 DEF Throws, RollBack, ready
  <2>2. CASE slot
    <3>1. job'.at = "delete"
      BY <1>2, <2>2 DEF Throws, RollBack, TypeOK
    <3> QED BY <1>1, <2>1, <2>2, <3>1
  <2>3. CASE ~slot
    <3>1. job' = Idle
      BY <1>2, <2>3 DEF Throws, RollBack
    <3> QED BY <1>1, <2>1, <2>3, <3>1 DEF Idle
  <2> QED BY <2>2, <2>3
<1>3. CASE ~(~active \/ phase = "invalid")
  <2>1. job' = Idle /\ ~ready' /\ UNCHANGED <<applied, slot>>
    BY <1>3 DEF Throws, JobEnds, ready
  <2> QED BY <1>1, <1>3, <2>1 DEF Idle
<1> QED BY <1>2, <1>3

(* Loading the received project into the VM.                                *)
LEMMA PlaceLoad == ASSUME TypeOK, PlaceInv, JobLoads \/ JobLoadFails PROVE PlaceInv'
<1>1. job.at = "load" /\ job # Idle
  BY DEF JobLoads, JobLoadFails, At, Idle
<1>2. UNCHANGED <<active, leaving, current, disk>>
  BY DEF JobLoads, JobLoadFails, JobKeeps
<1>t. job \in [at : {"idle", "flush", "load", "persist", "remove", "restore", "delete", "reload"},
             update : BOOLEAN, next : Contents, prev : Contents, failed : BOOLEAN]
  BY DEF TypeOK
<1> USE DEF PlaceInv, OneUndo, OpenIsApplied, JobsMode, Books, VmIsMine, Applying, Undoing
<1>3. CASE JobLoads
  <2>1. /\ job'.at = (IF active THEN "persist" ELSE "restore") /\ vm' = job'.next
        /\ job'.update = job.update /\ job'.prev = job.prev
        /\ UNCHANGED <<applied, slot, ready>>
    BY <1>3 DEF JobLoads, Goes, TypeOK, ready
  <2> QED BY <1>1, <1>2, <2>1
<1>4. CASE JobLoadFails
  <2>1. CASE job.update
    BY <1>1, <1>2, <1>4, <2>1, PlaceThrows DEF JobLoadFails
  <2>2. CASE ~job.update
    <3>1. /\ job' = [job EXCEPT !.at = "restore", !.failed = TRUE]
          /\ UNCHANGED <<applied, slot, ready>>
      BY <1>4, <2>2 DEF JobLoadFails, ready
    <3>2. job'.at = "restore" /\ job'.update = job.update /\ job'.prev = job.prev
      BY <1>t, <3>1
    <3> QED BY <1>1, <1>2, <2>2, <3>1, <3>2
  <2> QED BY <2>1, <2>2
<1> QED BY <1>3, <1>4

(* What follows a committed apply, with the copy on disk and open.          *)
LEMMA PlaceCommits ==
  ASSUME TypeOK, PlaceInv, job.at = "persist", active, Commits, disk'.copy # Absent,
         UNCHANGED <<active, leaving, vm>>
  PROVE  PlaceInv'
<1> USE DEF PlaceInv, OneUndo, OpenIsApplied, JobsMode, Books, VmIsMine, Applying, Undoing
<1>1. job # Idle /\ leaving = "no" /\ vm = job.next
  BY DEF Idle
<1>2. current' = Copy(job.next) /\ current'.is = "copy" /\ Committed
  BY DEF Commits, Copy
<1>u. ASSUME RollBack(TRUE), ~ready' PROVE PlaceInv'
  <2>1. job'.at = "delete" /\ ~applied' /\ ~slot'
    BY <1>u DEF RollBack, TypeOK
  <2> QED BY <1>1, <1>2, <1>u, <2>1
<1>3. CASE phase = "invalid"
  BY <1>2, <1>3, <1>u DEF Committed, ready
<1>4. CASE phase # "invalid" /\ ~changed
  <2>1. ready' /\ applied' /\ ~slot' /\ job' = Idle
    BY <1>2, <1>4 DEF Committed, JobEnds, ready
  <2> QED BY <1>1, <1>2, <2>1 DEF Idle
<1>5. CASE phase # "invalid" /\ changed
  <2>1. CASE Verdict(Seen, Staging) = "ready"
    <3>1. /\ ~ready' /\ applied' /\ slot'
          /\ job' = [Idle EXCEPT !.at = "flush", !.update = TRUE, !.next = Staging]
      BY <1>2, <1>5, <2>1 DEF Committed, ready
    <3>2. job'.at = "flush" /\ job'.update
      BY <3>1 DEF Idle
    <3> QED BY <1>1, <1>2, <3>1, <3>2
  <2>2. CASE Verdict(Seen, Staging) = "invalid"
    BY <1>2, <1>5, <2>2, <1>u DEF Committed, EnterInvalid, ready
  <2>3. CASE Verdict(Seen, Staging) \notin {"ready", "invalid"}
    BY <1>2, <1>5, <2>3, <1>u DEF Committed, NotYet, AfterProgress, ready
  <2> QED BY <2>1, <2>2, <2>3
<1> QED BY <1>3, <1>4, <1>5

(* Writing the received copy.                                               *)
LEMMA PlacePersist == ASSUME TypeOK, PlaceInv, JobPersists \/ JobPersistFails PROVE PlaceInv'
<1>1. job.at = "persist" /\ UNCHANGED <<active, leaving, vm>> /\ job # Idle
  BY DEF JobPersists, JobPersistFails, At, JobKeeps, Idle
<1>2. CASE JobPersists
  <2>1. disk'.copy # Absent
    BY <1>2, OnDisk DEF JobPersists, TypeOK
  <2>2. CASE active
    BY <1>1, <1>2, <2>1, <2>2, PlaceCommits DEF JobPersists
  <2>3. CASE ~active
    <3>1. /\ job'.at = (IF job.update THEN "restore" ELSE "remove")
          /\ job'.update = job.update
          /\ UNCHANGED <<applied, slot, current, ready>>
      BY <1>2, <2>3 DEF JobPersists, Goes, TypeOK, ready
    <3>2. job.update => disk.copy # Absent
      BY <1>2 DEF JobPersists, PersistTakes
    <3> QED BY <1>1, <2>1, <2>3, <3>1, <3>2
        DEF PlaceInv, OneUndo, OpenIsApplied, JobsMode, Books, VmIsMine, Applying, Undoing
  <2> QED BY <2>2, <2>3
<1>3. CASE JobPersistFails
  <2>1. disk' = disk
    BY <1>3 DEF JobPersistFails
  <2>2. CASE job.update /\ active
    <3>1. disk.copy # Absent
      BY <1>1, <2>2 DEF PlaceInv, OneUndo, OpenIsApplied, JobsMode, Books, Undoing
    <3> QED BY <1>1, <1>3, <2>1, <2>2, <3>1, PlaceCommits DEF JobPersistFails
  <2>3. CASE ~(job.update /\ active)
    <3>1. /\ job'.at = "restore" /\ job'.update = job.update /\ job'.prev = job.prev
          /\ UNCHANGED <<applied, slot, current, ready>>
      BY <1>3, <2>3 DEF JobPersistFails, TypeOK, ready
    <3> QED BY <1>1, <2>1, <2>3, <3>1
        DEF PlaceInv, OneUndo, OpenIsApplied, JobsMode, Books, VmIsMine, Applying, Undoing
  <2> QED BY <2>2, <2>3
<1> QED BY <1>2, <1>3

(* Putting back what was there before.                                      *)
LEMMA PlaceUndo ==
  ASSUME TypeOK, PlaceInv, JobRemoves \/ JobRestores \/ JobDeletes \/ JobReloads
  PROVE  PlaceInv'
<1> USE DEF PlaceInv, OneUndo, OpenIsApplied, JobsMode, Books, VmIsMine, Applying, Undoing
<1>1. CASE JobRemoves
  <2>1. /\ job.at = "remove" /\ job'.at = "restore" /\ job'.update = job.update
        /\ disk'.copy = Absent
        /\ UNCHANGED <<active, applied, slot, leaving, vm, current, ready>>
    BY <1>1 DEF JobRemoves, At, Goes, JobKeeps, TypeOK, ready
  <2>2. job # Idle
    BY <2>1 DEF Idle
  <2> QED BY <2>1, <2>2
<1>2. CASE JobRestores
  <2>1. /\ job.at = "restore" /\ vm' = job.prev
        /\ UNCHANGED <<active, leaving, current, disk>>
    BY <1>2 DEF JobRestores, At, JobKeeps
  <2>2. CASE job.failed
    BY <1>2, <2>1, <2>2, PlaceThrows DEF JobRestores
  <2>3. CASE ~job.failed
    <3>1. job' = Idle /\ UNCHANGED <<applied, slot, ready>>
      BY <1>2, <2>3 DEF JobRestores, JobEnds, ready
    <3>2. job # Idle
      BY <2>1 DEF Idle
    <3> QED BY <2>1, <3>1, <3>2 DEF Idle
  <2> QED BY <2>2, <2>3
<1>3. CASE JobDeletes
  <2>1. /\ job.at = "delete" /\ job'.at = "reload" /\ disk'.copy = Absent
        /\ UNCHANGED <<active, applied, slot, leaving, vm, current, ready>>
    BY <1>3 DEF JobDeletes, At, Goes, JobKeeps, TypeOK, ready
  <2>2. job # Idle
    BY <2>1 DEF Idle
  <2> QED BY <2>1, <2>2
<1>4. CASE JobReloads
  <2>1. /\ job.at = "reload" /\ job' = Idle /\ vm' = Mine /\ current' = MineOpen
        /\ UNCHANGED <<active, applied, slot, leaving, disk, ready>>
    BY <1>4 DEF JobReloads, At, JobEnds, JobKeeps, ready
  <2>2. job # Idle
    BY <2>1 DEF Idle
  <2> QED BY <2>1, <2>2 DEF Idle, MineOpen
<1> QED BY <1>1, <1>2, <1>3, <1>4

(* Every step keeps both ends in step.                                      *)
LEMMA PlaceStep == ASSUME TypeOK, PlaceInv, [Next]_vars PROVE PlaceInv'
<1> USE DEF netVars, localVars
<1>q. ASSUME UNCHANGED <<active, applied, slot, leaving, job, vm, current, disk>>, ready' = ready
      PROVE PlaceInv'
  BY <1>q, PlaceQuiet
<1>1. CASE CreatorSteps \/ CreatorLeaves
  BY <1>1, <1>q DEF CreatorSteps, CreatorLeaves, LinkKeeps, guestVars, ready
<1>2. CASE HearCreator \/ HearPeer
  BY <1>2, <1>q DEF HearCreator, HearPeer, StagingChanged, Listening, Progress, AfterProgress, ready
<1>3. CASE HearInvalid
  BY <1>3, <1>q DEF HearInvalid, Listening, EnterInvalid, ready
<1>4. CASE LinkOpens
  BY <1>4, <1>q DEF LinkOpens, Progress, AfterProgress, ready
<1>5. CASE LinkDrops \/ FrameLost
  BY <1>5, <1>q DEF LinkDrops, FrameLost, LinkKeeps, ready
<1>6. CASE SocketLost \/ Reconnect
  BY <1>6, <1>q DEF SocketLost, Reconnect, Cycle, AfterProgress, ready
<1>7. CASE StallFires \/ PeerLossFires
  BY <1>7, <1>q DEF StallFires, PeerLossFires, ready
<1>8. CASE EvalFires
  <2>1. CASE ready \/ job.at # "idle" \/ phase \in {"invalid", "save-failed"}
    BY <1>8, <2>1, <1>q DEF EvalFires, ready
  <2>2. CASE ~(ready \/ job.at # "idle" \/ phase \in {"invalid", "save-failed"})
    BY <1>8, <2>2, PlaceEvaluate DEF EvalFires, TypeOK, ready
  <2> QED BY <2>1, <2>2
<1>9. CASE RetrySave
  BY <1>9, PlaceEvaluate DEF RetrySave, Phases, ready, Idle
<1>10. CASE UNCHANGED vars
  BY <1>10, <1>q DEF vars, guestVars, ready
<1>11. CASE Leave
  BY <1>11, PlaceLeave
<1>12. CASE LeavingDeletes \/ LeavingReloads \/ EditorSaves
  BY <1>12, PlaceLeft
<1>13. CASE JobFlushes
  BY <1>13, PlaceFlush
<1>14. CASE JobLoads \/ JobLoadFails
  BY <1>14, PlaceLoad
<1>15. CASE JobPersists \/ JobPersistFails
  BY <1>15, PlacePersist
<1>16. CASE JobRemoves \/ JobRestores \/ JobDeletes \/ JobReloads
  BY <1>16, PlaceUndo
<1> QED BY <1>1, <1>2, <1>3, <1>4, <1>5, <1>6, <1>7, <1>8, <1>9, <1>10, <1>11, <1>12,
           <1>13, <1>14, <1>15, <1>16 DEF Next, JobSteps

(* Nothing running leaves no stray record, and the right project on show.   *)
THEOREM GuestLeavesNoStrayCopy == Spec => []NoStrayCopy
<1>1. Init => TypeOK /\ PlaceInv
  BY TypesInit, PlaceInit
<1>2. TypeOK /\ PlaceInv /\ [Next]_vars => TypeOK' /\ PlaceInv'
  BY TypesStep, PlaceStep
<1>3. PlaceInv => NoStrayCopy
  BY DEF PlaceInv, Books, NoStrayCopy, Settled, Idle
<1> QED BY <1>1, <1>2, <1>3, PTL DEF Spec

(* In the room and with nothing running, the VM shows the open project.     *)
THEOREM GuestShowsOpenProject == Spec => []VmShowsOpenProject
<1>1. Init => TypeOK /\ PlaceInv
  BY TypesInit, PlaceInit
<1>2. TypeOK /\ PlaceInv /\ [Next]_vars => TypeOK' /\ PlaceInv'
  BY TypesStep, PlaceStep
<1>3. PlaceInv => VmShowsOpenProject
  BY DEF PlaceInv, VmIsMine, VmShowsOpenProject, Settled, Idle
<1> QED BY <1>1, <1>2, <1>3, PTL DEF Spec

(* Only leaving ends a guest's membership.                                  *)
LEMMA OnlyLeaveLeaves == ASSUME [Next]_vars, active, ~active' PROVE Leave
BY DEF Next, JobSteps, vars, guestVars, CreatorSteps, CreatorLeaves, HearCreator, HearPeer,
       StagingChanged, HearInvalid, LinkOpens, LinkDrops, FrameLost, LinkKeeps, SocketLost,
       Cycle, EvalFires, StallFires, PeerLossFires, Reconnect, RetrySave, LeavingDeletes,
       LeavingReloads, LeavingKeeps, EditorSaves, JobFlushes, JobLoads, JobLoadFails,
       JobPersists, JobPersistFails, JobRemoves, JobRestores, JobDeletes, JobReloads, JobKeeps

(* Leaving before ready undoes what was applied.                            *)
THEOREM GuestLeavingUndoes == Spec => LeavingUndoes
<1> DEFINE Undoes == active /\ ~active' /\ ~ready /\ current.is = "copy"
                       => leaving' = "delete" \/ job.at \in {"delete", "reload"}
<1>1. Init => TypeOK /\ PlaceInv
  BY TypesInit, PlaceInit
<1>2. TypeOK /\ PlaceInv /\ [Next]_vars => TypeOK' /\ PlaceInv'
  BY TypesStep, PlaceStep
<1>3. PlaceInv /\ [Next]_vars => [Undoes]_vars
  BY OnlyLeaveLeaves DEF PlaceInv, OneUndo, OpenIsApplied, Undoing, Leave
<1> QED BY <1>1, <1>2, <1>3, PTL DEF Spec, LeavingUndoes

-----------------------------------------------------------------------------
(* What the job carries.                                                    *)

(* A job that nothing arrived for since it was validated carries exactly    *)
(* what the staging document shows, and that is sealed.                     *)
JobIsFresh ==
  active /\ job.at \in {"flush", "load", "persist"} /\ ~changed /\ phase # "invalid"
    => job.next = Staging /\ Verdict(Seen, Staging) = "ready"

(* Nothing runs at first.                                                   *)
LEMMA FreshInit == ASSUME Init PROVE JobIsFresh
BY DEF Init, GuestInit, Idle, JobIsFresh

(* A step that brings nothing and leaves the job where it is.               *)
LEMMA FreshQuiet ==
  ASSUME JobIsFresh, UNCHANGED <<active, job, changed>>, Seen' = Seen, Staging' = Staging,
         phase = "invalid" => phase' = "invalid"
  PROVE  JobIsFresh'
BY DEF JobIsFresh, Verdict

(* An evaluation of the staging document starts a fresh job or none.        *)
LEMMA FreshEvaluate ==
  ASSUME TypeOK, NEW from \in Phases, job.at = "idle", Evaluate(from), UNCHANGED <<log, got, gotPeer>>
  PROVE  JobIsFresh'
<1>1. Seen' = Seen /\ Staging' = Staging
  BY DEF Seen, Staging
<1>2. CASE Verdict(Seen, Staging) = "ready"
  <2>1. job'.next = Staging
    BY <1>2 DEF Evaluate, Idle
  <2> QED BY <1>1, <1>2, <2>1 DEF JobIsFresh, Verdict
<1>3. CASE Verdict(Seen, Staging) # "ready"
  BY <1>3 DEF Evaluate, JobIsFresh
<1> QED BY <1>2, <1>3

(* What follows a committed apply is ready, fresh or an undo.               *)
LEMMA FreshCommitted ==
  ASSUME TypeOK, Committed, UNCHANGED <<log, got, gotPeer>>
  PROVE  JobIsFresh'
<1>1. Seen' = Seen /\ Staging' = Staging
  BY DEF Seen, Staging
<1>2. CASE RollBack(TRUE)
  BY <1>2 DEF RollBack, JobIsFresh, TypeOK
<1>3. CASE JobEnds
  BY <1>3 DEF JobEnds, Idle, JobIsFresh
<1>4. CASE phase # "invalid" /\ changed /\ Verdict(Seen, Staging) = "ready"
  <2>1. job' = [Idle EXCEPT !.at = "flush", !.update = TRUE, !.next = Staging]
    BY <1>4 DEF Committed
  <2>2. job'.next = Staging
    BY <2>1 DEF Idle
  <2> QED BY <1>1, <1>4, <2>2 DEF JobIsFresh, Verdict
<1> QED BY <1>2, <1>3, <1>4 DEF Committed

(* A job that throws carries nothing on.                                    *)
LEMMA FreshThrows == ASSUME TypeOK, Throws PROVE JobIsFresh'
BY DEF Throws, RollBack, JobEnds, Idle, JobIsFresh, TypeOK

(* Every step of the job keeps it fresh.                                    *)
LEMMA FreshJob ==
  ASSUME TypeOK, JobIsFresh, JobSteps
  PROVE  JobIsFresh'
<1>1. UNCHANGED <<active, log, got, gotPeer>>
  BY DEF JobSteps, JobFlushes, JobLoads, JobLoadFails, JobPersists, JobPersistFails,
         JobRemoves, JobRestores, JobDeletes, JobReloads, JobKeeps, netVars, sealVars
<1>2. Seen' = Seen /\ Staging' = Staging
  BY <1>1 DEF Seen, Staging
<1>3. CASE JobFlushes
  <2>1. CASE active
    <3>1. job.at = "flush" /\ job'.next = job.next /\ UNCHANGED <<changed, phase>>
      BY <1>3, <2>1 DEF JobFlushes, At, TypeOK
    <3> QED BY <1>1, <1>2, <3>1 DEF JobIsFresh, Verdict
  <2>2. CASE ~active
    BY <1>1, <2>2 DEF JobIsFresh
  <2> QED BY <2>1, <2>2
<1>4. CASE JobLoads
  <2>1. job.at = "load" /\ job'.next = job.next /\ UNCHANGED <<changed, phase>>
    BY <1>4 DEF JobLoads, At, Goes, TypeOK
  <2> QED BY <1>1, <1>2, <2>1 DEF JobIsFresh, Verdict
<1>5. CASE JobLoadFails
  <2>1. CASE job.update
    BY <1>5, <2>1, FreshThrows DEF JobLoadFails
  <2>2. CASE ~job.update
    BY <1>5, <2>2 DEF JobLoadFails, JobIsFresh, TypeOK
  <2> QED BY <2>1, <2>2
<1>6. CASE JobPersists
  <2>1. CASE active
    BY <1>1, <1>6, <2>1, FreshCommitted DEF JobPersists, Commits
  <2>2. CASE ~active
    BY <1>1, <2>2 DEF JobIsFresh
  <2> QED BY <2>1, <2>2
<1>7. CASE JobPersistFails
  <2>1. CASE job.update /\ active
    BY <1>1, <1>7, <2>1, FreshCommitted DEF JobPersistFails, Commits
  <2>2. CASE ~(job.update /\ active)
    BY <1>7, <2>2 DEF JobPersistFails, JobIsFresh, TypeOK
  <2> QED BY <2>1, <2>2
<1>8. CASE JobRemoves \/ JobDeletes
  BY <1>8 DEF JobRemoves, JobDeletes, Goes, JobIsFresh, TypeOK
<1>9. CASE JobRestores
  <2>1. CASE job.failed
    BY <1>9, <2>1, FreshThrows DEF JobRestores
  <2>2. CASE ~job.failed
    BY <1>9, <2>2 DEF JobRestores, JobEnds, Idle, JobIsFresh
  <2> QED BY <2>1, <2>2
<1>10. CASE JobReloads
  BY <1>10 DEF JobReloads, JobEnds, Idle, JobIsFresh
<1> QED BY <1>3, <1>4, <1>5, <1>6, <1>7, <1>8, <1>9, <1>10 DEF JobSteps

(* And so does every other step: what arrives sets "changed".               *)
LEMMA FreshStep == ASSUME TypeOK, JobIsFresh, [Next]_vars PROVE JobIsFresh'
<1> USE DEF netVars, localVars
<1>q. ASSUME UNCHANGED <<active, job, changed, log, got, gotPeer>>,
             phase = "invalid" => phase' = "invalid"
      PROVE JobIsFresh'
  BY <1>q, FreshQuiet DEF Seen, Staging
<1>1. CASE CreatorSteps \/ CreatorLeaves
  <2>1. SealNext /\ UNCHANGED <<active, job, changed, phase, got, gotPeer>>
    BY <1>1 DEF CreatorSteps, CreatorLeaves, LinkKeeps, SealNext, guestVars
  <2> QED BY <2>1, CreatorGrows, FreshQuiet
<1>2. CASE HearCreator \/ HearPeer
  BY <1>2 DEF HearCreator, HearPeer, StagingChanged, JobIsFresh
<1>3. CASE HearInvalid
  BY <1>3 DEF HearInvalid, EnterInvalid, JobIsFresh
<1>4. CASE LinkOpens
  BY <1>4, <1>q DEF LinkOpens, Progress, AfterProgress, sealVars
<1>5. CASE LinkDrops \/ FrameLost
  BY <1>5, <1>q DEF LinkDrops, FrameLost, LinkKeeps, sealVars
<1>6. CASE SocketLost \/ Reconnect
  BY <1>6, <1>q DEF SocketLost, Reconnect, Cycle, sealVars
<1>7. CASE StallFires \/ PeerLossFires
  BY <1>7, <1>q DEF StallFires, PeerLossFires, sealVars
<1>8. CASE EvalFires
  <2>1. CASE ready \/ job.at # "idle" \/ phase \in {"invalid", "save-failed"}
    BY <1>8, <2>1, <1>q DEF EvalFires, sealVars
  <2>2. CASE ~(ready \/ job.at # "idle" \/ phase \in {"invalid", "save-failed"})
    BY <1>8, <2>2, FreshEvaluate DEF EvalFires, TypeOK, sealVars
  <2> QED BY <2>1, <2>2
<1>9. CASE RetrySave
  BY <1>9, FreshEvaluate DEF RetrySave, Phases, Idle, sealVars
<1>10. CASE Leave
  BY <1>10 DEF Leave, JobIsFresh
<1>11. CASE LeavingDeletes \/ LeavingReloads \/ EditorSaves
  BY <1>11, <1>q DEF LeavingDeletes, LeavingReloads, LeavingKeeps, EditorSaves, sealVars
<1>12. CASE JobSteps
  BY <1>12, FreshJob
<1>13. CASE UNCHANGED vars
  BY <1>13, <1>q DEF vars, guestVars, sealVars
<1> QED BY <1>1, <1>2, <1>3, <1>4, <1>5, <1>6, <1>7, <1>8, <1>9, <1>10, <1>11, <1>12,
           <1>13 DEF Next

(* Only a commit with nothing new makes a guest ready.                      *)
LEMMA OnlyCommitReadies ==
  ASSUME [Next]_vars, ~ready, ready'
  PROVE  /\ active /\ job.at = "persist" /\ phase # "invalid" /\ ~changed
         /\ UNCHANGED <<vm, log, got, gotPeer>>
<1>1. CASE JobSteps
  <2>1. (JobPersists \/ JobPersistFails) /\ Committed /\ active
    BY <1>1 DEF JobSteps, JobFlushes, JobLoads, JobLoadFails, JobPersists, JobPersistFails,
       JobRemoves, JobRestores, JobDeletes, JobReloads, Throws, Commits, ready
  <2>2. phase # "invalid" /\ ~changed
    BY <2>1 DEF Committed, NotYet, AfterProgress, EnterInvalid, ready
  <2> QED BY <2>1, <2>2 DEF JobPersists, JobPersistFails, At, JobKeeps, netVars, sealVars
<1>2. CASE ~JobSteps
  BY <1>2 DEF Next, vars, guestVars, CreatorSteps, CreatorLeaves, HearCreator, HearPeer,
     StagingChanged, Progress, AfterProgress, HearInvalid, EnterInvalid, LinkOpens, LinkDrops,
     FrameLost, LinkKeeps, SocketLost, Cycle, EvalFires, Evaluate, NotYet, StallFires,
     PeerLossFires, Reconnect, RetrySave, Leave, LeavingDeletes, LeavingReloads,
     LeavingKeeps, EditorSaves, ready
<1> QED BY <1>1, <1>2

(* A guest becomes ready only with the latest seal, whatever arrived while  *)
(* it was being loaded and saved.                                           *)
THEOREM GuestReadyMatchesSeal == Spec => ReadyMatchesSeal
<1> DEFINE Matches == ~ready /\ ready' => vm' = Staging' /\ Verdict(Seen, Staging)' = "ready"
<1>1. Init => TypeOK /\ PlaceInv /\ JobIsFresh
  BY TypesInit, PlaceInit, FreshInit
<1>2. TypeOK /\ PlaceInv /\ JobIsFresh /\ [Next]_vars => TypeOK' /\ PlaceInv' /\ JobIsFresh'
  BY TypesStep, PlaceStep, FreshStep
<1>3. TypeOK /\ PlaceInv /\ JobIsFresh /\ [Next]_vars => [Matches]_vars
  <2> SUFFICES ASSUME TypeOK, PlaceInv, JobIsFresh, [Next]_vars, ~ready, ready'
               PROVE  vm' = Staging' /\ Verdict(Seen, Staging)' = "ready"
    OBVIOUS
  <2>1. /\ active /\ job.at = "persist" /\ phase # "invalid" /\ ~changed
        /\ UNCHANGED <<vm, log, got, gotPeer>>
    BY OnlyCommitReadies
  <2>2. job.next = Staging /\ Verdict(Seen, Staging) = "ready" /\ vm = job.next
    BY <2>1 DEF JobIsFresh, PlaceInv, VmIsMine
  <2>3. Seen' = Seen /\ Staging' = Staging
    BY <2>1 DEF Seen, Staging
  <2> QED BY <2>1, <2>2, <2>3 DEF Verdict
<1> QED BY <1>1, <1>2, <1>3, PTL DEF Spec, ReadyMatchesSeal

-----------------------------------------------------------------------------
(* Whoever waits for a creator it has met is watched: by a silence timer    *)
(* that fits who is in sight, or by the timer of the grace period.          *)

(* What is armed while the creator is connected is armed, and what is armed *)
(* once it went is long.                                                    *)
LEMMA ArmedWaits ==
  /\ \A l \in {"up", "gap", "down", "joining"} : "off" \notin Armed(l)
  /\ Armed("down") = {"long"}
BY DEF Armed

(* A timer just armed for the link as it is now watches.                    *)
LEMMA ArmedWatches ==
  ASSUME stallTimer' \in Armed(link), link' = link, link \in {"joining", "up", "gap", "down"}
  PROVE  WaitingIsWatched'
BY ArmedWaits DEF WaitingIsWatched

(* The steps of the job end receiving, restart the timer or touch neither.  *)
LEMMA WatchedJob == ASSUME TypeOK, WaitingIsWatched, JobSteps PROVE WaitingIsWatched'
<1>1. UNCHANGED <<active, link, lossTimer>> /\ link \in {"joining", "up", "gap", "down"}
  BY DEF TypeOK, JobSteps, JobFlushes, JobLoads, JobLoadFails, JobPersists, JobPersistFails,
         JobRemoves, JobRestores, JobDeletes, JobReloads, JobKeeps, netVars
<1>2. ASSUME UNCHANGED <<phase, stallTimer>> PROVE WaitingIsWatched'
  BY <1>1, <1>2 DEF WaitingIsWatched
<1>3. CASE Throws
  BY <1>2, <1>3 DEF Throws, WaitingIsWatched
<1>4. CASE Committed
  BY <1>1, <1>2, <1>4, ArmedWatches DEF Committed, EnterInvalid, WaitingIsWatched
<1> QED BY <1>2, <1>3, <1>4 DEF JobSteps, JobFlushes, JobLoads, JobLoadFails, JobPersists,
           JobPersistFails, JobRemoves, JobRestores, JobDeletes, JobReloads, Commits

(* And so does every other step.                                            *)
LEMMA WatchedStep == ASSUME TypeOK, WaitingIsWatched, [Next]_vars PROVE WaitingIsWatched'
<1> USE DEF netVars
<1>l. link \in {"joining", "up", "gap", "down"}
  BY DEF TypeOK
<1>1. CASE CreatorSteps
  BY <1>1 DEF CreatorSteps, guestVars, WaitingIsWatched
<1>2. CASE HearCreator \/ HearPeer
  <2>1. Progress(link) /\ link' = link
    BY <1>2 DEF HearCreator, HearPeer, StagingChanged
  <2>2. CASE MayStall(AfterProgress(phase))
    BY <1>l, <2>1, <2>2, ArmedWatches DEF Progress
  <2>3. CASE ~MayStall(AfterProgress(phase))
    BY <2>1, <2>3 DEF Progress, MayStall, WaitingIsWatched
  <2> QED BY <2>2, <2>3
<1>3. CASE LinkOpens
  BY <1>3, ArmedWaits DEF LinkOpens, Progress, MayStall, WaitingIsWatched
<1>4. CASE HearInvalid
  BY <1>4 DEF HearInvalid, EnterInvalid, WaitingIsWatched
<1>5. CASE LinkDrops \/ CreatorLeaves \/ FrameLost
  BY <1>5 DEF LinkDrops, CreatorLeaves, FrameLost, PeerGone, LinkKeeps, WaitingIsWatched
<1>6. CASE SocketLost \/ Reconnect
  BY <1>6 DEF SocketLost, Reconnect, Cycle, WaitingIsWatched
<1>7. CASE EvalFires \/ RetrySave
  <2>1. CASE UNCHANGED <<phase, stallTimer>>
    BY <1>7, <2>1 DEF EvalFires, RetrySave, WaitingIsWatched
  <2>2. CASE Evaluate(phase) \/ Evaluate("receiving")
    BY <1>7, <1>l, <2>2, ArmedWatches
       DEF EvalFires, RetrySave, Evaluate, EnterInvalid, WaitingIsWatched
  <2> QED BY <1>7, <2>1, <2>2 DEF EvalFires, RetrySave
<1>8. CASE StallFires
  BY <1>8 DEF StallFires, WaitingIsWatched
<1>9. CASE PeerLossFires
  BY <1>9 DEF PeerLossFires, WaitingIsWatched
<1>10. CASE JobSteps
  BY <1>10, WatchedJob
<1>11. CASE Leave \/ LeavingDeletes \/ LeavingReloads \/ EditorSaves
  BY <1>11 DEF Leave, LeavingDeletes, LeavingReloads, LeavingKeeps, EditorSaves, WaitingIsWatched
<1>12. CASE UNCHANGED vars
  BY <1>12 DEF vars, guestVars, WaitingIsWatched
<1> QED BY <1>1, <1>2, <1>3, <1>4, <1>5, <1>6, <1>7, <1>8, <1>9, <1>10, <1>11, <1>12 DEF Next

(* A guest that waits for a creator it has met is watched, however losses,  *)
(* evaluations and timers interleave.                                       *)
THEOREM GuestWaitingIsWatched == Spec => []WaitingIsWatched
<1>1. Init => TypeOK /\ WaitingIsWatched
  BY TypesInit DEF Init, GuestInit, WaitingIsWatched
<1>2. TypeOK /\ WaitingIsWatched /\ [Next]_vars => TypeOK' /\ WaitingIsWatched'
  BY TypesStep, WatchedStep
<1> QED BY <1>1, <1>2, PTL DEF Spec
=============================================================================
