---------------------------- MODULE PeerLinkProofs ----------------------------
(***************************************************************************)
(* What is proved of the links between the clients of a room, for any      *)
(* clients, writers and bounds: the types; that a peer closes only when it *)
(* leaves; that who is in the room is open when nothing is under way; and  *)
(* that then every edit has arrived which no dead channel has swallowed.   *)
(***************************************************************************)
EXTENDS PeerLink, SequenceTheorems, FiniteSetTheorems, TLAPS

-----------------------------------------------------------------------------
(* What the hub sends, and what goes over a channel.                        *)
Wire == [kind : {"step1", "step2", "update"}, edits : SUBSET Edits]

Message ==
    [t : {"joined"}, from : Peers, body : SUBSET Peers]
      \cup [t : {"peer", "leave"}, from : Peers]
      \cup [t : {"offer", "answer"}, from : Peers, body : Chans]
      \cup [t : {"wire"}, from : Peers, body : Wire]

LEMMA MessageParts ==
  ASSUME NEW m \in Message
  PROVE  /\ m.from \in Peers
         /\ m.t \in {"joined", "peer", "leave", "offer", "answer", "wire"}
         /\ m.t = "joined" => m.body \in SUBSET Peers
         /\ m.t \in {"offer", "answer"} => m.body \in Chans
         /\ m.t = "wire" => m.body \in Wire
<1>1. CASE m \in [t : {"joined"}, from : Peers, body : SUBSET Peers]
  BY <1>1
<1>2. CASE m \in [t : {"peer", "leave"}, from : Peers]
  BY <1>2
<1>3. CASE m \in [t : {"offer", "answer"}, from : Peers, body : Chans]
  BY <1>3
<1>4. CASE m \in [t : {"wire"}, from : Peers, body : Wire]
  BY <1>4
<1> QED BY <1>1, <1>2, <1>3, <1>4 DEF Message

LEMMA MessagesMade ==
  ASSUME NEW p \in Peers
  PROVE  /\ \A s \in SUBSET Peers : [t |-> "joined", from |-> p, body |-> s] \in Message
         /\ [t |-> "peer", from |-> p] \in Message /\ [t |-> "leave", from |-> p] \in Message
         /\ \A c \in Chans : /\ [t |-> "offer", from |-> p, body |-> c] \in Message
                             /\ [t |-> "answer", from |-> p, body |-> c] \in Message
         /\ \A w \in Wire : [t |-> "wire", from |-> p, body |-> w] \in Message
BY DEF Message

-----------------------------------------------------------------------------
(* What a peer will think of q once it has read its mail b, if it thinks k  *)
(* now: it is r that q is in the room.                                      *)
Tells(m, q) == IF m.t = "joined" THEN q \in m.body ELSE m.from = q

Final(b, i, q) == Tells(b[i], q) /\ \A j \in DOMAIN b : j > i => ~Tells(b[j], q)

Heard(b, q, k, r) ==
    /\ \A i \in DOMAIN b : Final(b, i, q) => (b[i].t # "leave" <=> r)
    /\ (\A i \in DOMAIN b : ~Tells(b[i], q)) => (k <=> r)

(* A message that q has left, and one with which q asks, not overtaken by   *)
(* one that it has left: a peer that is open to q, if o, will be then too.  *)
IsLeave(m, q) == m.t = "leave" /\ m.from = q
LeaveIn(b, q) == \E i \in DOMAIN b : IsLeave(b[i], q)

IsAsk(m, q) == m.t = "wire" /\ m.from = q /\ m.body.kind = "step1"

Asked(b, i, q) == IsAsk(b[i], q) /\ \A j \in DOMAIN b : j > i => ~IsLeave(b[j], q)

Fresh(b, q, o) == (o /\ ~LeaveIn(b, q)) \/ \E i \in DOMAIN b : Asked(b, i, q)

LEMMA Elements ==
  ASSUME NEW T, NEW b \in Seq(T)
  PROVE  \A i \in DOMAIN b : b[i] \in T
BY ElementOfSeq, LenProperties

LEMMA Positions ==
  ASSUME NEW T, NEW b \in Seq(T), NEW s \in Seq(T), NEW c, c = b \o s
  PROVE  /\ c \in Seq(T) /\ DOMAIN c = 1..(Len(b) + Len(s))
         /\ DOMAIN b = 1..Len(b) /\ DOMAIN s = 1..Len(s) /\ Len(b) \in Nat /\ Len(s) \in Nat
         /\ DOMAIN c \subseteq Nat /\ DOMAIN s \subseteq Nat \ {0}
         /\ \A i \in DOMAIN b : i \in DOMAIN c /\ c[i] = b[i]
         /\ \A i \in DOMAIN s : Len(b) + i \in DOMAIN c /\ c[Len(b) + i] = s[i]
         /\ \A i \in DOMAIN c : i \in DOMAIN b \/ (i - Len(b) \in DOMAIN s /\ i > Len(b))
<1>1. /\ c \in Seq(T) /\ Len(c) = Len(b) + Len(s)
      /\ \A i \in 1..(Len(b) + Len(s)) : c[i] = IF i <= Len(b) THEN b[i] ELSE s[i - Len(b)]
  BY ConcatProperties
<1>2. DOMAIN c = 1..(Len(b) + Len(s)) /\ DOMAIN b = 1..Len(b) /\ DOMAIN s = 1..Len(s)
  BY <1>1, LenProperties
<1>3. Len(b) \in Nat /\ Len(s) \in Nat
  BY LenProperties
<1>4. \A i \in DOMAIN b : i \in DOMAIN c /\ c[i] = b[i]
  BY <1>1, <1>2, <1>3
<1>5. \A i \in DOMAIN s : Len(b) + i \in DOMAIN c /\ c[Len(b) + i] = s[i]
  BY <1>1, <1>2, <1>3
<1>6. \A i \in DOMAIN c : i \in DOMAIN b \/ (i - Len(b) \in DOMAIN s /\ i > Len(b))
  BY <1>1, <1>2, <1>3
<1>7. DOMAIN c \subseteq Nat /\ DOMAIN s \subseteq Nat \ {0}
  BY <1>2, <1>3
<1> QED BY <1>1, <1>2, <1>3, <1>4, <1>5, <1>6, <1>7

LEMMA Rest ==
  ASSUME NEW b \in Seq(Message), b # <<>>
  PROVE  /\ Tail(b) \in Seq(Message) /\ Head(b) = b[1] /\ Head(b) \in Message
         /\ 1 \in DOMAIN b /\ DOMAIN b \subseteq Nat \ {0} /\ DOMAIN Tail(b) \subseteq Nat \ {0}
         /\ \A i \in DOMAIN Tail(b) : i + 1 \in DOMAIN b /\ Tail(b)[i] = b[i + 1]
         /\ \A i \in DOMAIN b : i = 1 \/ (i - 1 \in DOMAIN Tail(b) /\ Tail(b)[i - 1] = b[i])
<1>1. /\ Tail(b) \in Seq(Message) /\ Len(Tail(b)) = Len(b) - 1 /\ Head(b) \in Message
      /\ \A i \in 1..Len(Tail(b)) : Tail(b)[i] = b[i + 1]
  BY HeadTailProperties
<1>2. DOMAIN b = 1..Len(b) /\ DOMAIN Tail(b) = 1..Len(Tail(b)) /\ Len(b) \in Nat /\ Len(b) # 0
  BY <1>1, LenProperties, EmptySeq
<1>3. Head(b) = b[1]
  OBVIOUS
<1>4. \A i \in DOMAIN Tail(b) : i + 1 \in DOMAIN b /\ Tail(b)[i] = b[i + 1]
  BY <1>1, <1>2
<1>5. \A i \in DOMAIN b : i = 1 \/ (i - 1 \in DOMAIN Tail(b) /\ Tail(b)[i - 1] = b[i])
  BY <1>1, <1>2
<1>6. 1 \in DOMAIN b /\ DOMAIN b \subseteq Nat \ {0} /\ DOMAIN Tail(b) \subseteq Nat \ {0}
  BY <1>1, <1>2
<1> QED BY <1>1, <1>3, <1>4, <1>5, <1>6

(* Mail to which two batches are added has one added, of the messages of    *)
(* both.                                                                    *)
LEMMA TwoBatches ==
  ASSUME NEW box \in Seq(Message), NEW x \in Seq(Message), NEW y \in Seq(Message)
  PROVE  \E s \in Seq(Message) :
           /\ box \o x \o y = box \o s
           /\ s # <<>> => x # <<>> \/ y # <<>>
           /\ \A i \in DOMAIN s : \/ \E j \in DOMAIN x : s[i] = x[j]
                                  \/ \E j \in DOMAIN y : s[i] = y[j]
           /\ \A j \in DOMAIN y : \E i \in DOMAIN s : s[i] = y[j]
<1> DEFINE s == x \o y
<1>1. s \in Seq(Message) /\ box \o x \o y = box \o s
  BY ConcatProperties, ConcatAssociative
<1>2. s # <<>> => x # <<>> \/ y # <<>>
  BY ConcatEmptySeq
<1>3. s = x \o y
  OBVIOUS
<1> HIDE DEF s
<1>4. /\ \A i \in DOMAIN x : i \in DOMAIN s /\ s[i] = x[i]
      /\ \A i \in DOMAIN y : Len(x) + i \in DOMAIN s /\ s[Len(x) + i] = y[i]
      /\ \A i \in DOMAIN s : i \in DOMAIN x \/ (i - Len(x) \in DOMAIN y /\ i > Len(x))
      /\ DOMAIN s \subseteq Nat /\ Len(x) \in Nat
  BY <1>3, Positions
<1>5. ASSUME NEW i \in DOMAIN s
      PROVE  (\E j \in DOMAIN x : s[i] = x[j]) \/ \E j \in DOMAIN y : s[i] = y[j]
  <2>1. CASE i \in DOMAIN x
    BY <1>4, <2>1
  <2>2. CASE i - Len(x) \in DOMAIN y
    <3>1. Len(x) + (i - Len(x)) = i
      BY <1>4
    <3>2. s[i] = y[i - Len(x)]
      BY <1>4, <2>2, <3>1
    <3> QED BY <2>2, <3>2
  <2> QED BY <1>4, <2>1, <2>2
<1>6. \A j \in DOMAIN y : \E i \in DOMAIN s : s[i] = y[j]
  BY <1>4
<1> QED BY <1>1, <1>2, <1>5, <1>6

LEMMA OneMessage ==
  ASSUME NEW m \in Message
  PROVE  <<m>> \in Seq(Message) /\ DOMAIN <<m>> = {1} /\ <<m>>[1] = m
OBVIOUS

(* What more mail, and reading the first of it, does to these.              *)
LEMMA HeardMore ==
  ASSUME NEW b \in Seq(Message), NEW s \in Seq(Message), NEW q \in Peers,
         NEW k \in BOOLEAN, NEW r \in BOOLEAN, Heard(b, q, k, r),
         \A i \in DOMAIN s : Tells(s[i], q) => (s[i].t # "leave" <=> r)
  PROVE  Heard(b \o s, q, k, r)
<1> DEFINE c == b \o s
<1>0. c = b \o s
  OBVIOUS
<1> HIDE DEF c
<1>1. /\ \A i \in DOMAIN b : i \in DOMAIN c /\ c[i] = b[i]
      /\ \A i \in DOMAIN s : Len(b) + i \in DOMAIN c /\ c[Len(b) + i] = s[i]
      /\ \A i \in DOMAIN c : i \in DOMAIN b \/ (i - Len(b) \in DOMAIN s /\ i > Len(b))
      /\ DOMAIN c \subseteq Nat /\ Len(b) \in Nat
  BY <1>0, Positions
<1>2. ASSUME NEW i \in DOMAIN c, Final(c, i, q)
      PROVE  c[i].t # "leave" <=> r
  <2>1. CASE i \in DOMAIN b
    <3>1. Final(b, i, q)
      BY <1>1, <1>2, <2>1 DEF Final
    <3> QED BY <1>1, <2>1, <3>1 DEF Heard
  <2>2. CASE i - Len(b) \in DOMAIN s
    <3>1. c[i] = s[i - Len(b)]
      <4>1. Len(b) + (i - Len(b)) = i
        BY <1>1
      <4> QED BY <1>1, <2>2, <4>1
    <3> QED BY <1>2, <2>2, <3>1 DEF Final
  <2> QED BY <1>1, <2>1, <2>2
<1>3. ASSUME \A i \in DOMAIN c : ~Tells(c[i], q)
      PROVE  k <=> r
  <2>1. \A i \in DOMAIN b : ~Tells(b[i], q)
    BY <1>1, <1>3
  <2> QED BY <2>1 DEF Heard
<1>4. Heard(c, q, k, r)
  BY <1>2, <1>3 DEF Heard
<1> QED BY <1>4 DEF c

LEMMA HeardNews ==
  ASSUME NEW b \in Seq(Message), NEW s \in Seq(Message), NEW q \in Peers,
         NEW k \in BOOLEAN, NEW r \in BOOLEAN,
         \E i \in DOMAIN s : Tells(s[i], q),
         \A i \in DOMAIN s : Final(s, i, q) => (s[i].t # "leave" <=> r)
  PROVE  Heard(b \o s, q, k, r)
<1> DEFINE c == b \o s
<1>0. c = b \o s
  OBVIOUS
<1> HIDE DEF c
<1>1. /\ \A i \in DOMAIN b : i \in DOMAIN c /\ c[i] = b[i]
      /\ \A i \in DOMAIN s : Len(b) + i \in DOMAIN c /\ c[Len(b) + i] = s[i]
      /\ \A i \in DOMAIN c : i \in DOMAIN b \/ (i - Len(b) \in DOMAIN s /\ i > Len(b))
      /\ DOMAIN c \subseteq Nat /\ Len(b) \in Nat
      /\ DOMAIN b = 1..Len(b) /\ DOMAIN s = 1..Len(s) /\ Len(s) \in Nat
  <2>1. /\ \A i \in DOMAIN b : i \in DOMAIN c /\ c[i] = b[i]
        /\ \A i \in DOMAIN s : Len(b) + i \in DOMAIN c /\ c[Len(b) + i] = s[i]
        /\ \A i \in DOMAIN c : i \in DOMAIN b \/ (i - Len(b) \in DOMAIN s /\ i > Len(b))
    BY <1>0, Positions
  <2>2. DOMAIN c \subseteq Nat /\ Len(b) \in Nat /\ Len(s) \in Nat
    BY <1>0, Positions
  <2>3. DOMAIN b = 1..Len(b) /\ DOMAIN s = 1..Len(s)
    BY LenProperties
  <2> QED BY <2>1, <2>2, <2>3
<1>2. PICK n \in DOMAIN s : Tells(s[n], q)
  OBVIOUS
<1>3. n \in Nat \ {0} /\ Len(b) + n \in DOMAIN c /\ Tells(c[Len(b) + n], q)
  <2>1. n \in Nat \ {0} /\ Len(b) + n \in DOMAIN c /\ c[Len(b) + n] = s[n]
    BY <1>1
  <2> QED BY <1>2, <2>1
<1>4. ASSUME NEW i \in DOMAIN c, Final(c, i, q)
      PROVE  c[i].t # "leave" <=> r
  <2>1. i \notin DOMAIN b
    BY <1>1, <1>3, <1>4 DEF Final
  <2> DEFINE m == i - Len(b)
  <2>2. m \in DOMAIN s /\ m \in Nat /\ i = Len(b) + m
    BY <1>1, <2>1
  <2> HIDE DEF m
  <2>3. c[i] = s[m]
    BY <1>1, <2>2
  <2>4. ASSUME NEW j \in DOMAIN s, j > m PROVE ~Tells(s[j], q)
    <3>1. Len(b) + j \in DOMAIN c /\ c[Len(b) + j] = s[j] /\ Len(b) + j > i
      BY <1>1, <2>2, <2>4
    <3> QED BY <1>4, <3>1 DEF Final
  <2>5. Final(s, m, q)
    BY <1>4, <2>2, <2>3, <2>4 DEF Final
  <2> QED BY <2>2, <2>3, <2>5
<1>5. Heard(c, q, k, r)
  BY <1>3, <1>4 DEF Heard
<1> QED BY <1>5 DEF c

LEMMA HeardRest ==
  ASSUME NEW b \in Seq(Message), b # <<>>, NEW q \in Peers,
         NEW k \in BOOLEAN, NEW r \in BOOLEAN, NEW now \in BOOLEAN, Heard(b, q, k, r),
         Tells(Head(b), q) => (now <=> Head(b).t # "leave"),
         ~Tells(Head(b), q) => (now <=> k)
  PROVE  Heard(Tail(b), q, now, r)
<1> DEFINE c == Tail(b)
<1>1. /\ Head(b) = b[1] /\ 1 \in DOMAIN b /\ DOMAIN b \subseteq Nat \ {0} /\ DOMAIN c \subseteq Nat \ {0}
      /\ \A i \in DOMAIN c : i + 1 \in DOMAIN b /\ c[i] = b[i + 1]
      /\ \A i \in DOMAIN b : i = 1 \/ (i - 1 \in DOMAIN c /\ c[i - 1] = b[i])
  BY Rest
<1> HIDE DEF c
<1>2. ASSUME NEW i \in DOMAIN c, Final(c, i, q)
      PROVE  c[i].t # "leave" <=> r
  <2>1. ASSUME NEW j \in DOMAIN b, j > i + 1 PROVE ~Tells(b[j], q)
    <3>1. j - 1 \in DOMAIN c /\ c[j - 1] = b[j] /\ j - 1 > i
      BY <1>1, <2>1
    <3> QED BY <1>2, <3>1 DEF Final
  <2>2. Final(b, i + 1, q)
    BY <1>1, <1>2, <2>1 DEF Final
  <2> QED BY <1>1, <2>2 DEF Heard
<1>3. ASSUME \A i \in DOMAIN c : ~Tells(c[i], q)
      PROVE  now <=> r
  <2>1. \A i \in DOMAIN b : i # 1 => ~Tells(b[i], q)
    BY <1>1, <1>3
  <2>2. CASE Tells(b[1], q)
    <3>1. Final(b, 1, q)
      BY <1>1, <2>1, <2>2 DEF Final
    <3> QED BY <1>1, <2>2, <3>1 DEF Heard
  <2>3. CASE ~Tells(b[1], q)
    <3>1. \A i \in DOMAIN b : ~Tells(b[i], q)
      BY <2>1, <2>3
    <3> QED BY <1>1, <2>3, <3>1 DEF Heard
  <2> QED BY <2>2, <2>3
<1>4. Heard(c, q, now, r)
  BY <1>2, <1>3 DEF Heard
<1> QED BY <1>4 DEF c

LEMMA LeaveMore ==
  ASSUME NEW b \in Seq(Message), NEW s \in Seq(Message), NEW q \in Peers
  PROVE  LeaveIn(b \o s, q) <=> LeaveIn(b, q) \/ LeaveIn(s, q)
<1> DEFINE c == b \o s
<1>0. c = b \o s
  OBVIOUS
<1> HIDE DEF c
<1>1. /\ \A i \in DOMAIN b : i \in DOMAIN c /\ c[i] = b[i]
      /\ \A i \in DOMAIN s : Len(b) + i \in DOMAIN c /\ c[Len(b) + i] = s[i]
      /\ \A i \in DOMAIN c : i \in DOMAIN b \/ (i - Len(b) \in DOMAIN s /\ Len(b) + (i - Len(b)) = i)
  BY <1>0, Positions
<1>2. LeaveIn(c, q) <=> LeaveIn(b, q) \/ LeaveIn(s, q)
  BY <1>1 DEF LeaveIn
<1> QED BY <1>2 DEF c

LEMMA LeaveRest ==
  ASSUME NEW b \in Seq(Message), b # <<>>, NEW q \in Peers
  PROVE  LeaveIn(b, q) <=> IsLeave(Head(b), q) \/ LeaveIn(Tail(b), q)
BY Rest DEF LeaveIn

LEMMA FreshMore ==
  ASSUME NEW b \in Seq(Message), NEW s \in Seq(Message), NEW q \in Peers, NEW o \in BOOLEAN,
         ~LeaveIn(s, q), Fresh(b, q, o) \/ \E i \in DOMAIN s : IsAsk(s[i], q)
  PROVE  Fresh(b \o s, q, o)
<1> DEFINE c == b \o s
<1>0. c = b \o s
  OBVIOUS
<1>2. LeaveIn(c, q) <=> LeaveIn(b, q)
  BY LeaveMore
<1> HIDE DEF c
<1>1. /\ \A i \in DOMAIN b : i \in DOMAIN c /\ c[i] = b[i]
      /\ \A i \in DOMAIN s : Len(b) + i \in DOMAIN c /\ c[Len(b) + i] = s[i]
      /\ \A i \in DOMAIN c : i \in DOMAIN b \/ (i - Len(b) \in DOMAIN s /\ i > Len(b))
      /\ DOMAIN c \subseteq Nat /\ Len(b) \in Nat
      /\ DOMAIN b = 1..Len(b) /\ DOMAIN s = 1..Len(s) /\ Len(s) \in Nat
  BY <1>0, Positions
<1>3. \A j \in DOMAIN c : j \notin DOMAIN b => ~IsLeave(c[j], q)
  <2> SUFFICES ASSUME NEW j \in DOMAIN c, j \notin DOMAIN b PROVE ~IsLeave(c[j], q)
    OBVIOUS
  <2>1. j - Len(b) \in DOMAIN s /\ Len(b) + (j - Len(b)) = j
    BY <1>1
  <2>2. c[j] = s[j - Len(b)]
    BY <1>1, <2>1
  <2> QED BY <2>1, <2>2 DEF LeaveIn
<1>4. CASE o /\ ~LeaveIn(b, q)
  BY <1>2, <1>4 DEF Fresh, c
<1>5. ASSUME NEW i \in DOMAIN b, Asked(b, i, q)
      PROVE  Fresh(c, q, o)
  <2>1. Asked(c, i, q)
    BY <1>1, <1>3, <1>5 DEF Asked
  <2> QED BY <1>1, <2>1 DEF Fresh
<1>6. ASSUME NEW i \in DOMAIN s, IsAsk(s[i], q)
      PROVE  Fresh(c, q, o)
  <2>1. \A j \in DOMAIN c : j > Len(b) + i => ~IsLeave(c[j], q)
    BY <1>1, <1>3
  <2>2. Asked(c, Len(b) + i, q)
    BY <1>1, <1>6, <2>1 DEF Asked
  <2> QED BY <1>1, <2>2 DEF Fresh
<1>7. Fresh(c, q, o)
  BY <1>4, <1>5, <1>6 DEF Fresh, c
<1> QED BY <1>7 DEF c

LEMMA FreshRest ==
  ASSUME NEW b \in Seq(Message), b # <<>>, NEW q \in Peers, NEW o \in BOOLEAN, NEW now \in BOOLEAN,
         Fresh(b, q, o), IsAsk(Head(b), q) => now, o /\ ~IsLeave(Head(b), q) => now
  PROVE  Fresh(Tail(b), q, now)
<1> DEFINE c == Tail(b)
<1>1. /\ Head(b) = b[1] /\ 1 \in DOMAIN b /\ DOMAIN b \subseteq Nat \ {0} /\ DOMAIN c \subseteq Nat \ {0}
      /\ \A i \in DOMAIN c : i + 1 \in DOMAIN b /\ c[i] = b[i + 1]
      /\ \A i \in DOMAIN b : i = 1 \/ (i - 1 \in DOMAIN c /\ c[i - 1] = b[i])
  BY Rest
<1> HIDE DEF c
<1>2. CASE o /\ ~LeaveIn(b, q)
  <2>1. now /\ ~LeaveIn(c, q)
    BY <1>1, <1>2 DEF LeaveIn
  <2> QED BY <2>1 DEF Fresh, c
<1>3. ASSUME NEW i \in DOMAIN b, Asked(b, i, q)
      PROVE  Fresh(c, q, now)
  <2>1. CASE i = 1
    <3>1. \A j \in DOMAIN c : ~IsLeave(c[j], q)
      BY <1>1, <1>3, <2>1 DEF Asked
    <3> QED BY <1>1, <1>3, <2>1, <3>1 DEF Asked, Fresh, LeaveIn
  <2>2. CASE i # 1
    <3>1. \A j \in DOMAIN c : j > i - 1 => ~IsLeave(c[j], q)
      BY <1>1, <1>3 DEF Asked
    <3>2. Asked(c, i - 1, q)
      BY <1>1, <1>3, <2>2, <3>1 DEF Asked
    <3> QED BY <1>1, <2>2, <3>2 DEF Fresh
  <2> QED BY <2>1, <2>2
<1>4. Fresh(c, q, now)
  BY <1>2, <1>3 DEF Fresh, c
<1> QED BY <1>4 DEF c

-----------------------------------------------------------------------------
(* A link: one that is known is open, one with an entry is known, and a     *)
(* retry that is due is within the bound.                                   *)
LinkType == [known : BOOLEAN, open : BOOLEAN, stage : Stages, chan : Chans,
             retries : 0..MaxRetries, timer : BOOLEAN]

Tied(l) == /\ l.open <=> l.known
           /\ HasEntry(l) => l.known
           /\ l.timer => l.retries < MaxRetries

(* What the pieces of the transport make of a link.                         *)
LEMMA TornDownLink ==
  ASSUME NEW l \in LinkType, Tied(l)
  PROVE  /\ TornDown(l) \in LinkType /\ Tied(TornDown(l))
         /\ TornDown(l).known = l.known /\ TornDown(l).open = l.open /\ TornDown(l).retries = l.retries
         /\ TornDown(l).stage = "none"
         /\ TornDown(l).chan = IF HasEntry(l) THEN NoChan ELSE l.chan
         /\ TornDown(l).timer => l.timer
<1>1. CASE HasEntry(l)
  <2>1. TornDown(l) = [l EXCEPT !.stage = "none", !.chan = NoChan, !.timer = FALSE]
    BY <1>1 DEF TornDown
  <2> QED BY <1>1, <2>1 DEF LinkType, Tied, HasEntry, Stages, Chans
<1>2. CASE ~HasEntry(l)
  BY <1>2 DEF TornDown, HasEntry
<1> QED BY <1>1, <1>2

LEMMA RelayedLink ==
  ASSUME NEW l \in LinkType
  PROVE  /\ Relayed(l) \in LinkType
         /\ Relayed(l).known = l.known /\ Relayed(l).stage = l.stage /\ Relayed(l).chan = l.chan
         /\ Relayed(l).retries = l.retries /\ Relayed(l).timer = l.timer
         /\ l.known /\ l.stage # "open" => Relayed(l).open
         /\ ~(l.known /\ l.stage # "open") => Relayed(l) = l
<1>1. CASE l.known /\ l.stage # "open"
  <2>1. Relayed(l) = [l EXCEPT !.open = TRUE]
    BY <1>1 DEF Relayed
  <2> QED BY <1>1, <2>1 DEF LinkType
<1>2. CASE ~(l.known /\ l.stage # "open")
  BY <1>2 DEF Relayed
<1> QED BY <1>1, <1>2

LEMMA ForgottenLink ==
  ASSUME NEW l \in LinkType, Tied(l)
  PROVE  LET f == Forgotten([l EXCEPT !.known = FALSE])
         IN  /\ f \in LinkType /\ Tied(f) /\ ~f.known /\ f.stage = "none"
             /\ f.chan = IF HasEntry(l) THEN NoChan ELSE l.chan
<1> DEFINE k == [l EXCEPT !.known = FALSE]
           t == TornDown(k)
           f == Forgotten(k)
<1>1. k \in LinkType /\ k.retries = l.retries /\ k.timer = l.timer /\ k.stage = l.stage /\ k.chan = l.chan
      /\ ~k.known
  BY DEF LinkType
<1> HIDE DEF k
<1>2. /\ t \in LinkType /\ t.stage = "none" /\ t.chan = IF HasEntry(l) THEN NoChan ELSE l.chan
      /\ ~t.known /\ t.retries = l.retries /\ (t.timer => l.timer)
  <2>1. CASE HasEntry(k)
    <3>1. t = [k EXCEPT !.stage = "none", !.chan = NoChan, !.timer = FALSE]
      BY <2>1 DEF TornDown
    <3> QED BY <1>1, <2>1, <3>1 DEF LinkType, HasEntry, Stages, Chans
  <2>2. CASE ~HasEntry(k)
    <3>1. t = k
      BY <2>2 DEF TornDown
    <3> QED BY <1>1, <2>2, <3>1 DEF HasEntry
  <2> QED BY <2>1, <2>2
<1>3. f = [t EXCEPT !.open = FALSE]
  BY DEF Forgotten
<1> HIDE DEF t, f
<1>4. /\ f \in LinkType /\ ~f.known /\ ~f.open /\ f.stage = "none"
      /\ f.chan = IF HasEntry(l) THEN NoChan ELSE l.chan
      /\ f.retries = l.retries /\ (f.timer => l.timer)
  BY <1>2, <1>3 DEF LinkType
<1>5. Tied(f)
  BY <1>4 DEF Tied, HasEntry
<1> QED BY <1>4, <1>5 DEF f, k

LEMMA KnownLink ==
  ASSUME NEW l \in LinkType, Tied(l)
  PROVE  /\ Known(l) \in LinkType /\ Tied(Known(l)) /\ Known(l).known /\ Known(l).open
         /\ Known(l).stage = l.stage /\ Known(l).chan = l.chan
         /\ Known(l).retries = l.retries /\ Known(l).timer = l.timer
<1>1. CASE l.known
  BY <1>1 DEF Known, Tied
<1>2. CASE ~l.known
  <2> DEFINE k == [l EXCEPT !.known = TRUE]
  <2>1. /\ k \in LinkType /\ k.known /\ k.stage = l.stage /\ k.chan = l.chan
        /\ k.retries = l.retries /\ k.timer = l.timer
    BY DEF LinkType
  <2>2. k.stage # "open"
    BY <1>2, <2>1 DEF Tied, HasEntry
  <2> HIDE DEF k
  <2>3. Known(l) = Relayed(k)
    BY <1>2 DEF Known, k
  <2>4. /\ Known(l) \in LinkType /\ Known(l).known /\ Known(l).open
        /\ Known(l).stage = l.stage /\ Known(l).chan = l.chan
        /\ Known(l).retries = l.retries /\ Known(l).timer = l.timer
    BY <2>1, <2>2, <2>3, RelayedLink
  <2> QED BY <2>4 DEF Tied
<1> QED BY <1>1, <1>2

LEMMA WithoutChannelLink ==
  ASSUME NEW l \in LinkType, Tied(l), HasEntry(l)
  PROVE  /\ WithoutChannel(l) \in LinkType /\ Tied(WithoutChannel(l))
         /\ WithoutChannel(l).known = l.known /\ WithoutChannel(l).open = l.open
         /\ WithoutChannel(l).retries = l.retries
         /\ WithoutChannel(l).stage = "none" /\ WithoutChannel(l).chan = NoChan
<1>1. WithoutChannel(l) = Relayed(TornDown(l))
  BY DEF WithoutChannel, Tied
<1> DEFINE t == TornDown(l)
<1>2. /\ t \in LinkType /\ Tied(t) /\ t.known = l.known /\ t.open = l.open /\ t.retries = l.retries
      /\ t.stage = "none" /\ t.chan = NoChan
  BY TornDownLink
<1> HIDE DEF t
<1>3. l.known /\ l.open /\ l.known = TRUE /\ l.open = TRUE
  BY DEF Tied, LinkType
<1>4. /\ Relayed(t) \in LinkType /\ Relayed(t).known = t.known /\ Relayed(t).stage = t.stage
      /\ Relayed(t).chan = t.chan /\ Relayed(t).retries = t.retries /\ Relayed(t).timer = t.timer
      /\ Relayed(t).open
  BY <1>2, <1>3, RelayedLink
<1>5. Relayed(t).open = TRUE
  BY <1>4 DEF LinkType
<1>6. Tied(Relayed(t))
  BY <1>2, <1>3, <1>4 DEF Tied, HasEntry
<1> QED BY <1>1, <1>2, <1>3, <1>4, <1>5, <1>6 DEF t

LEMMA ArmedLink ==
  ASSUME NEW l \in LinkType, (l.open <=> l.known), HasEntry(l) => l.known
  PROVE  /\ Armed(l) \in LinkType /\ Tied(Armed(l))
         /\ Armed(l).known = l.known /\ Armed(l).open = l.open
         /\ Armed(l).stage = l.stage /\ Armed(l).chan = l.chan
<1> DEFINE b == l.known /\ l.retries < MaxRetries
<1>1. b \in BOOLEAN /\ (b => l.retries < MaxRetries)
  BY Zenon
<1>2. Armed(l) = [l EXCEPT !.timer = b]
  BY DEF Armed
<1> HIDE DEF b
<1>3. /\ Armed(l) \in LinkType /\ Armed(l).timer = b /\ Armed(l).retries = l.retries
      /\ Armed(l).known = l.known /\ Armed(l).open = l.open
      /\ Armed(l).stage = l.stage /\ Armed(l).chan = l.chan
  BY <1>1, <1>2 DEF LinkType
<1>4. Tied(Armed(l))
  BY <1>1, <1>3 DEF Tied, HasEntry
<1> QED BY <1>3, <1>4

-----------------------------------------------------------------------------
(* What the rest is built on: types, of the mail and the pipes too; ties;   *)
(* whose channel a link has; and that nobody hears from itself.             *)
LinksOK == /\ link \in [Peers -> [Peers -> LinkType]]
           /\ \A p, q \in Peers : Tied(link[p][q])
           /\ \A p \in Peers : ~link[p][p].known

SentOK == /\ mail \in [Peers -> Seq(Message)]
          /\ pipe \in [Peers -> [Peers -> Seq(Wire)]]

Numbered(p, q, c) == \E n \in 1..made[p][q] : c = <<p, q, n>>

Named == \A p, q \in Peers :
           /\ link[p][q].chan # NoChan =>
                p # q /\ (Numbered(p, q, link[p][q].chan) \/ Numbered(q, p, link[p][q].chan))
           /\ link[p][q].stage = "offering" => Numbered(p, q, link[p][q].chan)

Proper(p, m) == /\ m.t = "joined" => p \notin m.body
                /\ m.t # "joined" => m.from # p
                /\ m.t = "offer" => Numbered(m.from, p, m.body)

Addressed == \A p \in Peers : \A i \in DOMAIN mail[p] : Proper(p, mail[p][i])

RestOK == /\ net \in [Peers -> {"connecting", "on", "off"}]
          /\ tries \in [Peers -> 0..MaxTries] /\ room \subseteq Peers
          /\ gaps \subseteq Peers \X Peers /\ trouble \in 0..MaxTrouble
MadeOK == made \in [Peers -> [Peers -> Nat]]
HasOK == has \in [Peers -> SUBSET Edits]

Base == LinksOK /\ SentOK /\ Named /\ Addressed /\ RestOK /\ MadeOK /\ HasOK

LEMMA BaseTyped == Base => TypeOK
BY DEF Base, LinksOK, RestOK, MadeOK, HasOK, TypeOK, LinkType

-----------------------------------------------------------------------------
(* The steps in which a client's links become others, and it reads its mail *)
(* (rd) or not, and sends, are of one kind.                                 *)
Live == {"answering", "paired", "open"}
Held == Live \cup {"offering", "offered"}

Shift(p, q, k, l) ==
    /\ Tied(l)
    /\ l.chan # k.chan => l.stage # "open"
    /\ l.known /\ ~k.known => l.stage # "open"
    /\ k.chan # NoChan /\ l.chan = k.chan /\ k.stage \in Live => l.stage \in Live
    /\ l.chan # k.chan /\ l.chan # NoChan =>
         /\ p # q
         /\ \/ made'[p][q] = made[p][q] + 1 /\ l.chan = <<p, q, made'[p][q]>>
            \/ l.stage \in Live /\ Numbered(q, p, l.chan)
    /\ l.stage = "offering" =>
         \/ k.stage = "offering" /\ l.chan = k.chan
         \/ made'[p][q] = made[p][q] + 1 /\ l.chan = <<p, q, made'[p][q]>>
    /\ l.stage \in Held /\ l.chan = NoChan => k.stage \in Held /\ k.chan = NoChan
    /\ p = q => ~l.known

Unread(p, rd) == IF rd THEN Box(p) ELSE mail

Reads(p, rd, after) ==
    /\ rd => net[p] = "on" /\ mail[p] # <<>>
    /\ \A q \in Peers \ {p} :
         after[q].known <=> IF rd /\ Tells(Head(mail[p]), q) THEN Head(mail[p]).t # "leave"
                            ELSE link[p][q].known

Signals(p, q, s) == \A i \in DOMAIN s :
    s[i].t \in {"offer", "answer"} /\ s[i].from = p /\ Proper(q, s[i])

Turned(p, rd, after, sigs, out) ==
    /\ rd \in BOOLEAN /\ after \in [Peers -> LinkType]
    /\ sigs \in [Peers -> Seq(Message)] /\ out \in [Peers -> Seq(Wire)]
    /\ \A q \in Peers : Shift(p, q, link[p][q], after[q])
    /\ Reads(p, rd, after)
    /\ \A q \in Peers : Signals(p, q, sigs[q])
    /\ sigs[p] = <<>> /\ out[p] = <<>>
    /\ MadeOK' /\ \A a, b \in Peers : made[a][b] <= made'[a][b]
    /\ Becomes(p, after, Unread(p, rd), sigs, out)
    /\ UNCHANGED <<net, room, trouble>>

WireMsg(p, w) == [t |-> "wire", from |-> p, body |-> w]

LEMMA AsksType ==
  ASSUME HasOK, NEW p \in Peers
  PROVE  AsksFor(p) \in Wire
BY DEF HasOK, AsksFor, Shown, Wire

LEMMA UnreadType ==
  ASSUME Base, NEW p \in Peers, NEW rd \in BOOLEAN, rd => mail[p] # <<>>
  PROVE  /\ Unread(p, rd) \in [Peers -> Seq(Message)]
         /\ Unread(p, rd)[p] = IF rd THEN Tail(mail[p]) ELSE mail[p]
         /\ \A q \in Peers \ {p} : Unread(p, rd)[q] = mail[q]
<1>1. mail \in [Peers -> Seq(Message)]
  BY DEF Base, SentOK
<1>2. rd => Tail(mail[p]) \in Seq(Message)
  BY <1>1, Rest
<1>3. CASE rd
  <2>1. Unread(p, rd) = [mail EXCEPT ![p] = Tail(mail[p])]
    BY <1>3 DEF Unread, Box
  <2> QED BY <1>1, <1>2, <1>3, <2>1
<1>4. CASE ~rd
  BY <1>1, <1>4 DEF Unread
<1> QED BY <1>3, <1>4

(* What goes to q: what p asks and what it has to say, over the channel if  *)
(* it is open; and through the hub its signals, and that if it is not.      *)
Opens(p, after, q) == after[q].open /\ ~link[p][q].open

Wires(p, after, out, q) == (IF Opens(p, after, q) THEN <<AsksFor(p)>> ELSE <<>>) \o out[q]

Carry(p, after, out, q, ws) ==
    /\ \A i \in DOMAIN ws : \/ Opens(p, after, q) /\ ws[i] = AsksFor(p)
                            \/ \E j \in DOMAIN out[q] : ws[i] = out[q][j]
    /\ Opens(p, after, q) => \E i \in DOMAIN ws : ws[i] = AsksFor(p)
    /\ \A j \in DOMAIN out[q] : \E i \in DOMAIN ws : ws[i] = out[q][j]

LEMMA WiresMade ==
  ASSUME HasOK, NEW p \in Peers, NEW after, NEW out \in [Peers -> Seq(Wire)], NEW q \in Peers
  PROVE  /\ Wires(p, after, out, q) \in Seq(Wire)
         /\ Carry(p, after, out, q, Wires(p, after, out, q))
<1> DEFINE a == IF Opens(p, after, q) THEN <<AsksFor(p)>> ELSE <<>>
           ws == Wires(p, after, out, q)
<1>1. AsksFor(p) \in Wire
  BY AsksType
<1>2. /\ a \in Seq(Wire)
      /\ \A i \in DOMAIN a : Opens(p, after, q) /\ a[i] = AsksFor(p)
      /\ Opens(p, after, q) => 1 \in DOMAIN a /\ a[1] = AsksFor(p)
  <2> HIDE DEF Wire
  <2>1. CASE Opens(p, after, q)
    BY <1>1, <2>1
  <2>2. CASE ~Opens(p, after, q)
    BY <2>2
  <2> QED BY <2>1, <2>2
<1> DEFINE o == out[q]
<1>3. o \in Seq(Wire)
  OBVIOUS
<1>4. ws = a \o o
  BY DEF Wires
<1> HIDE DEF a, ws, o
<1>5. /\ ws \in Seq(Wire)
      /\ \A i \in DOMAIN a : i \in DOMAIN ws /\ ws[i] = a[i]
      /\ \A i \in DOMAIN o : Len(a) + i \in DOMAIN ws /\ ws[Len(a) + i] = o[i]
      /\ \A i \in DOMAIN ws : i \in DOMAIN a \/ (i - Len(a) \in DOMAIN o /\ i > Len(a))
      /\ DOMAIN ws \subseteq Nat /\ Len(a) \in Nat
  BY <1>2, <1>3, <1>4, Positions
<1>6. ASSUME NEW i \in DOMAIN ws
      PROVE  \/ Opens(p, after, q) /\ ws[i] = AsksFor(p)
             \/ \E j \in DOMAIN o : ws[i] = o[j]
  <2>1. CASE i \in DOMAIN a
    BY <1>2, <1>5, <2>1
  <2>2. CASE i - Len(a) \in DOMAIN o
    <3>1. Len(a) + (i - Len(a)) = i
      BY <1>5
    <3>2. ws[i] = o[i - Len(a)]
      BY <1>5, <2>2, <3>1
    <3> QED BY <2>2, <3>2
  <2> QED BY <1>5, <2>1, <2>2
<1>7. Carry(p, after, out, q, ws)
  BY <1>2, <1>5, <1>6 DEF Carry, o
<1> QED BY <1>5, <1>7 DEF ws

(* Each of these wires is relayed in a message of its own.                  *)
Relay(p, ws) == [i \in DOMAIN ws |-> [t |-> "wire", from |-> p, body |-> ws[i]]]

LEMMA RelayType ==
  ASSUME NEW p \in Peers, NEW ws \in Seq(Wire)
  PROVE  /\ Relay(p, ws) \in Seq(Message) /\ DOMAIN Relay(p, ws) = DOMAIN ws
         /\ \A i \in DOMAIN ws : Relay(p, ws)[i] = WireMsg(p, ws[i]) /\ ws[i] \in Wire
<1>1. DOMAIN ws = 1..Len(ws) /\ Len(ws) \in Nat /\ \A i \in DOMAIN ws : ws[i] \in Wire
  BY LenProperties, ElementOfSeq
<1>2. \A i \in DOMAIN ws : WireMsg(p, ws[i]) \in Message
  BY <1>1, MessagesMade DEF WireMsg
<1>3. Relay(p, ws) = [i \in 1..Len(ws) |-> WireMsg(p, ws[i])]
  BY <1>1 DEF Relay, WireMsg
<1>4. [i \in 1..Len(ws) |-> WireMsg(p, ws[i])] \in Seq(Message)
  <2> DEFINE f == [i \in 1..Len(ws) |-> WireMsg(p, ws[i])]
  <2>1. f \in [1..Len(ws) -> Message]
    BY <1>1, <1>2
  <2> HIDE DEF f
  <2>2. f \in Seq(Message)
    BY <1>1, <2>1, SeqDef
  <2> QED BY <2>2 DEF f
<1> QED BY <1>1, <1>3, <1>4

(* The mail after such a step.                                              *)
Added(p, after, out, m, q) ==
    /\ m.from = p /\ m.t \in {"offer", "answer", "wire"} /\ Proper(q, m)
    /\ m.t = "wire" => \/ Opens(p, after, q) /\ m.body = AsksFor(p)
                       \/ \E j \in DOMAIN out[q] : m.body = out[q][j]

Relayable(p, after, q) == after[q].open /\ after[q].stage # "open" /\ Forwards(p, q)

Delivered(p, after, out, s, q) ==
    Relayable(p, after, q) =>
      /\ Opens(p, after, q) => \E i \in DOMAIN s : s[i] = WireMsg(p, AsksFor(p))
      /\ \A j \in DOMAIN out[q] : \E i \in DOMAIN s : s[i] = WireMsg(p, out[q][j])

LEMMA Sending ==
  ASSUME Base, NEW p \in Peers, NEW rd \in BOOLEAN, NEW after \in [Peers -> LinkType],
         NEW sigs \in [Peers -> Seq(Message)], NEW out \in [Peers -> Seq(Wire)],
         Turned(p, rd, after, sigs, out), NEW q \in Peers
  PROVE  \E s \in Seq(Message) :
           /\ mail'[q] = Unread(p, rd)[q] \o s
           /\ Unread(p, rd)[q] \in Seq(Message)
           /\ s # <<>> => Forwards(p, q) /\ q # p
           /\ \A i \in DOMAIN s : Added(p, after, out, s[i], q)
           /\ Delivered(p, after, out, s, q)
<1> DEFINE ws == Wires(p, after, out, q)
           sig == IF Forwards(p, q) THEN sigs[q] ELSE <<>>
           goes == after[q].stage # "open" /\ after[q].open /\ after[q].known /\ Forwards(p, q)
           rel == IF goes THEN Relay(p, ws) ELSE <<>>
           box == Unread(p, rd)[q]
<1>1. /\ rd => mail[p] # <<>>
      /\ Signals(p, q, sigs[q]) /\ Tied(after[q]) /\ Tied(after[p]) /\ ~after[p].known
      /\ sigs[p] = <<>> /\ out[p] = <<>>
  BY DEF Turned, Reads, Shift
<1>2. HasOK /\ box \in Seq(Message)
  <2>1. HasOK
    BY DEF Base
  <2>2. Unread(p, rd) \in [Peers -> Seq(Message)]
    BY <1>1, UnreadType
  <2> QED BY <2>1, <2>2
<1>3. ws \in Seq(Wire) /\ Carry(p, after, out, q, ws)
  BY <1>2, WiresMade DEF ws
<1>4. mail'[q] = box \o sig \o rel
  BY DEF Turned, Becomes, Relay, Wires, Opens
<1> HIDE DEF ws, box
<1>5. /\ Relay(p, ws) \in Seq(Message) /\ DOMAIN Relay(p, ws) = DOMAIN ws
      /\ \A i \in DOMAIN ws : Relay(p, ws)[i] = WireMsg(p, ws[i])
  BY <1>3, RelayType
<1>6. <<>> \in Seq(Message) /\ DOMAIN <<>> = {}
  BY EmptySeq
<1>7. sig \in Seq(Message) /\ rel \in Seq(Message)
  BY <1>5, <1>6
<1>8. \A i \in DOMAIN sig : Added(p, after, out, sig[i], q)
  <2> SUFFICES ASSUME NEW i \in DOMAIN sig PROVE Added(p, after, out, sig[i], q)
    OBVIOUS
  <2>1. i \in DOMAIN sigs[q] /\ sig[i] = sigs[q][i]
    BY <1>6
  <2>2. sig[i].t \in {"offer", "answer"} /\ sig[i].from = p /\ Proper(q, sig[i])
    BY <1>1, <2>1 DEF Signals
  <2> QED BY <2>2 DEF Added
<1>9. q = p => ~Opens(p, after, q) /\ ~goes
  BY <1>1 DEF Opens, Tied
<1>10. \A i \in DOMAIN rel : Added(p, after, out, rel[i], q)
  <2> SUFFICES ASSUME NEW i \in DOMAIN rel PROVE Added(p, after, out, rel[i], q)
    OBVIOUS
  <2>1. goes /\ i \in DOMAIN ws /\ rel[i] = WireMsg(p, ws[i])
    BY <1>5, <1>6
  <2>2. rel[i].t = "wire" /\ rel[i].from = p /\ rel[i].body = ws[i]
    BY <2>1 DEF WireMsg
  <2>3. q # p
    BY <1>9, <2>1
  <2>4. Proper(q, rel[i])
    BY <2>2, <2>3 DEF Proper
  <2>5. \/ Opens(p, after, q) /\ rel[i].body = AsksFor(p)
        \/ \E j \in DOMAIN out[q] : rel[i].body = out[q][j]
    BY <1>3, <2>1, <2>2 DEF Carry
  <2> QED BY <2>2, <2>4, <2>5 DEF Added
<1>11. sig # <<>> \/ rel # <<>> => Forwards(p, q) /\ q # p
  BY <1>1, <1>9
<1>12. Relayable(p, after, q) => rel = Relay(p, ws)
  BY <1>1 DEF Relayable, Tied
<1> HIDE DEF sig, rel, goes
<1>13. PICK s \in Seq(Message) :
         /\ box \o sig \o rel = box \o s
         /\ s # <<>> => sig # <<>> \/ rel # <<>>
         /\ \A i \in DOMAIN s : \/ \E j \in DOMAIN sig : s[i] = sig[j]
                                \/ \E j \in DOMAIN rel : s[i] = rel[j]
         /\ \A j \in DOMAIN rel : \E i \in DOMAIN s : s[i] = rel[j]
  BY <1>2, <1>7, TwoBatches
<1>14. \A i \in DOMAIN s : Added(p, after, out, s[i], q)
  BY <1>8, <1>10, <1>13
<1>15. Delivered(p, after, out, s, q)
  <2> SUFFICES ASSUME Relayable(p, after, q)
               PROVE  /\ Opens(p, after, q) => \E i \in DOMAIN s : s[i] = WireMsg(p, AsksFor(p))
                      /\ \A j \in DOMAIN out[q] : \E i \in DOMAIN s : s[i] = WireMsg(p, out[q][j])
    BY DEF Delivered
  <2>1. \A k \in DOMAIN ws : \E i \in DOMAIN s : s[i] = WireMsg(p, ws[k])
    BY <1>5, <1>12, <1>13
  <2> QED BY <1>3, <2>1 DEF Carry
<1> QED BY <1>2, <1>4, <1>11, <1>13, <1>14, <1>15 DEF box

(* Such a step keeps the types, and whose channels and messages these are.  *)
LEMMA NumberedGrows ==
  ASSUME MadeOK, MadeOK', NEW p \in Peers, NEW q \in Peers, made[p][q] <= made'[p][q], NEW c,
         Numbered(p, q, c)
  PROVE  Numbered(p, q, c)'
<1>1. made[p][q] \in Nat /\ made'[p][q] \in Nat
  BY DEF MadeOK
<1>2. 1..made[p][q] \subseteq 1..made'[p][q]
  BY <1>1
<1> QED BY <1>2 DEF Numbered

LEMMA TurnedLinks ==
  ASSUME LinksOK, NEW p \in Peers, NEW rd \in BOOLEAN, NEW after \in [Peers -> LinkType],
         NEW sigs \in [Peers -> Seq(Message)], NEW out \in [Peers -> Seq(Wire)],
         Turned(p, rd, after, sigs, out)
  PROVE  /\ LinksOK' /\ link'[p] = after /\ \A r \in Peers \ {p} : link'[r] = link[r]
         /\ UNCHANGED <<net, room, trouble>>
<1>1. link' = [link EXCEPT ![p] = after] /\ UNCHANGED <<net, room, trouble>>
  BY DEF Turned, Becomes
<1>2. \A q \in Peers : Tied(after[q]) /\ (p = q => ~after[q].known)
  BY DEF Turned, Shift
<1>3. /\ link' \in [Peers -> [Peers -> LinkType]]
      /\ link'[p] = after /\ \A r \in Peers \ {p} : link'[r] = link[r]
  BY <1>1 DEF LinksOK
<1>4. ASSUME NEW a \in Peers, NEW b \in Peers
      PROVE  Tied(link'[a][b]) /\ (a = b => ~link'[a][b].known)
  BY <1>2, <1>3 DEF LinksOK
<1>5. LinksOK'
  BY <1>3, <1>4 DEF LinksOK
<1> QED BY <1>1, <1>3, <1>5

LEMMA TurnedNamed ==
  ASSUME Base, NEW p \in Peers, NEW rd \in BOOLEAN, NEW after \in [Peers -> LinkType],
         NEW sigs \in [Peers -> Seq(Message)], NEW out \in [Peers -> Seq(Wire)],
         Turned(p, rd, after, sigs, out)
  PROVE  Named'
<1>1. LinksOK /\ MadeOK /\ Named
  BY DEF Base
<1>2. MadeOK' /\ \A a, b \in Peers : made[a][b] <= made'[a][b]
  BY DEF Turned
<1>3. link'[p] = after /\ \A r \in Peers \ {p} : link'[r] = link[r]
  BY <1>1, TurnedLinks
<1>4. ASSUME NEW a \in Peers, NEW b \in Peers, NEW c, c = link[a][b].chan, c # NoChan
      PROVE  a # b /\ (Numbered(a, b, c)' \/ Numbered(b, a, c)')
  <2>1. a # b /\ (Numbered(a, b, c) \/ Numbered(b, a, c))
    BY <1>1, <1>4 DEF Named
  <2> QED BY <1>1, <1>2, <2>1, NumberedGrows
<1>5. ASSUME NEW q \in Peers, NEW c, c = after[q].chan, c # NoChan
      PROVE  p # q /\ (Numbered(p, q, c)' \/ Numbered(q, p, c)')
  <2>1. CASE c = link[p][q].chan
    BY <1>4, <1>5, <2>1
  <2>2. CASE c # link[p][q].chan
    <3>1. /\ p # q
          /\ \/ made'[p][q] = made[p][q] + 1 /\ c = <<p, q, made'[p][q]>>
             \/ Numbered(q, p, c)
      BY <1>5, <2>2 DEF Turned, Shift
    <3>2. CASE made'[p][q] = made[p][q] + 1 /\ c = <<p, q, made'[p][q]>>
      <4>1. made'[p][q] \in 1..made'[p][q]
        BY <1>1, <3>2 DEF MadeOK
      <4>2. Numbered(p, q, c)'
        BY <3>2, <4>1 DEF Numbered
      <4> QED BY <3>1, <4>2
    <3>3. CASE Numbered(q, p, c)
      BY <1>1, <1>2, <3>1, <3>3, NumberedGrows
    <3> QED BY <3>1, <3>2, <3>3
  <2> QED BY <2>1, <2>2
<1>6. ASSUME NEW a \in Peers, NEW b \in Peers, NEW c, c = link[a][b].chan, link[a][b].stage = "offering"
      PROVE  Numbered(a, b, c)'
  <2>1. Numbered(a, b, c)
    BY <1>1, <1>6 DEF Named
  <2> QED BY <1>1, <1>2, <2>1, NumberedGrows
<1>7. ASSUME NEW q \in Peers, NEW c, c = after[q].chan, after[q].stage = "offering"
      PROVE  Numbered(p, q, c)'
  <2>1. \/ link[p][q].stage = "offering" /\ c = link[p][q].chan
        \/ made'[p][q] = made[p][q] + 1 /\ c = <<p, q, made'[p][q]>>
    BY <1>7 DEF Turned, Shift
  <2>2. CASE link[p][q].stage = "offering" /\ c = link[p][q].chan
    BY <1>6, <2>2
  <2>3. CASE made'[p][q] = made[p][q] + 1 /\ c = <<p, q, made'[p][q]>>
    <3>1. made'[p][q] \in 1..made'[p][q]
      BY <1>1, <2>3 DEF MadeOK
    <3> QED BY <2>3, <3>1 DEF Numbered
  <2> QED BY <2>1, <2>2, <2>3
<1>8. ASSUME NEW a \in Peers, NEW b \in Peers, NEW c, c = link'[a][b].chan
      PROVE  /\ c # NoChan => a # b /\ (Numbered(a, b, c)' \/ Numbered(b, a, c)')
             /\ link'[a][b].stage = "offering" => Numbered(a, b, c)'
  <2>1. CASE a = p
    BY <1>3, <1>5, <1>7, <1>8, <2>1
  <2>2. CASE a # p
    BY <1>3, <1>4, <1>6, <1>8, <2>2
  <2> QED BY <2>1, <2>2
<1> QED BY <1>8 DEF Named

LEMMA MailAfter ==
  ASSUME Base, NEW p \in Peers, NEW rd \in BOOLEAN, NEW after \in [Peers -> LinkType],
         NEW sigs \in [Peers -> Seq(Message)], NEW out \in [Peers -> Seq(Wire)],
         Turned(p, rd, after, sigs, out), NEW q \in Peers
  PROVE  /\ mail'[q] \in Seq(Message)
         /\ \A i \in DOMAIN mail'[q] : \/ \E j \in DOMAIN mail[q] : mail'[q][i] = mail[q][j]
                                       \/ Added(p, after, out, mail'[q][i], q)
<1>1. mail[q] \in Seq(Message) /\ (rd => mail[p] # <<>>)
  BY DEF Base, SentOK, Turned, Reads
<1> DEFINE box == Unread(p, rd)[q]
<1>2. PICK s \in Seq(Message) :
        /\ mail'[q] = box \o s /\ box \in Seq(Message)
        /\ \A i \in DOMAIN s : Added(p, after, out, s[i], q)
  <2>1. \E s \in Seq(Message) :
          /\ mail'[q] = Unread(p, rd)[q] \o s
          /\ Unread(p, rd)[q] \in Seq(Message)
          /\ s # <<>> => Forwards(p, q) /\ q # p
          /\ \A i \in DOMAIN s : Added(p, after, out, s[i], q)
          /\ Delivered(p, after, out, s, q)
    BY Sending
  <2> QED BY <2>1, Zenon
<1>3. \A i \in DOMAIN box : \E j \in DOMAIN mail[q] : box[i] = mail[q][j]
  <2>1. CASE rd /\ q = p
    <3>1. box = Tail(mail[q]) /\ mail[q] # <<>>
      BY <1>1, <2>1, UnreadType
    <3>2. \A i \in DOMAIN Tail(mail[q]) : i + 1 \in DOMAIN mail[q] /\ Tail(mail[q])[i] = mail[q][i + 1]
      BY <1>1, <3>1, Rest
    <3> QED BY <3>1, <3>2
  <2>2. CASE ~(rd /\ q = p)
    <3>1. box = mail[q]
      BY <1>1, <2>2, UnreadType
    <3> QED BY <3>1
  <2> QED BY <2>1, <2>2
<1> HIDE DEF box
<1>4. PICK c : c = mail'[q]
  OBVIOUS
<1>5. /\ c \in Seq(Message) /\ Len(box) \in Nat /\ DOMAIN c \subseteq Nat
      /\ \A i \in DOMAIN box : i \in DOMAIN c /\ c[i] = box[i]
      /\ \A i \in DOMAIN s : Len(box) + i \in DOMAIN c /\ c[Len(box) + i] = s[i]
      /\ \A i \in DOMAIN c : i \in DOMAIN box \/ (i - Len(box) \in DOMAIN s /\ i > Len(box))
  BY <1>2, <1>4, Positions
<1>6. ASSUME NEW i \in DOMAIN c
      PROVE  (\E j \in DOMAIN mail[q] : c[i] = mail[q][j]) \/ Added(p, after, out, c[i], q)
  <2>1. CASE i \in DOMAIN box
    <3>1. PICK j \in DOMAIN mail[q] : box[i] = mail[q][j]
      BY <1>3, <2>1
    <3>2. c[i] = box[i]
      BY <1>5, <2>1
    <3> QED BY <3>1, <3>2
  <2>2. CASE i - Len(box) \in DOMAIN s
    <3>1. Len(box) + (i - Len(box)) = i
      BY <1>5
    <3>2. c[i] = s[i - Len(box)]
      BY <1>5, <2>2, <3>1
    <3> QED BY <1>2, <2>2, <3>2
  <2> QED BY <1>5, <2>1, <2>2
<1> QED BY <1>4, <1>5, <1>6

LEMMA TurnedMail ==
  ASSUME Base, NEW p \in Peers, NEW rd \in BOOLEAN, NEW after \in [Peers -> LinkType],
         NEW sigs \in [Peers -> Seq(Message)], NEW out \in [Peers -> Seq(Wire)],
         Turned(p, rd, after, sigs, out)
  PROVE  mail' \in [Peers -> Seq(Message)] /\ Addressed'
<1>1. MadeOK /\ Addressed /\ SentOK
  BY DEF Base
<1>2. MadeOK' /\ (\A a, b \in Peers : made[a][b] <= made'[a][b]) /\ (rd => mail[p] # <<>>)
  BY DEF Turned, Reads
<1>3. ASSUME NEW q \in Peers, NEW m \in Message, NEW c, c = m.body, Proper(q, m)
      PROVE  Proper(q, m)'
  <2>1. m.from \in Peers
    BY MessageParts
  <2>2. CASE m.t = "offer"
    <3>1. Numbered(m.from, q, c)
      BY <1>3, <2>2 DEF Proper
    <3>2. Numbered(m.from, q, c)'
      BY <1>1, <1>2, <2>1, <3>1, NumberedGrows
    <3>3. \E n \in 1..made'[m.from][q] : m.body = <<m.from, q, n>>
      BY <1>3, <3>2 DEF Numbered
    <3> QED BY <1>3, <2>2, <3>3 DEF Proper, Numbered
  <2>3. CASE m.t # "offer"
    BY <1>3, <2>3 DEF Proper
  <2> QED BY <2>2, <2>3
<1>4. ASSUME NEW q \in Peers
      PROVE  mail'[q] \in Seq(Message) /\ \A i \in DOMAIN mail'[q] : \A m : m = mail'[q][i] => Proper(q, m)'
  <2>1. mail'[q] \in Seq(Message)
    BY MailAfter
  <2>2. mail[q] \in Seq(Message)
    BY <1>1 DEF SentOK
  <2>3. \A i \in DOMAIN mail[q] : Proper(q, mail[q][i])
    BY <1>1, Zenon DEF Addressed
  <2>4. ASSUME NEW i \in DOMAIN mail'[q], NEW m, m = mail'[q][i]
        PROVE  Proper(q, m)'
    <3>1. m \in Message
      BY <2>1, <2>4, Elements
    <3>2. (\E j \in DOMAIN mail[q] : m = mail[q][j]) \/ Added(p, after, out, m, q)
      BY <2>4, MailAfter
    <3>3. Proper(q, m)
      BY <2>3, <3>2 DEF Added
    <3> QED BY <1>3, <3>1, <3>3
  <2> QED BY <2>1, <2>4
<1>5. Addressed'
  <2> SUFFICES ASSUME NEW q \in Peers, NEW i \in DOMAIN mail'[q], NEW m, m = mail'[q][i]
               PROVE  Proper(q, m)'
    BY DEF Addressed
  <2> QED BY <1>4
<1> QED BY <1>4, <1>5 DEF Turned, Becomes

(* The pipes after such a step: emptied where the channel is torn down, and *)
(* longer where it is open.                                                 *)
Torn(p, after, q) == link[p][q].chan # NoChan /\ after[q].chan # link[p][q].chan

TornPipe(p, after, r, s) == (r = p /\ Torn(p, after, s)) \/ (s = p /\ Torn(p, after, r))

OpenPipe(p, after, s) == after[s].stage = "open" /\ after[s].chan \in up

Piped(p, after, out, r, s) ==
    pipe'[r][s] = IF TornPipe(p, after, r, s) THEN <<>>
                  ELSE IF r = p /\ OpenPipe(p, after, s) THEN pipe[r][s] \o Wires(p, after, out, s)
                  ELSE pipe[r][s]

LEMMA TurnedPipe ==
  ASSUME NEW p \in Peers, NEW rd \in BOOLEAN, NEW after \in [Peers -> LinkType],
         NEW sigs \in [Peers -> Seq(Message)], NEW out \in [Peers -> Seq(Wire)],
         Turned(p, rd, after, sigs, out), SentOK, NEW r \in Peers, NEW s \in Peers
  PROVE  Piped(p, after, out, r, s)
<1> DEFINE opens == {q \in Peers : after[q].open /\ ~link[p][q].open}
           torn  == {q \in Peers : link[p][q].chan # NoChan /\ after[q].chan # link[p][q].chan}
           over  == {q \in Peers : after[q].stage = "open"}
           wires == [q \in Peers |-> (IF q \in opens THEN <<AsksFor(p)>> ELSE <<>>) \o out[q]]
<1>1. pipe' = IF torn = {} /\ over = {} THEN pipe
              ELSE [x \in Peers |-> [y \in Peers |->
                 CASE (x = p /\ y \in torn) \/ (y = p /\ x \in torn) -> <<>>
                   [] x = p /\ y \in over /\ after[y].chan \in up -> pipe[p][y] \o wires[y]
                   [] OTHER -> pipe[x][y]]]
  BY Zenon DEF Turned, Becomes
<1>2. \A q \in Peers : wires[q] = Wires(p, after, out, q)
  BY DEF Wires, Opens
<1>3. \A q \in Peers : (q \in torn <=> Torn(p, after, q)) /\ (q \in over <=> after[q].stage = "open")
  BY DEF Torn
<1> HIDE DEF torn, over, wires
<1>4. TornPipe(p, after, r, s) <=> ((r = p /\ s \in torn) \/ (s = p /\ r \in torn))
  BY <1>3 DEF TornPipe
<1>5. (r = p /\ OpenPipe(p, after, s)) <=> (r = p /\ s \in over /\ after[s].chan \in up)
  BY <1>3 DEF OpenPipe
<1>6. CASE torn = {} /\ over = {}
  BY <1>1, <1>4, <1>5, <1>6 DEF Piped
<1>7. CASE ~(torn = {} /\ over = {})
  <2>1. pipe'[r][s] = CASE (r = p /\ s \in torn) \/ (s = p /\ r \in torn) -> <<>>
                        [] r = p /\ s \in over /\ after[s].chan \in up -> pipe[p][s] \o wires[s]
                        [] OTHER -> pipe[r][s]
    BY <1>1, <1>7
  <2>2. CASE (r = p /\ s \in torn) \/ (s = p /\ r \in torn)
    <3>1. \A q \in Peers : Torn(p, after, q) \/ q = p => after[q].stage # "open"
      BY DEF Turned, Shift, Torn, Tied, HasEntry
    <3>2. ~(r = p /\ s \in over /\ after[s].chan \in up)
      BY <1>3, <2>2, <3>1
    <3>3. pipe'[r][s] = <<>>
      BY <2>1, <2>2, <3>2
    <3> QED BY <1>4, <2>2, <3>3 DEF Piped
  <2>3. CASE ~((r = p /\ s \in torn) \/ (s = p /\ r \in torn)) /\ r = p /\ s \in over /\ after[s].chan \in up
    <3>1. pipe'[r][s] = pipe[p][s] \o wires[s]
      BY <2>1, <2>3
    <3> QED BY <1>2, <1>4, <1>5, <2>3, <3>1 DEF Piped
  <2>4. CASE /\ ~((r = p /\ s \in torn) \/ (s = p /\ r \in torn))
             /\ ~(r = p /\ s \in over /\ after[s].chan \in up)
    <3>1. pipe'[r][s] = pipe[r][s]
      BY <2>1, <2>4
    <3> QED BY <1>4, <1>5, <2>4, <3>1 DEF Piped
  <2> QED BY <2>2, <2>3, <2>4, Zenon
<1> QED BY <1>6, <1>7

LEMMA TurnedPipes ==
  ASSUME Base, NEW p \in Peers, NEW rd \in BOOLEAN, NEW after \in [Peers -> LinkType],
         NEW sigs \in [Peers -> Seq(Message)], NEW out \in [Peers -> Seq(Wire)],
         Turned(p, rd, after, sigs, out)
  PROVE  pipe' \in [Peers -> [Peers -> Seq(Wire)]]
<1>1. HasOK /\ SentOK /\ pipe \in [Peers -> [Peers -> Seq(Wire)]]
  BY DEF Base, SentOK
<1>2. ASSUME NEW r \in Peers, NEW s \in Peers
      PROVE  pipe'[r][s] \in Seq(Wire)
  <2>1. pipe[r][s] \in Seq(Wire) /\ Wires(p, after, out, s) \in Seq(Wire) /\ <<>> \in Seq(Wire)
    BY <1>1, WiresMade, EmptySeq
  <2>2. pipe[r][s] \o Wires(p, after, out, s) \in Seq(Wire)
    BY <2>1, ConcatProperties
  <2>3. Piped(p, after, out, r, s)
    BY <1>1, TurnedPipe
  <2> QED BY <2>1, <2>2, <2>3 DEF Piped
<1> DEFINE torn  == {q \in Peers : link[p][q].chan # NoChan /\ after[q].chan # link[p][q].chan}
           over  == {q \in Peers : after[q].stage = "open"}
           opens == {q \in Peers : after[q].open /\ ~link[p][q].open}
           wires == [q \in Peers |-> (IF q \in opens THEN <<AsksFor(p)>> ELSE <<>>) \o out[q]]
           goes(x, y) == CASE (x = p /\ y \in torn) \/ (y = p /\ x \in torn) -> <<>>
                           [] x = p /\ y \in over /\ after[y].chan \in up -> pipe[p][y] \o wires[y]
                           [] OTHER -> pipe[x][y]
           f == [x \in Peers |-> [y \in Peers |-> goes(x, y)]]
<1>3. pipe' = pipe \/ pipe' = f
  BY Zenon DEF Turned, Becomes
<1> HIDE DEF goes
<1>4. CASE pipe' = f
  <2>1. f = [x \in Peers |-> f[x]] /\ \A x \in Peers : f[x] = [y \in Peers |-> f[x][y]]
    OBVIOUS
  <2> HIDE DEF f
  <2>2. ASSUME NEW x \in Peers PROVE f[x] \in [Peers -> Seq(Wire)]
    <3>1. \A y \in Peers : f[x][y] \in Seq(Wire)
      BY <1>2, <1>4
    <3> QED BY <2>1, <3>1
  <2>3. f \in [Peers -> [Peers -> Seq(Wire)]]
    BY <2>1, <2>2
  <2> QED BY <1>4, <2>3
<1> HIDE DEF f
<1> QED BY <1>1, <1>3, <1>4

LEMMA LostPairs ==
  ASSUME NEW p \in Peers, NEW q \in Peers, NEW ws
  PROVE  Lost(p, q, ws) \subseteq Peers \X Peers
BY DEF Lost, Gap

LEMMA TurnedRest ==
  ASSUME Base, NEW p \in Peers, NEW rd \in BOOLEAN, NEW after \in [Peers -> LinkType],
         NEW sigs \in [Peers -> Seq(Message)], NEW out \in [Peers -> Seq(Wire)],
         Turned(p, rd, after, sigs, out)
  PROVE  RestOK'
<1>1. RestOK
  BY DEF Base
<1>2. UNCHANGED <<net, room, trouble>>
  BY DEF Turned
<1>3. tries' \in [Peers -> 0..MaxTries]
  <2>1. 0 \in 0..MaxTries
    BY LinkAssumption DEF LinkAssumption
  <2>2. tries' = [tries EXCEPT ![p] = 0] \/ tries' = tries
    BY Zenon DEF Turned, Becomes
  <2> QED BY <1>1, <2>1, <2>2 DEF RestOK
<1>4. gaps' \subseteq Peers \X Peers
  <2> DEFINE opens == {q \in Peers : after[q].open /\ ~link[p][q].open}
             torn  == {q \in Peers : link[p][q].chan # NoChan /\ after[q].chan # link[p][q].chan}
             over  == {q \in Peers : after[q].stage = "open"}
             wires == [q \in Peers |-> (IF q \in opens THEN <<AsksFor(p)>> ELSE <<>>) \o out[q]]
             lost  == UNION {Lost(p, q, pipe[p][q]) \cup Lost(q, p, pipe[q][p]) : q \in torn}
             cast  == UNION {Lost(p, q, wires[q]) : q \in {r \in over : after[r].chan \notin up}}
  <2>1. gaps' = ((gaps \cup lost) \ {<<q, p>> : q \in opens}) \cup cast
    BY Zenon DEF Turned, Becomes
  <2>2. lost \subseteq Peers \X Peers
    <3>1. \A q \in torn : Lost(p, q, pipe[p][q]) \cup Lost(q, p, pipe[q][p]) \subseteq Peers \X Peers
      BY LostPairs
    <3> QED BY <3>1
  <2>3. cast \subseteq Peers \X Peers
    <3>1. \A q \in over : Lost(p, q, wires[q]) \subseteq Peers \X Peers
      BY LostPairs
    <3> HIDE DEF wires
    <3> QED BY <3>1
  <2> HIDE DEF lost, cast
  <2> QED BY <1>1, <2>1, <2>2, <2>3 DEF RestOK
<1> QED BY <1>1, <1>2, <1>3, <1>4 DEF RestOK

-----------------------------------------------------------------------------
(* The documents.  Nothing is made up: an edit that a document or a wire    *)
(* has is in its author's document, with the earlier ones of this author.   *)
Real(w) == \A e \in w.edits : e \in has[e[1]]

Kept(p) == \A e \in has[p] :
             /\ e \in has[e[1]]
             /\ e[1] = p => \A n \in 1..e[2] : <<p, n>> \in has[p]

HasInv ==
    /\ \A p \in Peers : Kept(p)
    /\ \A p \in Peers : \A i \in DOMAIN mail[p] :
         mail[p][i].t = "wire" => Real(mail[p][i].body)
    /\ \A p, q \in Peers : \A i \in DOMAIN pipe[p][q] : Real(pipe[p][q][i])

LinkInv == Base /\ HasInv

(* What a step of the kind above does to p's document, and sends of it: its *)
(* new edits to all who are open; to a wire that asks, all that it lacks.   *)
Tell(out, q, edits) == \E i \in DOMAIN out[q] : edits \subseteq out[q][i].edits

Docs(p, rd, after, out) ==
    /\ HasOK' /\ has[p] \subseteq has'[p] /\ \A q \in Peers \ {p} : has'[q] = has[q]
    /\ Kept(p)'
    /\ \A q \in Peers : \A i \in DOMAIN out[q] :
         out[q][i].kind # "step1" /\ out[q][i].edits \subseteq has'[p]
    /\ net[p] = "on" => \A e \in has'[p] \ has[p] : e[1] = p =>
         ~rd /\ \A q \in Peers \ {p} : link[p][q].open => Tell(out, q, {e})
    /\ rd /\ Head(mail[p]).t = "wire" =>
         LET m == Head(mail[p])
         IN  /\ m.body.kind = "step1" => /\ after[m.from].open
                                         /\ Tell(out, m.from, has[p] \ m.body.edits)
             /\ m.body.kind # "step1" => m.body.edits \subseteq has'[p]

Turning(p) ==
    \E rd \in BOOLEAN, after \in [Peers -> LinkType],
       sigs \in [Peers -> Seq(Message)], out \in [Peers -> Seq(Wire)] :
         Turned(p, rd, after, sigs, out) /\ Docs(p, rd, after, out)

LEMMA SilenceType ==
  /\ Silence \in [Peers -> Seq(Message)] /\ Silence \in [Peers -> Seq(Wire)]
  /\ \A q \in Peers : Silence[q] = <<>>
<1>1. <<>> \in Seq(Message) /\ <<>> \in Seq(Wire)
  BY EmptySeq
<1> QED BY <1>1 DEF Silence

LEMMA SameLink ==
  ASSUME LinksOK, NEW p \in Peers, NEW q \in Peers
  PROVE  link[p][q] \in LinkType /\ Shift(p, q, link[p][q], link[p][q])
BY DEF LinksOK, Shift, Held, Live

(* Most of them change one link.                                            *)
Single(p, q, rd, l, sig, o) ==
    /\ Shift(p, q, link[p][q], l) /\ Signals(p, q, sig)
    /\ rd => net[p] = "on" /\ mail[p] # <<>> /\ \A r \in Peers \ {q} : ~Tells(Head(mail[p]), r)
    /\ l.known <=> IF rd /\ Tells(Head(mail[p]), q) THEN Head(mail[p]).t # "leave"
                   ELSE link[p][q].known
    /\ MadeOK' /\ \A a, b \in Peers : made[a][b] <= made'[a][b]
    /\ Turns(p, q, l, Unread(p, rd), sig, o)
    /\ UNCHANGED <<net, room, trouble>>

Put(f, q, x) == [f EXCEPT ![q] = x]

LEMMA OneLink ==
  ASSUME Base, NEW p \in Peers, NEW q \in Peers \ {p}, NEW rd \in BOOLEAN, NEW l \in LinkType,
         NEW sig \in Seq(Message), NEW o \in Seq(Wire),
         Single(p, q, rd, l, sig, o)
  PROVE  /\ Turned(p, rd, Put(link[p], q, l), Put(Silence, q, sig),
                   Put(Silence, q, o))
         /\ Put(link[p], q, l) \in [Peers -> LinkType]
         /\ Put(Silence, q, sig) \in [Peers -> Seq(Message)]
         /\ Put(Silence, q, o) \in [Peers -> Seq(Wire)]
<1> DEFINE after == Put(link[p], q, l)
           sigs == Put(Silence, q, sig)
           out == Put(Silence, q, o)
<1>1. LinksOK /\ link[p] \in [Peers -> LinkType]
  BY DEF Base, LinksOK
<1>2. after \in [Peers -> LinkType] /\ after[q] = l /\ \A r \in Peers \ {q} : after[r] = link[p][r]
  BY <1>1 DEF Put
<1>3. sigs \in [Peers -> Seq(Message)] /\ sigs[q] = sig /\ \A r \in Peers \ {q} : sigs[r] = <<>>
  BY SilenceType DEF Put
<1>4. out \in [Peers -> Seq(Wire)] /\ out[q] = o /\ \A r \in Peers \ {q} : out[r] = <<>>
  BY SilenceType DEF Put
<1>5. Becomes(p, after, Unread(p, rd), sigs, out)
  BY DEF Single, Turns, Put
<1> HIDE DEF after, sigs, out
<1>6. \A r \in Peers : Shift(p, r, link[p][r], after[r])
  <2> SUFFICES ASSUME NEW r \in Peers PROVE Shift(p, r, link[p][r], after[r])
    OBVIOUS
  <2>1. CASE r = q
    BY <1>2, <2>1 DEF Single
  <2>2. CASE r # q
    <3>1. after[r] = link[p][r] /\ Shift(p, r, link[p][r], link[p][r])
      BY <1>1, <1>2, <2>2, SameLink
    <3> QED BY <3>1
  <2> QED BY <2>1, <2>2
<1>7. Reads(p, rd, after)
  <2> SUFFICES ASSUME NEW r \in Peers \ {p}
               PROVE  after[r].known <=> IF rd /\ Tells(Head(mail[p]), r)
                                         THEN Head(mail[p]).t # "leave" ELSE link[p][r].known
    BY DEF Reads, Single
  <2>1. CASE r = q
    BY <1>2, <2>1 DEF Single
  <2>2. CASE r # q
    BY <1>2, <2>2 DEF Single
  <2> QED BY <2>1, <2>2
<1>8. \A r \in Peers : Signals(p, r, sigs[r])
  <2> SUFFICES ASSUME NEW r \in Peers PROVE Signals(p, r, sigs[r])
    OBVIOUS
  <2>1. CASE r = q
    BY <1>3, <2>1 DEF Single
  <2>2. CASE r # q
    <3>1. DOMAIN sigs[r] = {}
      BY <1>3, <2>2
    <3> QED BY <3>1 DEF Signals
  <2> QED BY <2>1, <2>2
<1>9. sigs[p] = <<>> /\ out[p] = <<>>
  BY <1>3, <1>4
<1>10. Turned(p, rd, after, sigs, out)
  BY <1>2, <1>3, <1>4, <1>5, <1>6, <1>7, <1>8, <1>9 DEF Turned, Single
<1> QED BY <1>2, <1>3, <1>4, <1>10 DEF after, sigs, out

(* A step of this kind that has nothing to do with the documents.           *)
LEMMA QuietTurn ==
  ASSUME LinkInv, NEW p \in Peers, NEW q \in Peers \ {p}, NEW rd \in BOOLEAN, NEW l \in LinkType,
         NEW sig \in Seq(Message), Single(p, q, rd, l, sig, <<>>),
         rd => Head(mail[p]).t # "wire", UNCHANGED has
  PROVE  Turning(p)
<1>1. Base /\ HasInv /\ HasOK /\ <<>> \in Seq(Wire)
  BY EmptySeq DEF LinkInv, Base
<1> DEFINE after == Put(link[p], q, l)
           sigs == Put(Silence, q, sig)
           out == Put(Silence, q, <<>>)
<1>2. /\ Turned(p, rd, after, sigs, out)
      /\ after \in [Peers -> LinkType] /\ sigs \in [Peers -> Seq(Message)]
      /\ out \in [Peers -> Seq(Wire)]
  <2>1. ASSUME NEW o \in Seq(Wire), Single(p, q, rd, l, sig, o)
        PROVE  /\ Turned(p, rd, Put(link[p], q, l), Put(Silence, q, sig), Put(Silence, q, o))
               /\ Put(link[p], q, l) \in [Peers -> LinkType]
               /\ Put(Silence, q, sig) \in [Peers -> Seq(Message)]
               /\ Put(Silence, q, o) \in [Peers -> Seq(Wire)]
    BY <1>1, <2>1, OneLink
  <2> QED BY <1>1, <2>1, Zenon
<1>3. \A r \in Peers : out[r] = <<>>
  BY SilenceType DEF Put
<1> HIDE DEF after, sigs, out
<1>4. Docs(p, rd, after, out)
  <2>1. HasOK' /\ Kept(p)'
    BY <1>1 DEF HasOK, HasInv, Kept
  <2>2. \A r \in Peers : \A i \in DOMAIN out[r] :
          out[r][i].kind # "step1" /\ out[r][i].edits \subseteq has'[p]
    BY <1>3
  <2> QED BY <2>1, <2>2 DEF Docs
<1> QED BY <1>2, <1>4 DEF Turning

(* Each of a client's own steps is such a step.                             *)
LEMMA SameMade ==
  ASSUME MadeOK, UNCHANGED made
  PROVE  MadeOK' /\ \A a, b \in Peers : made[a][b] <= made'[a][b]
<1>1. MadeOK'
  BY DEF MadeOK
<1>2. ASSUME NEW a \in Peers, NEW b \in Peers PROVE made[a][b] <= made'[a][b]
  <2>1. made[a][b] \in Nat
    BY DEF MadeOK
  <2> QED BY <2>1
<1> QED BY <1>1, <1>2

LEMMA SendOfferTurns ==
  ASSUME LinkInv, NEW p \in Peers, NEW q \in Peers \ {p}, SendOffer(p, q)
  PROVE  Turning(p)
<1>1. LinksOK /\ Named /\ MadeOK
  BY DEF LinkInv, Base
<1> DEFINE k == link[p][q]
           j == [k EXCEPT !.stage = "offered"]
           l == Armed(j)
           m == [t |-> "offer", from |-> p, body |-> k.chan]
<1>2. k \in LinkType /\ Tied(k) /\ k.stage = "offering" /\ Numbered(p, q, k.chan)
  BY <1>1 DEF LinksOK, Named, SendOffer
<1>3. /\ Turns(p, q, l, mail, <<m>>, <<>>)
      /\ UNCHANGED <<net, room, trouble, made, has>>
  BY DEF SendOffer
<1>4. m \in Message /\ m.t = "offer" /\ m.from = p /\ m.body = k.chan
  BY <1>2, MessagesMade DEF LinkType
<1> HIDE DEF k, m
<1>5. /\ j \in LinkType /\ (j.open <=> j.known) /\ j.known /\ j.stage = "offered"
      /\ j.chan = k.chan /\ j.known = k.known
  BY <1>2 DEF LinkType, Tied, HasEntry, Stages
<1> HIDE DEF j
<1>6. /\ l \in LinkType /\ Tied(l) /\ l.known = k.known /\ l.open = j.open
      /\ l.stage = "offered" /\ l.chan = k.chan
  BY <1>5, ArmedLink
<1> HIDE DEF l
<1>7. Shift(p, q, k, l)
  BY <1>2, <1>5, <1>6 DEF Shift, Held, Live
<1>8. Proper(q, m)
  BY <1>2, <1>4 DEF Proper
<1>9. <<m>> \in Seq(Message) /\ Signals(p, q, <<m>>)
  BY <1>4, <1>8, OneMessage DEF Signals
<1>10. Single(p, q, FALSE, l, <<m>>, <<>>)
  BY <1>1, <1>3, <1>6, <1>7, <1>9, SameMade DEF Single, Unread, k
<1> QED BY <1>3, <1>6, <1>9, <1>10, QuietTurn, Zenon

LEMMA SendAnswerTurns ==
  ASSUME LinkInv, NEW p \in Peers, NEW q \in Peers \ {p}, SendAnswer(p, q)
  PROVE  Turning(p)
<1>1. LinksOK /\ MadeOK
  BY DEF LinkInv, Base
<1> DEFINE k == link[p][q]
           l == [k EXCEPT !.stage = "paired"]
           m == [t |-> "answer", from |-> p, body |-> k.chan]
<1>2. k \in LinkType /\ Tied(k) /\ k.stage = "answering"
  BY <1>1 DEF LinksOK, SendAnswer
<1>3. /\ Turns(p, q, l, mail, <<m>>, <<>>)
      /\ UNCHANGED <<net, room, trouble, made, has>>
  BY DEF SendAnswer
<1>4. m \in Message /\ m.t = "answer" /\ m.from = p
  BY <1>2, MessagesMade DEF LinkType
<1> HIDE DEF k, m
<1>5. /\ l \in LinkType /\ l.known = k.known /\ l.open = k.open /\ l.stage = "paired"
      /\ l.chan = k.chan /\ l.timer = k.timer /\ l.retries = k.retries
  BY <1>2 DEF LinkType, Stages
<1> HIDE DEF l
<1>6. Shift(p, q, k, l)
  BY <1>2, <1>5 DEF Shift, Held, Live, Tied, HasEntry
<1>7. Proper(q, m)
  BY <1>4 DEF Proper
<1>8. <<m>> \in Seq(Message) /\ Signals(p, q, <<m>>)
  BY <1>4, <1>7, OneMessage DEF Signals
<1>9. Single(p, q, FALSE, l, <<m>>, <<>>)
  BY <1>1, <1>3, <1>5, <1>6, <1>8, SameMade DEF Single, Unread, k
<1> QED BY <1>3, <1>5, <1>8, <1>9, QuietTurn, Zenon

LEMMA NoSignals ==
  ASSUME NEW p, NEW q
  PROVE  <<>> \in Seq(Message) /\ Signals(p, q, <<>>)
BY EmptySeq DEF Signals

LEMMA ChannelOpensTurns ==
  ASSUME LinkInv, NEW p \in Peers, NEW q \in Peers \ {p}, ChannelOpens(p, q)
  PROVE  Turning(p)
<1>1. LinksOK /\ MadeOK
  BY DEF LinkInv, Base
<1> DEFINE k == link[p][q]
           l == [k EXCEPT !.stage = "open", !.open = TRUE, !.timer = FALSE, !.retries = 0]
<1>2. k \in LinkType /\ Tied(k) /\ k.stage = "paired"
  BY <1>1 DEF LinksOK, ChannelOpens
<1>3. /\ Turns(p, q, l, mail, <<>>, <<>>)
      /\ UNCHANGED <<net, room, trouble, made, has>>
  BY DEF ChannelOpens
<1> HIDE DEF k
<1>4. 0 \in 0..MaxRetries
  BY LinkAssumption DEF LinkAssumption
<1>5. /\ l \in LinkType /\ l.known = k.known /\ l.open /\ l.stage = "open"
      /\ l.chan = k.chan /\ ~l.timer
  BY <1>2, <1>4 DEF LinkType, Stages
<1> HIDE DEF l
<1>6. k.known /\ l.known /\ Tied(l)
  BY <1>2, <1>5 DEF Tied, HasEntry
<1>7. Shift(p, q, k, l)
  BY <1>2, <1>5, <1>6 DEF Shift, Held, Live
<1>8. Single(p, q, FALSE, l, <<>>, <<>>)
  BY <1>1, <1>3, <1>5, <1>7, NoSignals, SameMade DEF Single, Unread, k
<1> QED BY <1>3, <1>5, <1>8, NoSignals, QuietTurn, Zenon

LEMMA ChannelClosesTurns ==
  ASSUME LinkInv, NEW p \in Peers, NEW q \in Peers \ {p}, ChannelCloses(p, q)
  PROVE  Turning(p)
<1>1. LinksOK /\ MadeOK
  BY DEF LinkInv, Base
<1> DEFINE k == link[p][q]
           l == WithoutChannel(k)
<1>2. k \in LinkType /\ Tied(k) /\ k.stage = "open"
  BY <1>1 DEF LinksOK, ChannelCloses
<1>3. /\ Turns(p, q, l, mail, <<>>, <<>>)
      /\ UNCHANGED <<net, room, trouble, made, has>>
  BY DEF ChannelCloses
<1> HIDE DEF k
<1>4. l \in LinkType /\ Tied(l) /\ l.known = k.known /\ l.stage = "none" /\ l.chan = NoChan
  BY <1>2, WithoutChannelLink DEF HasEntry
<1> HIDE DEF l
<1>5. Shift(p, q, k, l)
  BY <1>2, <1>4 DEF Shift, Held, Live
<1>6. Single(p, q, FALSE, l, <<>>, <<>>)
  BY <1>1, <1>3, <1>4, <1>5, NoSignals, SameMade DEF Single, Unread, k
<1> QED BY <1>3, <1>4, <1>6, NoSignals, QuietTurn, Zenon

LEMMA ConnectionFailsTurns ==
  ASSUME LinkInv, NEW p \in Peers, NEW q \in Peers \ {p}, ConnectionFails(p, q)
  PROVE  Turning(p)
<1>1. LinksOK /\ MadeOK
  BY DEF LinkInv, Base
<1> DEFINE k == link[p][q]
           w == WithoutChannel(k)
           l == IF k.chan[1] = p /\ k.known THEN Armed(w) ELSE w
<1>2. k \in LinkType /\ Tied(k) /\ k.stage \in {"paired", "stuck", "open"}
  BY <1>1 DEF LinksOK, ConnectionFails
<1>3. /\ Turns(p, q, l, mail, <<>>, <<>>)
      /\ UNCHANGED <<net, room, trouble, made, has>>
  BY DEF ConnectionFails
<1> HIDE DEF k
<1>4. w \in LinkType /\ Tied(w) /\ w.known = k.known /\ w.stage = "none" /\ w.chan = NoChan
  BY <1>2, WithoutChannelLink DEF HasEntry
<1> HIDE DEF w
<1>5. (w.open <=> w.known) /\ (HasEntry(w) => w.known)
  BY <1>4 DEF Tied
<1>6. /\ Armed(w) \in LinkType /\ Tied(Armed(w)) /\ Armed(w).known = k.known
      /\ Armed(w).stage = "none" /\ Armed(w).chan = NoChan
  BY <1>4, <1>5, ArmedLink
<1>7. l \in LinkType /\ Tied(l) /\ l.known = k.known /\ l.stage = "none" /\ l.chan = NoChan
  BY <1>4, <1>6
<1> HIDE DEF l
<1>8. Shift(p, q, k, l)
  BY <1>2, <1>7 DEF Shift, Held, Live
<1>9. Single(p, q, FALSE, l, <<>>, <<>>)
  BY <1>1, <1>3, <1>7, <1>8, NoSignals, SameMade DEF Single, Unread, k
<1> QED BY <1>3, <1>7, <1>9, NoSignals, QuietTurn, Zenon

(* A new offer has a channel of its own.                                    *)
LEMMA OfferedLink ==
  ASSUME LinksOK, Named, MadeOK, NEW p \in Peers, NEW q \in Peers \ {p},
         NEW l \in LinkType, Tied(l), l.known, l.stage = "none"
  PROVE  LET o == Offering(p, q, l)
         IN  /\ o \in LinkType /\ Tied(o) /\ o.known /\ o.stage = "offering"
             /\ o.chan = <<p, q, made[p][q] + 1>> /\ o.chan # NoChan /\ o.chan # link[p][q].chan
<1> DEFINE c == <<p, q, made[p][q] + 1>>
           k == link[p][q]
           o == Offering(p, q, l)
<1>1. made[p][q] \in Nat
  BY DEF MadeOK
<1>2. c \in Chans /\ c # NoChan /\ c[1] = p /\ c[2] = q /\ c[3] = made[p][q] + 1
  BY <1>1 DEF Chans, NoChan
<1>3. c # k.chan
  <2>1. CASE Numbered(p, q, k.chan)
    <3>1. PICK n \in 1..made[p][q] : k.chan = <<p, q, n>>
      BY <2>1 DEF Numbered
    <3> QED BY <1>1, <1>2, <3>1
  <2>2. CASE Numbered(q, p, k.chan)
    <3>1. PICK n \in 1..made[q][p] : k.chan = <<q, p, n>>
      BY <2>2 DEF Numbered
    <3> QED BY <1>2, <3>1
  <2>3. CASE k.chan = NoChan
    BY <1>2, <2>3
  <2>4. k.chan # NoChan => Numbered(p, q, k.chan) \/ Numbered(q, p, k.chan)
    BY DEF Named
  <2> QED BY <2>1, <2>2, <2>3, <2>4
<1>4. o = [l EXCEPT !.stage = "offering", !.chan = c]
  BY DEF Offering
<1> HIDE DEF c, k, o
<1>5. /\ o \in LinkType /\ o.known = l.known /\ o.open = l.open /\ o.stage = "offering" /\ o.chan = c
      /\ o.timer = l.timer /\ o.retries = l.retries
  BY <1>2, <1>4 DEF LinkType, Stages
<1>6. o.known /\ Tied(o)
  BY <1>5 DEF Tied
<1> QED BY <1>2, <1>3, <1>5, <1>6 DEF c, k, o

LEMMA MoreMade ==
  ASSUME MadeOK, NEW p \in Peers, NEW q \in Peers, made' = [made EXCEPT ![p][q] = @ + 1]
  PROVE  /\ MadeOK' /\ (\A a, b \in Peers : made[a][b] <= made'[a][b])
         /\ made'[p][q] = made[p][q] + 1
<1>1. MadeOK' /\ made'[p][q] = made[p][q] + 1
  BY DEF MadeOK
<1>2. ASSUME NEW a \in Peers, NEW b \in Peers PROVE made[a][b] <= made'[a][b]
  <2>1. made[a][b] \in Nat /\ (made'[a][b] = made[a][b] \/ made'[a][b] = made[a][b] + 1)
    BY DEF MadeOK
  <2> QED BY <2>1
<1> QED BY <1>1, <1>2

LEMMA RetryTurns ==
  ASSUME LinkInv, NEW p \in Peers, NEW q \in Peers \ {p}, RetryFires(p, q)
  PROVE  Turning(p)
<1>1. LinksOK /\ MadeOK /\ Named /\ made \in [Peers -> [Peers -> Nat]]
  BY DEF LinkInv, Base, MadeOK
<1> DEFINE k == link[p][q]
           j == [k EXCEPT !.timer = FALSE]
           again == j.known /\ j.stage # "open"
           r == [j EXCEPT !.retries = @ + 1]
           t == TornDown(r)
           l == IF again THEN Offering(p, q, t) ELSE j
<1>2. k \in LinkType /\ Tied(k) /\ k.timer /\ k.retries < MaxRetries /\ k.retries \in 0..MaxRetries
  BY <1>1 DEF LinksOK, RetryFires, Tied, LinkType
<1>3. /\ Turns(p, q, l, mail, <<>>, <<>>)
      /\ made' = [made EXCEPT ![p][q] = IF again THEN @ + 1 ELSE @]
      /\ UNCHANGED <<net, room, trouble, has>>
  BY DEF RetryFires
<1> HIDE DEF k
<1>4. /\ j \in LinkType /\ ~j.timer /\ j.known = k.known /\ j.open = k.open /\ j.stage = k.stage
      /\ j.chan = k.chan /\ j.retries = k.retries
  BY <1>2 DEF LinkType
<1> HIDE DEF j
<1>5. Tied(j)
  BY <1>2, <1>4 DEF Tied, HasEntry
<1>6. CASE again
  <2>1. k.retries + 1 \in 0..MaxRetries
    BY <1>2, LinkAssumption DEF LinkAssumption
  <2>2. /\ r \in LinkType /\ ~r.timer /\ r.known = j.known /\ r.open = j.open /\ r.stage = j.stage
        /\ r.chan = j.chan
    BY <1>4, <2>1 DEF LinkType
  <2> HIDE DEF r
  <2>3. Tied(r) /\ r.known
    BY <1>5, <1>6, <2>2 DEF Tied, HasEntry
  <2>4. t \in LinkType /\ Tied(t) /\ t.known = r.known /\ t.stage = "none"
    BY <2>2, <2>3, TornDownLink
  <2> HIDE DEF t
  <2>5. t.known /\ l = Offering(p, q, t)
    BY <1>6, <2>3, <2>4
  <2>6. /\ l \in LinkType /\ Tied(l) /\ l.known /\ l.stage = "offering"
        /\ l.chan = <<p, q, made[p][q] + 1>> /\ l.chan # NoChan /\ l.chan # k.chan
    BY <1>1, <2>4, <2>5, OfferedLink DEF k
  <2>7. made' = [made EXCEPT ![p][q] = @ + 1]
    BY <1>1, <1>3, <1>6
  <2>8. /\ MadeOK' /\ (\A a, b \in Peers : made[a][b] <= made'[a][b])
        /\ made'[p][q] = made[p][q] + 1
    BY <1>1, <2>7, MoreMade
  <2>9. k.known
    BY <1>4, <1>6
  <2> HIDE DEF l
  <2>10. Shift(p, q, k, l)
    BY <2>6, <2>8, <2>9 DEF Shift, Held, Live
  <2>11. Single(p, q, FALSE, l, <<>>, <<>>)
    BY <1>3, <2>6, <2>8, <2>9, <2>10, NoSignals DEF Single, Unread, k
  <2> QED BY <1>3, <2>6, <2>11, NoSignals, QuietTurn, Zenon
<1>7. CASE ~again
  <2>1. l = j
    BY <1>7
  <2>2. made' = made
    BY <1>1, <1>3, <1>7
  <2>3. Shift(p, q, k, j)
    BY <1>2, <1>4, <1>5, <1>7 DEF Shift, Held, Live, Tied, HasEntry
  <2>4. Single(p, q, FALSE, j, <<>>, <<>>)
    BY <1>1, <1>3, <1>4, <2>1, <2>2, <2>3, NoSignals, SameMade DEF Single, Unread, k
  <2> QED BY <1>3, <1>4, <2>4, NoSignals, QuietTurn, Zenon
<1> QED BY <1>6, <1>7

(* And so is its reading of a message.                                      *)
LEMMA Hearing ==
  ASSUME Base, NEW p \in Peers, NEW t, t # "joined", Hears(p, t)
  PROVE  LET m == Head(mail[p])
         IN  /\ m \in Message /\ m.t = t /\ m.from \in Peers \ {p} /\ Proper(p, m)
             /\ Tells(m, m.from) /\ \A r \in Peers \ {m.from} : ~Tells(m, r)
             /\ net[p] = "on" /\ mail[p] # <<>> /\ UNCHANGED <<net, room, trouble>>
<1> DEFINE m == Head(mail[p])
<1>1. mail[p] \in Seq(Message) /\ Addressed
  BY DEF Base, SentOK
<1>2. mail[p] # <<>> /\ net[p] = "on" /\ m.t = t /\ UNCHANGED <<net, room, trouble>>
  BY DEF Hears
<1>3. m \in Message /\ 1 \in DOMAIN mail[p] /\ m = mail[p][1]
  BY <1>1, <1>2, Rest
<1>4. Proper(p, m)
  BY <1>1, <1>3 DEF Addressed
<1> HIDE DEF m
<1>5. m.from \in Peers
  BY <1>3, MessageParts
<1>6. m.from # p
  BY <1>2, <1>4 DEF Proper
<1>7. Tells(m, m.from) /\ \A r \in Peers \ {m.from} : ~Tells(m, r)
  BY <1>2 DEF Tells
<1> QED BY <1>2, <1>3, <1>4, <1>5, <1>6, <1>7 DEF m

LEMMA OnPeerTurns ==
  ASSUME LinkInv, NEW p \in Peers, OnPeer(p)
  PROVE  Turning(p)
<1> DEFINE m == Head(mail[p])
           q == m.from
           k == link[p][q]
           l == Known(k)
<1>1. Base /\ LinksOK /\ MadeOK
  BY DEF LinkInv, Base
<1>2. Hears(p, "peer") /\ Turns(p, q, l, Box(p), <<>>, <<>>) /\ UNCHANGED <<made, has>>
  BY DEF OnPeer
<1>3. /\ m.t = "peer" /\ q \in Peers \ {p} /\ Tells(m, q) /\ \A r \in Peers \ {q} : ~Tells(m, r)
      /\ net[p] = "on" /\ mail[p] # <<>> /\ UNCHANGED <<net, room, trouble>>
  BY <1>1, <1>2, Hearing
<1> HIDE DEF q
<1>4. k \in LinkType /\ Tied(k)
  BY <1>1, <1>3 DEF LinksOK
<1> HIDE DEF k
<1>5. l \in LinkType /\ Tied(l) /\ l.known /\ l.stage = k.stage /\ l.chan = k.chan
  BY <1>4, KnownLink
<1> HIDE DEF l
<1>6. Shift(p, q, k, l)
  BY <1>3, <1>4, <1>5 DEF Shift, Held, Live, Tied, HasEntry
<1>7. Single(p, q, TRUE, l, <<>>, <<>>)
  BY <1>1, <1>2, <1>3, <1>5, <1>6, NoSignals, SameMade DEF Single, Unread, k
<1>8. Head(mail[p]).t # "wire"
  BY <1>3
<1> QED BY <1>2, <1>3, <1>5, <1>7, <1>8, NoSignals, QuietTurn, Zenon

LEMMA OnLeaveTurns ==
  ASSUME LinkInv, NEW p \in Peers, OnLeave(p)
  PROVE  Turning(p)
<1> DEFINE m == Head(mail[p])
           q == m.from
           k == link[p][q]
           l == Forgotten([k EXCEPT !.known = FALSE])
<1>1. Base /\ LinksOK /\ MadeOK
  BY DEF LinkInv, Base
<1>2. Hears(p, "leave") /\ Turns(p, q, l, Box(p), <<>>, <<>>) /\ UNCHANGED <<made, has>>
  BY DEF OnLeave
<1>3. /\ m.t = "leave" /\ q \in Peers \ {p} /\ Tells(m, q) /\ \A r \in Peers \ {q} : ~Tells(m, r)
      /\ net[p] = "on" /\ mail[p] # <<>> /\ UNCHANGED <<net, room, trouble>>
  BY <1>1, <1>2, Hearing
<1> HIDE DEF q
<1>4. k \in LinkType /\ Tied(k)
  BY <1>1, <1>3 DEF LinksOK
<1> HIDE DEF k
<1>5. /\ l \in LinkType /\ Tied(l) /\ ~l.known /\ l.stage = "none"
      /\ l.chan = IF HasEntry(k) THEN NoChan ELSE k.chan
  BY <1>4, ForgottenLink
<1> HIDE DEF l
<1>6. Shift(p, q, k, l)
  BY <1>3, <1>4, <1>5 DEF Shift, Held, Live, HasEntry
<1>7. Single(p, q, TRUE, l, <<>>, <<>>)
  BY <1>1, <1>2, <1>3, <1>5, <1>6, NoSignals, SameMade DEF Single, Unread, k
<1>8. Head(mail[p]).t # "wire"
  BY <1>3
<1> QED BY <1>2, <1>3, <1>5, <1>7, <1>8, NoSignals, QuietTurn, Zenon

LEMMA NumberedChan ==
  ASSUME NEW p, NEW q, NEW c, Numbered(p, q, c)
  PROVE  c # NoChan
BY DEF Numbered, NoChan

LEMMA OnOfferTurns ==
  ASSUME LinkInv, NEW p \in Peers, OnOffer(p)
  PROVE  Turning(p)
<1> DEFINE m == Head(mail[p])
           q == m.from
           k == link[p][q]
           j == Known(k)
           t == TornDown(j)
           l == IF Heeds(p, q, j) THEN [t EXCEPT !.stage = "answering", !.chan = m.body] ELSE j
<1>1. Base /\ LinksOK /\ MadeOK
  BY DEF LinkInv, Base
<1>2. Hears(p, "offer") /\ Turns(p, q, l, Box(p), <<>>, <<>>) /\ UNCHANGED <<made, has>>
  BY DEF OnOffer
<1>3. /\ m.t = "offer" /\ q \in Peers \ {p} /\ Tells(m, q) /\ \A r \in Peers \ {q} : ~Tells(m, r)
      /\ net[p] = "on" /\ mail[p] # <<>> /\ UNCHANGED <<net, room, trouble>>
      /\ m \in Message /\ Proper(p, m)
  BY <1>1, <1>2, Hearing
<1>4. m.body \in Chans /\ Numbered(q, p, m.body)
  <2>1. m.body \in Chans
    <3> HIDE DEF m
    <3> QED BY <1>3, MessageParts
  <2> QED BY <1>3, <2>1 DEF Proper
<1>5. k \in LinkType /\ Tied(k)
  BY <1>1, <1>3 DEF LinksOK
<1> HIDE DEF k
<1>6. j \in LinkType /\ Tied(j) /\ j.known /\ j.stage = k.stage /\ j.chan = k.chan
  BY <1>5, KnownLink
<1> HIDE DEF j
<1>7. t \in LinkType /\ Tied(t) /\ t.known = j.known
  BY <1>6, TornDownLink
<1> HIDE DEF t
<1>8. /\ l \in LinkType /\ Tied(l) /\ l.known
      /\ \/ l.stage = "answering" /\ l.chan = m.body
         \/ l.stage = k.stage /\ l.chan = k.chan
  <2>1. CASE Heeds(p, q, j)
    <3>1. l = [t EXCEPT !.stage = "answering", !.chan = m.body]
      BY <2>1
    <3> HIDE DEF l, m
    <3>2. /\ l \in LinkType /\ l.known = t.known /\ l.open = t.open /\ l.retries = t.retries
          /\ l.timer = t.timer /\ l.stage = "answering" /\ l.chan = m.body
      BY <1>4, <1>7, <3>1 DEF LinkType, Stages
    <3> QED BY <1>6, <1>7, <3>2 DEF Tied
  <2>2. CASE ~Heeds(p, q, j)
    BY <1>6, <2>2
  <2> QED BY <2>1, <2>2
<1> HIDE DEF l, q
<1>9. Shift(p, q, k, l)
  <2>1. ~k.known => k.stage # "open"
    BY <1>5 DEF Tied, HasEntry
  <2>2. CASE l.stage = "answering" /\ l.chan = m.body
    <3> DEFINE b == m.body
    <3>1. m.body # NoChan
      BY <1>4, NumberedChan, Zenon
    <3> HIDE DEF b, m
    <3> QED BY <1>3, <1>4, <1>8, <2>2, <3>1 DEF Shift, Held, Live, b
  <2>3. CASE l.stage = k.stage /\ l.chan = k.chan
    BY <1>3, <1>8, <2>1, <2>3 DEF Shift, Held, Live
  <2> QED BY <1>8, <2>2, <2>3
<1>10. Single(p, q, TRUE, l, <<>>, <<>>)
  BY <1>1, <1>2, <1>3, <1>8, <1>9, NoSignals, SameMade DEF Single, Unread, k
<1>11. Head(mail[p]).t # "wire"
  BY <1>3
<1> QED BY <1>2, <1>3, <1>8, <1>10, <1>11, NoSignals, QuietTurn, Zenon

LEMMA OnAnswerTurns ==
  ASSUME LinkInv, NEW p \in Peers, OnAnswer(p)
  PROVE  Turning(p)
<1> DEFINE m == Head(mail[p])
           q == m.from
           k == link[p][q]
           j == Known(k)
           s == CASE j.stage = "none" -> "zombie"
                  [] j.stage = "offered" -> IF j.chan = m.body THEN "paired" ELSE "stuck"
                  [] j.stage \notin {"none", "offered"} -> j.stage
           l == [j EXCEPT !.stage = s]
<1>1. Base /\ LinksOK /\ MadeOK
  BY DEF LinkInv, Base
<1>2. Hears(p, "answer") /\ Turns(p, q, l, Box(p), <<>>, <<>>) /\ UNCHANGED <<made, has>>
  BY DEF OnAnswer
<1>3. /\ m.t = "answer" /\ q \in Peers \ {p} /\ Tells(m, q) /\ \A r \in Peers \ {q} : ~Tells(m, r)
      /\ net[p] = "on" /\ mail[p] # <<>> /\ UNCHANGED <<net, room, trouble>>
  BY <1>1, <1>2, Hearing
<1> HIDE DEF q, m
<1>4. k \in LinkType /\ Tied(k)
  BY <1>1, <1>3 DEF LinksOK
<1> HIDE DEF k
<1>5. /\ j \in LinkType /\ Tied(j) /\ j.known /\ j.stage = k.stage /\ j.chan = k.chan
      /\ j.stage \in Stages
  BY <1>4, KnownLink DEF LinkType
<1> HIDE DEF j
<1>6. s \in Stages \ {"offering"} \/ s = k.stage
  BY <1>5 DEF Stages
<1>7. /\ k.stage \in Live => s = k.stage
      /\ k.stage # "open" => s # "open"
      /\ s = "offering" => k.stage = "offering"
      /\ s \in Held => k.stage \in Held
  BY <1>5 DEF Stages, Live, Held
<1> HIDE DEF s
<1>8. /\ l \in LinkType /\ l.known /\ l.stage = s /\ l.chan = k.chan /\ l.open = j.open
      /\ l.timer = j.timer /\ l.retries = j.retries
  BY <1>5, <1>6 DEF LinkType
<1> HIDE DEF l
<1>9. Tied(l)
  BY <1>5, <1>8 DEF Tied
<1>10. Shift(p, q, k, l)
  BY <1>3, <1>4, <1>7, <1>8, <1>9 DEF Shift, Tied, HasEntry
<1>11. Single(p, q, TRUE, l, <<>>, <<>>)
  BY <1>1, <1>2, <1>3, <1>8, <1>10, NoSignals, SameMade DEF Single, Unread, k, m
<1>12. Head(mail[p]).t # "wire"
  BY <1>3 DEF m
<1> QED BY <1>2, <1>3, <1>8, <1>11, <1>12, NoSignals, QuietTurn, Zenon

(* What is relayed is taken, or answered over the relay or the channel.     *)
LEMMA ReplyType ==
  ASSUME HasOK, NEW p \in Peers, NEW w \in Wire
  PROVE  /\ Reply(p, w) \in Seq(Wire)
         /\ \A i \in DOMAIN Reply(p, w) : /\ w.kind = "step1"
                                          /\ Reply(p, w)[i].kind = "step2"
                                          /\ Reply(p, w)[i].edits = has[p] \ w.edits
         /\ w.kind = "step1" => 1 \in DOMAIN Reply(p, w)
<1>1. Answers(p, w) \in Wire /\ Answers(p, w).kind = "step2" /\ Answers(p, w).edits = has[p] \ w.edits
  BY DEF HasOK, Answers, Wire
<1>2. CASE w.kind = "step1"
  <2>1. Reply(p, w) = <<Answers(p, w)>>
    BY <1>2 DEF Reply
  <2> DEFINE a == Answers(p, w)
  <2> HIDE DEF a
  <2>2. <<a>> \in Seq(Wire) /\ DOMAIN <<a>> = {1} /\ <<a>>[1] = a
    BY <1>1 DEF a
  <2> QED BY <1>1, <1>2, <2>1, <2>2 DEF a
<1>3. CASE w.kind # "step1"
  <2>1. Reply(p, w) = <<>>
    BY <1>3 DEF Reply
  <2> QED BY <1>3, <2>1, EmptySeq
<1> QED BY <1>2, <1>3

LEMMA EditParts ==
  ASSUME NEW e \in Edits
  PROVE  e[1] \in Peers /\ e[1] \in Writers /\ e[2] \in 1..MaxEdits /\ e = <<e[1], e[2]>>
<1>1. Writers \subseteq Peers
  BY LinkAssumption DEF LinkAssumption
<1>2. PICK a \in Writers, n \in 1..MaxEdits : e = <<a, n>>
  BY DEF Edits
<1> QED BY <1>1, <1>2

LEMMA TakesDocs ==
  ASSUME HasOK, \A r \in Peers : Kept(r), NEW p \in Peers, NEW w \in Wire, Real(w), Takes(p, w)
  PROVE  /\ HasOK' /\ has[p] \subseteq has'[p] /\ \A q \in Peers \ {p} : has'[q] = has[q]
         /\ Kept(p)'
         /\ \A e \in has'[p] \ has[p] : e[1] # p
         /\ w.kind # "step1" => w.edits \subseteq has'[p]
<1>0. w.edits \subseteq Edits /\ has \in [Peers -> SUBSET Edits]
  BY DEF Wire, HasOK
<1>1. CASE w.kind = "step1"
  BY <1>1 DEF Takes, HasOK, Kept
<1>2. CASE w.kind # "step1"
  <2>1. has' = [has EXCEPT ![p] = @ \cup w.edits]
    BY <1>2 DEF Takes
  <2>2. HasOK' /\ has'[p] = has[p] \cup w.edits /\ \A q \in Peers \ {p} : has'[q] = has[q]
    BY <1>0, <2>1 DEF HasOK
  <2>3. \A e \in w.edits : e[1] \in Peers /\ e \in has[e[1]]
    BY <1>0, LinkAssumption DEF Real, Edits, LinkAssumption
  <2>4. \A e \in has'[p] \ has[p] : e[1] # p
    BY <2>2, <2>3
  <2>5. \A q \in Peers : has[q] \subseteq has'[q]
    BY <2>2
  <2>6. \A e \in has[p] : e[1] \in Peers /\ e \in has[e[1]]
    <3> SUFFICES ASSUME NEW e \in has[p] PROVE e[1] \in Peers /\ e \in has[e[1]]
      OBVIOUS
    <3>1. e[1] \in Peers
      BY <1>0, EditParts
    <3> QED BY <3>1 DEF Kept
  <2>7. Kept(p)'
    <3> SUFFICES ASSUME NEW e \in has'[p]
                 PROVE  /\ e \in has'[e[1]]
                        /\ e[1] = p => \A n \in 1..e[2] : <<p, n>> \in has'[p]
      BY DEF Kept
    <3>1. e \in has'[e[1]]
      BY <2>2, <2>3, <2>5, <2>6
    <3>2. ASSUME e[1] = p, NEW n \in 1..e[2] PROVE <<p, n>> \in has'[p]
      <4>1. e \in has[p]
        BY <2>4, <3>2
      <4> QED BY <2>5, <3>2, <4>1 DEF Kept
    <3> QED BY <3>1, <3>2
  <2> QED BY <1>2, <2>2, <2>4, <2>7
<1> QED BY <1>1, <1>2

LEMMA OnRelayTurns ==
  ASSUME LinkInv, NEW p \in Peers, OnRelay(p)
  PROVE  Turning(p)
<1> DEFINE m == Head(mail[p])
           q == m.from
           w == m.body
           k == link[p][q]
           j == Known(k)
           l == Relayed(j)
           o == Reply(p, w)
<1>1. Base /\ LinksOK /\ MadeOK /\ HasInv /\ HasOK /\ mail[p] \in Seq(Message)
  BY DEF LinkInv, Base, SentOK
<1>2. Hears(p, "wire") /\ Turns(p, q, l, Box(p), <<>>, o) /\ Takes(p, w) /\ UNCHANGED made
  BY DEF OnRelay
<1>3. /\ m.t = "wire" /\ q \in Peers \ {p} /\ Tells(m, q) /\ \A r \in Peers \ {q} : ~Tells(m, r)
      /\ net[p] = "on" /\ mail[p] # <<>> /\ UNCHANGED <<net, room, trouble>> /\ m \in Message
  BY <1>1, <1>2, Hearing
<1>4. w \in Wire /\ Real(w)
  <2>1. 1 \in DOMAIN mail[p] /\ m = mail[p][1]
    BY <1>1, <1>3, Rest
  <2>2. Real(w)
    BY <1>1, <1>3, <2>1 DEF HasInv
  <2>3. w \in Wire
    <3> HIDE DEF m
    <3> QED BY <1>3, MessageParts
  <2> QED BY <2>2, <2>3
<1> HIDE DEF q, m, w
<1>5. k \in LinkType /\ Tied(k)
  BY <1>1, <1>3 DEF LinksOK
<1> HIDE DEF k
<1>6. j \in LinkType /\ Tied(j) /\ j.known /\ j.open /\ j.stage = k.stage /\ j.chan = k.chan
  BY <1>5, KnownLink
<1> HIDE DEF j
<1>7. l \in LinkType /\ Tied(l) /\ l.known /\ l.open /\ l.stage = k.stage /\ l.chan = k.chan
  <2>1. /\ l \in LinkType /\ l.known = j.known /\ l.stage = j.stage /\ l.chan = j.chan
        /\ l.retries = j.retries /\ l.timer = j.timer
        /\ (j.known /\ j.stage # "open" => l.open) /\ (~(j.known /\ j.stage # "open") => l = j)
    BY <1>6, RelayedLink
  <2>2. l.known /\ l.open
    BY <1>6, <2>1
  <2>3. Tied(l)
    BY <1>6, <2>1, <2>2 DEF Tied, HasEntry
  <2> QED BY <1>6, <2>1, <2>2, <2>3
<1> HIDE DEF l
<1>8. Shift(p, q, k, l)
  BY <1>3, <1>5, <1>7 DEF Shift, Held, Tied, HasEntry, Live
<1>9. /\ o \in Seq(Wire)
      /\ \A i \in DOMAIN o : w.kind = "step1" /\ o[i].kind = "step2" /\ o[i].edits = has[p] \ w.edits
      /\ w.kind = "step1" => 1 \in DOMAIN o
  BY <1>1, <1>4, ReplyType
<1> HIDE DEF o
<1>10. Single(p, q, TRUE, l, <<>>, o)
  BY <1>1, <1>2, <1>3, <1>7, <1>8, NoSignals, SameMade DEF Single, Unread, k, m
<1> DEFINE after == Put(link[p], q, l)
           sigs == Put(Silence, q, <<>>)
           out == Put(Silence, q, o)
<1>11. /\ Turned(p, TRUE, after, sigs, out)
       /\ after \in [Peers -> LinkType] /\ sigs \in [Peers -> Seq(Message)]
       /\ out \in [Peers -> Seq(Wire)]
  BY <1>1, <1>3, <1>7, <1>9, <1>10, NoSignals, OneLink, Zenon
<1>12. out[q] = o /\ \A r \in Peers \ {q} : out[r] = <<>>
  BY <1>3, SilenceType DEF Put
<1>13. after[q] = l
  BY <1>1, <1>3 DEF Put, LinksOK
<1> HIDE DEF after, sigs, out
<1>14. /\ HasOK' /\ has[p] \subseteq has'[p] /\ \A r \in Peers \ {p} : has'[r] = has[r]
       /\ Kept(p)'
       /\ \A e \in has'[p] \ has[p] : e[1] # p
       /\ w.kind # "step1" => w.edits \subseteq has'[p]
  BY <1>1, <1>2, <1>4, TakesDocs DEF HasInv
<1>15. \A r \in Peers : \A i \in DOMAIN out[r] :
         out[r][i].kind # "step1" /\ out[r][i].edits \subseteq has'[p]
  BY <1>9, <1>12, <1>14
<1>16. w.kind = "step1" => after[q].open /\ Tell(out, q, has[p] \ w.edits)
  BY <1>7, <1>9, <1>12, <1>13 DEF Tell
<1>17. Docs(p, TRUE, after, out)
  BY <1>14, <1>15, <1>16 DEF Docs, m, q, w
<1> QED BY <1>11, <1>17 DEF Turning

(* Who hears who is there knows them, and offers to those it has no entry   *)
(* for.                                                                     *)
LEMMA JoinedLink ==
  ASSUME LinksOK, Named, MadeOK, NEW p \in Peers, NEW q \in Peers \ {p}, NEW l,
         ~HasEntry(link[p][q]), l = Known(Offering(p, q, link[p][q]))
  PROVE  /\ l \in LinkType /\ Tied(l) /\ l.known /\ l.stage = "offering"
         /\ l.chan = <<p, q, made[p][q] + 1>> /\ l.chan # NoChan /\ l.chan # link[p][q].chan
<1> DEFINE k == link[p][q]
           a == [k EXCEPT !.known = TRUE, !.open = TRUE]
           o == Offering(p, q, k)
           b == Offering(p, q, a)
<1>1. k \in LinkType /\ Tied(k) /\ k.stage = "none"
  BY DEF LinksOK, HasEntry
<1>2. /\ a \in LinkType /\ a.known /\ a.open /\ a.stage = "none" /\ a.timer = k.timer
      /\ a.retries = k.retries
  <2> HIDE DEF k
  <2> QED BY <1>1 DEF LinkType
<1>3. Tied(a)
  BY <1>1, <1>2 DEF Tied
<1>4. /\ b \in LinkType /\ Tied(b) /\ b.known /\ b.stage = "offering"
      /\ b.chan = <<p, q, made[p][q] + 1>> /\ b.chan # NoChan /\ b.chan # k.chan
  <2> HIDE DEF a
  <2> QED BY <1>2, <1>3, OfferedLink
<1>5. l = b
  <2> DEFINE c == <<p, q, made[p][q] + 1>>
  <2>1. l = Known(o) /\ o = [k EXCEPT !.stage = "offering", !.chan = c]
    BY DEF Offering
  <2>2. b = [a EXCEPT !.stage = "offering", !.chan = c]
    BY DEF Offering
  <2> HIDE DEF k, c, b, o
  <2>3. CASE k.known
    <3>1. a = k
      BY <1>1, <2>3 DEF LinkType, Tied
    <3>2. o.known
      BY <1>1, <2>1, <2>3 DEF LinkType
    <3>3. Known(o) = o
      BY <3>2 DEF Known
    <3> QED BY <2>1, <2>2, <3>1, <3>3
  <2>4. CASE ~k.known
    <3> DEFINE j == [o EXCEPT !.known = TRUE]
    <3>1. j.known /\ j.stage = "offering" /\ ~o.known
      BY <1>1, <2>1, <2>4 DEF LinkType
    <3>2. Known(o) = [j EXCEPT !.open = TRUE]
      <4> HIDE DEF j
      <4>1. Known(o) = Relayed(j)
        BY <3>1 DEF Known, j
      <4> QED BY <3>1, <4>1 DEF Relayed
    <3> QED BY <1>1, <2>1, <2>2, <3>2 DEF LinkType
  <2> QED BY <2>3, <2>4
<1> QED BY <1>4, <1>5

LEMMA OnJoinedTurns ==
  ASSUME LinkInv, NEW p \in Peers, OnJoined(p)
  PROVE  Turning(p)
<1> DEFINE m == Head(mail[p])
           there == m.body
           New(q) == q \in there /\ ~HasEntry(link[p][q])
           after == [q \in Peers |->
                       IF New(q) THEN Known(Offering(p, q, link[p][q]))
                       ELSE IF q \in there THEN Known(link[p][q]) ELSE link[p][q]]
<1>1. /\ Base /\ LinksOK /\ MadeOK /\ Named /\ Addressed /\ HasInv /\ HasOK
      /\ mail[p] \in Seq(Message) /\ made \in [Peers -> [Peers -> Nat]]
  BY DEF LinkInv, Base, SentOK, MadeOK
<1>2. /\ mail[p] # <<>> /\ net[p] = "on" /\ m.t = "joined" /\ UNCHANGED <<net, room, trouble, has>>
      /\ Becomes(p, after, Box(p), Silence, Silence)
      /\ made' = [made EXCEPT ![p] = [q \in Peers |-> IF New(q) THEN @[q] + 1 ELSE @[q]]]
  BY DEF OnJoined, Hears
<1>3. p \notin there
  <2>1. 1 \in DOMAIN mail[p] /\ m = mail[p][1]
    BY <1>1, <1>2, Rest
  <2> QED BY <1>1, <1>2, <2>1 DEF Addressed, Proper
<1>4. /\ MadeOK' /\ (\A a, b \in Peers : made[a][b] <= made'[a][b])
      /\ \A q \in Peers : New(q) => made'[p][q] = made[p][q] + 1
  <2> HIDE DEF m, New
  <2>1. MadeOK' /\ \A q \in Peers : made'[p][q] = IF New(q) THEN made[p][q] + 1 ELSE made[p][q]
    BY <1>1, <1>2 DEF MadeOK
  <2>2. ASSUME NEW a \in Peers, NEW b \in Peers PROVE made[a][b] <= made'[a][b]
    <3>1. made[a][b] \in Nat /\ (made'[a][b] = made[a][b] \/ made'[a][b] = made[a][b] + 1)
      BY <1>1, <1>2, <2>1
    <3> QED BY <3>1
  <2> QED BY <2>1, <2>2
<1>5. ASSUME NEW q \in Peers
      PROVE  /\ after[q] \in LinkType /\ Shift(p, q, link[p][q], after[q])
             /\ q \in there => after[q].known
             /\ q \notin there => after[q] = link[p][q]
  <2>1. link[p][q] \in LinkType /\ Tied(link[p][q]) /\ (p = q => ~link[p][q].known)
    BY <1>1 DEF LinksOK
  <2>2. CASE New(q)
    <3>1. after[q] = Known(Offering(p, q, link[p][q])) /\ q \in there /\ ~HasEntry(link[p][q])
      BY <2>2
    <3> DEFINE l == after[q]
    <3>2. p # q
      BY <1>3, <3>1
    <3> HIDE DEF after, m
    <3>3. /\ l \in LinkType /\ Tied(l) /\ l.known /\ l.stage = "offering"
          /\ l.chan = <<p, q, made[p][q] + 1>> /\ l.chan # NoChan /\ l.chan # link[p][q].chan
      BY <1>1, <3>1, <3>2, JoinedLink
    <3>4. made'[p][q] = made[p][q] + 1
      BY <1>4, <2>2
    <3> HIDE DEF l
    <3>5. Shift(p, q, link[p][q], l)
      BY <3>2, <3>3, <3>4 DEF Shift, Held, Live
    <3> QED BY <3>1, <3>3, <3>5 DEF l
  <2>3. CASE ~New(q) /\ q \in there
    <3>1. after[q] = Known(link[p][q]) /\ HasEntry(link[p][q]) /\ p # q
      BY <1>3, <2>3
    <3> DEFINE l == after[q]
               k == link[p][q]
    <3>2. l \in LinkType /\ Tied(l) /\ l.known /\ l.stage = k.stage /\ l.chan = k.chan
      BY <2>1, <3>1, KnownLink
    <3> HIDE DEF l, k, after, m
    <3>3. k.known
      BY <2>1, <3>1 DEF Tied, k
    <3>4. Shift(p, q, k, l)
      BY <3>1, <3>2, <3>3 DEF Shift, Held, Live
    <3> QED BY <2>3, <3>2, <3>4 DEF l, k
  <2>4. CASE q \notin there
    <3>1. after[q] = link[p][q]
      BY <2>4
    <3> HIDE DEF after, m
    <3> QED BY <1>1, <2>1, <2>4, <3>1, SameLink
  <2> QED BY <2>2, <2>3, <2>4
<1>6. after \in [Peers -> LinkType]
  BY <1>5
<1>7. Reads(p, TRUE, after)
  <2> HIDE DEF after, New
  <2> SUFFICES ASSUME NEW q \in Peers \ {p}
               PROVE  after[q].known <=> IF Tells(m, q) THEN m.t # "leave" ELSE link[p][q].known
    BY <1>2 DEF Reads
  <2>1. Tells(m, q) <=> q \in there
    BY <1>2 DEF Tells
  <2> QED BY <1>2, <1>5, <2>1
<1> HIDE DEF after, New, m
<1>8. \A q \in Peers : Signals(p, q, Silence[q])
  BY SilenceType, NoSignals
<1>9. Turned(p, TRUE, after, Silence, Silence)
  <2>1. Becomes(p, after, Unread(p, TRUE), Silence, Silence)
    BY <1>2 DEF Unread
  <2> QED BY <1>2, <1>4, <1>5, <1>6, <1>7, <1>8, <2>1, SilenceType DEF Turned
<1>10. Docs(p, TRUE, after, Silence)
  <2>1. HasOK' /\ Kept(p)'
    BY <1>1, <1>2 DEF HasOK, HasInv, Kept
  <2>2. \A r \in Peers : \A i \in DOMAIN Silence[r] :
          Silence[r][i].kind # "step1" /\ Silence[r][i].edits \subseteq has'[p]
    BY SilenceType
  <2>3. Head(mail[p]).t = "joined"
    BY <1>2 DEF m
  <2> QED BY <1>2, <2>1, <2>2, <2>3 DEF Docs
<1> QED BY <1>6, <1>9, <1>10, SilenceType DEF Turning

(* The edits of one author are numbered without gaps, so that the count of  *)
(* them is the number of the last.                                          *)
LEMMA FirstEdits ==
  ASSUME NEW p, NEW n \in Nat
  PROVE  LET T == {<<p, i>> : i \in 1..n}
         IN  IsFiniteSet(T) /\ Cardinality(T) = n
<1> DEFINE T == {<<p, i>> : i \in 1..n}
           f == [i \in 1..n |-> <<p, i>>]
<1>1. IsFiniteSet(1..n) /\ Cardinality(1..n) = n
  BY FS_Interval
<1>2. f \in [1..n -> T] /\ \A i \in 1..n : f[i] = <<p, i>>
  OBVIOUS
<1>3. f \in Bijection(1..n, T)
  <2> HIDE DEF f
  <2>1. IsInjective(f)
    BY <1>2 DEF IsInjective
  <2>2. \A t \in T : \E i \in 1..n : f[i] = t
    BY <1>2
  <2> HIDE DEF T
  <2> QED BY <1>2, <2>1, <2>2 DEF Bijection, Injection, Surjection
<1>4. ExistsBijection(1..n, T)
  BY <1>3 DEF ExistsBijection
<1> HIDE DEF T
<1>5. IsFiniteSet(T) /\ Cardinality(T) = n
  BY <1>1, <1>4, FS_Bijection
<1> QED BY <1>5 DEF T

LEMMA OwnCount ==
  ASSUME NEW p, NEW S \in SUBSET Edits,
         \A e \in S : e[1] = p => \A n \in 1..e[2] : <<p, n>> \in S
  PROVE  LET n == Cardinality({d \in S : d[1] = p})
         IN  n \in Nat /\ \A i \in Nat : <<p, i>> \in S <=> i \in 1..n
<1> DEFINE O == {d \in S : d[1] = p}
           n == Cardinality(O)
           First(i) == {<<p, j>> : j \in 1..i}
<1>1. MaxEdits \in Nat
  BY LinkAssumption DEF LinkAssumption
<1>2. \A d \in O : d[2] \in 1..MaxEdits /\ d = <<p, d[2]>>
  BY EditParts
<1>3. IsFiniteSet(First(MaxEdits)) /\ O \subseteq First(MaxEdits)
  BY <1>1, <1>2, FirstEdits
<1>4. IsFiniteSet(O)
  BY <1>3, FS_Subset
<1>5. n \in Nat
  BY <1>4, FS_CardinalityType
<1>6. \A i \in Nat : <<p, i>> \in S => First(i) \subseteq O
  OBVIOUS
<1>7. \A i \in Nat : IsFiniteSet(First(i)) /\ Cardinality(First(i)) = i
  BY FirstEdits
<1>8. \A d \in S : d[1] = p => d \in O
  OBVIOUS
<1> HIDE DEF n, First
<1>9. ASSUME NEW i \in Nat, <<p, i>> \in S
      PROVE  i \in 1..n
  <2>1. <<p, i>> \in O /\ i \in 1..MaxEdits
    BY <1>2, <1>9
  <2>2. First(i) \in SUBSET O
    BY <1>6, <1>9
  <2> HIDE DEF O
  <2>3. Cardinality(First(i)) <= Cardinality(O)
    BY <1>4, <2>2, FS_Subset
  <2> QED BY <1>1, <1>5, <1>7, <2>1, <2>3 DEF n
<1>10. O \subseteq First(n)
  <2>1. \A d \in O : d[2] \in 1..n
    BY <1>1, <1>2, <1>9
  <2> QED BY <1>2, <2>1 DEF First
<1>11. O = First(n)
  <2> HIDE DEF O
  <2>1. O \in SUBSET First(n) /\ Cardinality(First(n)) = Cardinality(O) /\ IsFiniteSet(First(n))
    BY <1>5, <1>7, <1>10 DEF n
  <2> QED BY <2>1, FS_Subset
<1>12. \A i \in Nat : i \in 1..n => <<p, i>> \in S
  BY <1>11 DEF First
<1> QED BY <1>5, <1>9, <1>12 DEF n

LEMMA EditTurns ==
  ASSUME LinkInv, NEW p \in Peers, Edit(p)
  PROVE  Turning(p)
<1> DEFINE n == Cardinality({d \in has[p] : d[1] = p})
           e == <<p, n + 1>>
           out == [q \in Peers |-> IF net[p] # "off" /\ link[p][q].open THEN <<Update(e)>> ELSE <<>>]
<1>1. /\ Base /\ LinksOK /\ MadeOK /\ HasInv /\ HasOK /\ Kept(p)
      /\ has \in [Peers -> SUBSET Edits] /\ link[p] \in [Peers -> LinkType]
  BY DEF LinkInv, Base, HasInv, HasOK, LinksOK
<1>2. /\ p \in Writers /\ n + 1 <= MaxEdits
      /\ has' = [has EXCEPT ![p] = @ \cup {e}]
      /\ Becomes(p, link[p], mail, Silence, out)
      /\ UNCHANGED <<net, room, trouble, made>>
  BY DEF Edit
<1>3. n \in Nat /\ \A i \in Nat : <<p, i>> \in has[p] <=> i \in 1..n
  BY <1>1, OwnCount DEF Kept
<1> HIDE DEF n
<1>4. MaxEdits \in Nat
  BY LinkAssumption DEF LinkAssumption
<1>5. e \in Edits /\ e[1] = p /\ e[2] = n + 1 /\ e \notin has[p]
  BY <1>2, <1>3, <1>4 DEF Edits
<1>6. /\ HasOK' /\ has'[p] = has[p] \cup {e} /\ \A q \in Peers \ {p} : has'[q] = has[q]
  BY <1>1, <1>2, <1>5 DEF HasOK
<1>7. Kept(p)'
  <2> SUFFICES ASSUME NEW d \in has'[p]
               PROVE  /\ d \in has'[d[1]]
                      /\ d[1] = p => \A i \in 1..d[2] : <<p, i>> \in has'[p]
    BY DEF Kept
  <2>1. CASE d = e
    <3>1. \A i \in 1..(n + 1) : i \in 1..n \/ <<p, i>> = e
      BY <1>3
    <3>2. \A i \in 1..n : <<p, i>> \in has[p]
      BY <1>3
    <3> HIDE DEF e
    <3> QED BY <1>3, <1>5, <1>6, <2>1, <3>1, <3>2
  <2>2. CASE d \in has[p]
    <3>1. d[1] \in Peers /\ d \in has[d[1]] /\ (d[1] = p => \A i \in 1..d[2] : <<p, i>> \in has[p])
      <4>1. d[1] \in Peers
        BY <1>1, <2>2, EditParts
      <4> QED BY <1>1, <2>2, <4>1 DEF Kept
    <3> HIDE DEF e
    <3> QED BY <1>6, <3>1
  <2> QED BY <1>6, <2>1, <2>2
<1>8. Update(e) \in Wire /\ Update(e).kind = "update" /\ Update(e).edits = {e}
  BY <1>5 DEF Update, Wire
<1> DEFINE u == Update(e)
<1> HIDE DEF e
<1>9. <<u>> \in Seq(Wire) /\ DOMAIN <<u>> = {1} /\ <<u>>[1] = u /\ <<>> \in Seq(Wire)
  <2> HIDE DEF Wire, u
  <2>1. u \in Wire
    BY <1>8 DEF u
  <2> QED BY <2>1, EmptySeq
<1>10. \A q \in Peers : out[q] = IF net[p] # "off" /\ link[p][q].open THEN <<u>> ELSE <<>>
  OBVIOUS
<1>11. out \in [Peers -> Seq(Wire)]
  BY <1>9
<1> HIDE DEF u, out
<1>12. ~link[p][p].open
  BY <1>1 DEF LinksOK, Tied
<1>13. \A q \in Peers : Signals(p, q, Silence[q])
  BY SilenceType, NoSignals
<1>14. Turned(p, FALSE, link[p], Silence, out)
  <2>1. Reads(p, FALSE, link[p])
    BY DEF Reads
  <2>2. Becomes(p, link[p], Unread(p, FALSE), Silence, out)
    BY <1>2 DEF Unread
  <2>3. out[p] = <<>>
    BY <1>10, <1>12
  <2> QED BY <1>1, <1>2, <1>11, <1>13, <2>1, <2>2, <2>3, SilenceType, SameLink, SameMade DEF Turned
<1>15. \A q \in Peers : \A i \in DOMAIN out[q] :
         out[q][i].kind # "step1" /\ out[q][i].edits \subseteq has'[p]
  <2> SUFFICES ASSUME NEW q \in Peers, NEW i \in DOMAIN out[q]
               PROVE  out[q][i].kind # "step1" /\ out[q][i].edits \subseteq has'[p]
    OBVIOUS
  <2>1. out[q][i] = u
    BY <1>9, <1>10
  <2> QED BY <1>6, <1>8, <2>1 DEF u
<1>16. ASSUME net[p] = "on", NEW q \in Peers, link[p][q].open
       PROVE  Tell(out, q, {e})
  <2>1. out[q] = <<u>>
    BY <1>10, <1>16
  <2> QED BY <1>8, <1>9, <2>1 DEF Tell, u
<1>17. Docs(p, FALSE, link[p], out)
  BY <1>6, <1>7, <1>15, <1>16 DEF Docs
<1> QED BY <1>1, <1>11, <1>14, <1>17, SilenceType DEF Turning

(* What comes of such a step.                                               *)
Said(p, after, out, s, w) == \/ Opens(p, after, s) /\ w = AsksFor(p)
                             \/ \E j \in DOMAIN out[s] : w = out[s][j]

PipedFrom(p, after, out, r, s) ==
    \A i \in DOMAIN pipe'[r][s] : \/ \E j \in DOMAIN pipe[r][s] : pipe'[r][s][i] = pipe[r][s][j]
                                  \/ r = p /\ Said(p, after, out, s, pipe'[r][s][i])

LEMMA PipeAfter ==
  ASSUME Base, NEW p \in Peers, NEW rd \in BOOLEAN, NEW after \in [Peers -> LinkType],
         NEW sigs \in [Peers -> Seq(Message)], NEW out \in [Peers -> Seq(Wire)],
         Turned(p, rd, after, sigs, out), NEW r \in Peers, NEW s \in Peers
  PROVE  PipedFrom(p, after, out, r, s)
<1>1. SentOK /\ HasOK
  BY DEF Base
<1>2. pipe[r][s] \in Seq(Wire)
  BY <1>1 DEF SentOK
<1> DEFINE b == pipe[r][s]
           ws == Wires(p, after, out, s)
<1>3. ws \in Seq(Wire) /\ Carry(p, after, out, s, ws)
  BY <1>1, WiresMade
<1>4. PICK c : c = pipe'[r][s]
  OBVIOUS
<1>5. c = <<>> \/ (r = p /\ c = b \o ws) \/ c = b
  <2>1. Piped(p, after, out, r, s)
    BY <1>1, TurnedPipe
  <2> HIDE DEF ws
  <2> QED BY <1>4, <2>1 DEF Piped, ws
<1> HIDE DEF b, ws
<1>6. CASE r = p /\ c = b \o ws
  <2>1. b \in Seq(Wire)
    BY <1>2 DEF b
  <2>2. /\ Len(b) \in Nat /\ DOMAIN c \subseteq Nat
        /\ \A i \in DOMAIN b : i \in DOMAIN c /\ c[i] = b[i]
        /\ \A i \in DOMAIN ws : Len(b) + i \in DOMAIN c /\ c[Len(b) + i] = ws[i]
        /\ \A i \in DOMAIN c : i \in DOMAIN b \/ (i - Len(b) \in DOMAIN ws /\ i > Len(b))
    BY <1>3, <1>6, <2>1, Positions
  <2>3. ASSUME NEW i \in DOMAIN c
        PROVE  (\E j \in DOMAIN b : c[i] = b[j]) \/ \E j \in DOMAIN ws : c[i] = ws[j]
    <3>1. CASE i \in DOMAIN b
      BY <2>2, <3>1
    <3>2. CASE i - Len(b) \in DOMAIN ws
      <4>1. Len(b) + (i - Len(b)) = i
        BY <2>2
      <4>2. c[i] = ws[i - Len(b)]
        BY <2>2, <3>2, <4>1
      <4> QED BY <3>2, <4>2
    <3> QED BY <2>2, <3>1, <3>2
  <2>4. \A j \in DOMAIN ws : \/ Opens(p, after, s) /\ ws[j] = AsksFor(p)
                             \/ \E k \in DOMAIN out[s] : ws[j] = out[s][k]
    BY <1>3 DEF Carry
  <2> SUFFICES ASSUME NEW i \in DOMAIN c
               PROVE  (\E j \in DOMAIN b : c[i] = b[j]) \/ Said(p, after, out, s, c[i])
    BY <1>4, <1>6 DEF b, PipedFrom
  <2>5. CASE \E j \in DOMAIN b : c[i] = b[j]
    BY <2>5
  <2>6. ASSUME NEW j \in DOMAIN ws, c[i] = ws[j]
        PROVE  Said(p, after, out, s, c[i])
    BY <2>4, <2>6 DEF Said
  <2> QED BY <2>3, <2>5, <2>6
<1>7. CASE c = <<>> \/ c = b
  BY <1>4, <1>7 DEF b, PipedFrom
<1> QED BY <1>5, <1>6, <1>7

LEMMA RealStays ==
  ASSUME \A q \in Peers : has[q] \subseteq has'[q], NEW w \in Wire, Real(w)
  PROVE  Real(w)'
<1>1. w.edits \subseteq Edits
  BY DEF Wire
<1>2. ASSUME NEW e \in w.edits PROVE e \in has'[e[1]]
  <2>1. e[1] \in Peers /\ e \in has[e[1]]
    BY <1>1, EditParts DEF Real
  <2> QED BY <2>1
<1> QED BY <1>2 DEF Real

LEMMA KeptStays ==
  ASSUME HasOK, \A q \in Peers : has[q] \subseteq has'[q],
         NEW r \in Peers, Kept(r), has'[r] = has[r]
  PROVE  Kept(r)'
<1>1. ASSUME NEW e \in has'[r] PROVE e \in has'[e[1]]
  <2>1. e \in has[r] /\ e \in Edits
    BY DEF HasOK
  <2>2. e[1] \in Peers /\ e \in has[e[1]]
    BY <2>1, EditParts DEF Kept
  <2> QED BY <2>2
<1> QED BY <1>1 DEF Kept

LEMMA TurnedHas ==
  ASSUME LinkInv, NEW p \in Peers, NEW rd \in BOOLEAN, NEW after \in [Peers -> LinkType],
         NEW sigs \in [Peers -> Seq(Message)], NEW out \in [Peers -> Seq(Wire)],
         Turned(p, rd, after, sigs, out), Docs(p, rd, after, out), SentOK'
  PROVE  HasInv'
<1>1. Base /\ HasInv /\ HasOK /\ SentOK
  BY DEF LinkInv, Base
<1>2. /\ HasOK' /\ has[p] \subseteq has'[p] /\ \A q \in Peers \ {p} : has'[q] = has[q]
      /\ Kept(p)'
      /\ \A q \in Peers : \A i \in DOMAIN out[q] : out[q][i].edits \subseteq has'[p]
  BY DEF Docs
<1>3. \A q \in Peers : has[q] \subseteq has'[q]
  BY <1>2
<1>4. \A q \in Peers : Kept(q)'
  <2> SUFFICES ASSUME NEW q \in Peers PROVE Kept(q)'
    OBVIOUS
  <2>1. CASE q = p
    BY <1>2, <2>1
  <2>2. CASE q # p
    <3>1. Kept(q) /\ has'[q] = has[q]
      BY <1>1, <1>2, <2>2 DEF HasInv
    <3> QED BY <1>1, <1>3, <3>1, KeptStays
  <2> QED BY <2>1, <2>2
<1>5. ASSUME NEW w, w.edits \subseteq has'[p]
      PROVE  Real(w)'
  BY <1>2, <1>5 DEF Real, Kept
<1>6. AsksFor(p).edits \subseteq has'[p]
  BY <1>2 DEF AsksFor, Shown
<1>7. ASSUME NEW q \in Peers, NEW i \in DOMAIN mail'[q], NEW m, m = mail'[q][i], m.t = "wire",
             NEW w, w = m.body
      PROVE  Real(w)'
  <2>1. (\E j \in DOMAIN mail[q] : m = mail[q][j]) \/ Added(p, after, out, m, q)
    BY <1>1, <1>7, MailAfter
  <2>2. w \in Wire
    <3>1. mail'[q] \in Seq(Message)
      BY DEF SentOK
    <3>2. m \in Message
      BY <1>7, <3>1, Elements
    <3> QED BY <1>7, <3>2, MessageParts
  <2>3. CASE \E j \in DOMAIN mail[q] : m = mail[q][j]
    <3>1. Real(w)
      BY <1>1, <1>7, <2>3 DEF HasInv
    <3> QED BY <1>3, <2>2, <3>1, RealStays
  <2>4. CASE Added(p, after, out, m, q)
    <3>1. w = AsksFor(p) \/ \E j \in DOMAIN out[q] : w = out[q][j]
      BY <1>7, <2>4 DEF Added
    <3>2. w.edits \subseteq has'[p]
      BY <1>2, <1>6, <3>1
    <3> QED BY <1>5, <3>2
  <2> QED BY <2>1, <2>3, <2>4
<1>8. ASSUME NEW r \in Peers, NEW s \in Peers, NEW i \in DOMAIN pipe'[r][s], NEW w, w = pipe'[r][s][i]
      PROVE  Real(w)'
  <2>1. \/ \E j \in DOMAIN pipe[r][s] : w = pipe[r][s][j]
        \/ w = AsksFor(p) \/ \E j \in DOMAIN out[s] : w = out[s][j]
    <3>1. PipedFrom(p, after, out, r, s)
      BY <1>1, PipeAfter
    <3>2. (\E j \in DOMAIN pipe[r][s] : w = pipe[r][s][j]) \/ Said(p, after, out, s, w)
      BY <1>8, <3>1 DEF PipedFrom
    <3> QED BY <3>2 DEF Said
  <2>2. CASE \E j \in DOMAIN pipe[r][s] : w = pipe[r][s][j]
    <3>1. pipe[r][s] \in Seq(Wire)
      BY <1>1 DEF SentOK
    <3>2. w \in Wire
      BY <2>2, <3>1, Elements
    <3>3. Real(w)
      BY <1>1, <2>2 DEF HasInv
    <3> QED BY <1>3, <3>2, <3>3, RealStays
  <2>3. CASE w = AsksFor(p) \/ \E j \in DOMAIN out[s] : w = out[s][j]
    <3>1. w.edits \subseteq has'[p]
      BY <1>2, <1>6, <2>3
    <3> QED BY <1>5, <3>1
  <2> QED BY <2>1, <2>2, <2>3
<1> QED BY <1>4, <1>7, <1>8 DEF HasInv

LEMMA TurningKeeps ==
  ASSUME LinkInv, NEW p \in Peers, Turning(p)
  PROVE  LinkInv'
<1>1. PICK rd \in BOOLEAN, after \in [Peers -> LinkType],
           sigs \in [Peers -> Seq(Message)], out \in [Peers -> Seq(Wire)] :
             Turned(p, rd, after, sigs, out) /\ Docs(p, rd, after, out)
  BY DEF Turning
<1>2. Base /\ LinksOK
  BY DEF LinkInv, Base
<1>3. LinksOK'
  BY <1>1, <1>2, TurnedLinks
<1>4. Named'
  BY <1>1, <1>2, TurnedNamed
<1>5. mail' \in [Peers -> Seq(Message)] /\ Addressed'
  BY <1>1, <1>2, TurnedMail
<1>6. pipe' \in [Peers -> [Peers -> Seq(Wire)]]
  BY <1>1, <1>2, TurnedPipes
<1>7. SentOK'
  BY <1>5, <1>6 DEF SentOK
<1>8. RestOK'
  BY <1>1, <1>2, TurnedRest
<1>9. MadeOK' /\ HasOK'
  BY <1>1 DEF Turned, Docs
<1>10. HasInv'
  BY <1>1, <1>7, TurnedHas
<1> QED BY <1>3, <1>4, <1>5, <1>7, <1>8, <1>9, <1>10 DEF LinkInv, Base

-----------------------------------------------------------------------------
(* The steps of the channels and of the network.  Where no document changes *)
(* and no wire is sent, nothing is made up.                                 *)
LEMMA NothingMadeUp ==
  ASSUME HasInv, UNCHANGED has,
         \A q \in Peers : \A i \in DOMAIN mail'[q] :
           mail'[q][i].t = "wire" => \E j \in DOMAIN mail[q] : mail'[q][i] = mail[q][j],
         \A r, s \in Peers : pipe'[r][s] = <<>> \/ pipe'[r][s] = pipe[r][s]
  PROVE  HasInv'
<1>1. \A q \in Peers : Kept(q)'
  BY DEF HasInv, Kept
<1>2. ASSUME NEW w, Real(w)
      PROVE  Real(w)'
  BY <1>2 DEF Real
<1>3. ASSUME NEW q \in Peers, NEW i \in DOMAIN mail'[q], NEW m, m = mail'[q][i], m.t = "wire",
             NEW w, w = m.body
      PROVE  Real(w)'
  <2>1. PICK j \in DOMAIN mail[q] : m = mail[q][j]
    BY <1>3
  <2>2. Real(w)
    BY <1>3, <2>1 DEF HasInv
  <2> QED BY <1>2, <2>2
<1>4. ASSUME NEW r \in Peers, NEW s \in Peers, NEW i \in DOMAIN pipe'[r][s], NEW w, w = pipe'[r][s][i]
      PROVE  Real(w)'
  <2>1. pipe'[r][s] = pipe[r][s]
    BY <1>4
  <2>2. Real(w)
    BY <1>4, <2>1 DEF HasInv
  <2> QED BY <1>2, <2>2
<1> QED BY <1>1, <1>3, <1>4 DEF HasInv

LEMMA AddressedStays ==
  ASSUME Addressed, UNCHANGED <<mail, made>>
  PROVE  Addressed'
BY DEF Addressed, Proper, Numbered

LEMMA NamedStays ==
  ASSUME Named, UNCHANGED <<link, made>>
  PROVE  Named'
BY DEF Named, Numbered

LEMMA ReceiveKeeps ==
  ASSUME LinkInv, NEW p \in Peers, NEW q \in Peers \ {p}, ReceiveOverChannel(p, q)
  PROVE  LinkInv'
<1>1. /\ LinksOK /\ SentOK /\ Named /\ Addressed /\ RestOK /\ MadeOK /\ HasOK /\ HasInv
      /\ pipe \in [Peers -> [Peers -> Seq(Wire)]] /\ \A r \in Peers : Kept(r)
  BY DEF LinkInv, Base, SentOK, HasInv
<1> DEFINE b == pipe[q][p]
           w == Head(b)
           o == Reply(p, w)
           r == [i \in DOMAIN o |-> o[i]]
<1>2. /\ b # <<>> /\ pipe' = [pipe EXCEPT ![q][p] = Tail(b), ![p][q] = pipe[p][q] \o r]
      /\ Takes(p, w) /\ UNCHANGED <<net, tries, room, mail, link, made, up, gaps, trouble>>
  BY <1>1 DEF ReceiveOverChannel
<1>3. b \in Seq(Wire)
  BY <1>1
<1> HIDE DEF b
<1>4. /\ w \in Wire /\ Tail(b) \in Seq(Wire) /\ 1 \in DOMAIN b /\ w = b[1]
      /\ \A i \in DOMAIN Tail(b) : \E j \in DOMAIN b : Tail(b)[i] = b[j]
  <2>1. /\ Tail(b) \in Seq(Wire) /\ Len(Tail(b)) = Len(b) - 1 /\ Head(b) \in Wire
        /\ \A i \in 1..Len(Tail(b)) : Tail(b)[i] = b[i + 1]
    BY <1>2, <1>3, HeadTailProperties
  <2>2. DOMAIN b = 1..Len(b) /\ DOMAIN Tail(b) = 1..Len(Tail(b)) /\ Len(b) \in Nat /\ Len(b) # 0
    BY <1>2, <1>3, <2>1, LenProperties, EmptySeq
  <2>3. Head(b) = b[1]
    BY <1>2, <1>3
  <2>4. \A i \in DOMAIN Tail(b) : i + 1 \in DOMAIN b /\ Tail(b)[i] = b[i + 1]
    BY <2>1, <2>2
  <2> QED BY <2>1, <2>2, <2>3, <2>4
<1>5. Real(w)
  BY <1>1, <1>4 DEF HasInv, b
<1> HIDE DEF w
<1>6. /\ o \in Seq(Wire)
      /\ \A i \in DOMAIN o : o[i].edits = has[p] \ w.edits
  <2>1. HasOK /\ w \in Wire
    BY <1>1, <1>4
  <2>2. /\ Reply(p, w) \in Seq(Wire)
        /\ \A i \in DOMAIN Reply(p, w) : /\ w.kind = "step1"
                                         /\ Reply(p, w)[i].kind = "step2"
                                         /\ Reply(p, w)[i].edits = has[p] \ w.edits
    BY <2>1, ReplyType, Zenon
  <2> QED BY <2>2
<1>7. r = o
  <2> HIDE DEF o
  <2>1. DOMAIN o = 1..Len(o) /\ o = [i \in 1..Len(o) |-> o[i]]
    BY <1>6, LenProperties
  <2> QED BY <2>1
<1> HIDE DEF o, r
<1>8. /\ HasOK' /\ has[p] \subseteq has'[p] /\ \A s \in Peers \ {p} : has'[s] = has[s]
      /\ Kept(p)'
  BY <1>1, <1>2, <1>4, <1>5, TakesDocs
<1>9. \A s \in Peers : has[s] \subseteq has'[s]
  BY <1>8
<1>10. pipe[p][q] \in Seq(Wire) /\ pipe[p][q] \o r \in Seq(Wire)
  BY <1>1, <1>6, <1>7, ConcatProperties
<1>11. /\ pipe' \in [Peers -> [Peers -> Seq(Wire)]]
       /\ pipe'[q][p] = Tail(b) /\ pipe'[p][q] = pipe[p][q] \o r
       /\ \A x, y \in Peers : ~(x = q /\ y = p) /\ ~(x = p /\ y = q) => pipe'[x][y] = pipe[x][y]
  BY <1>1, <1>2, <1>4, <1>10
<1>12. SentOK'
  BY <1>1, <1>2, <1>11 DEF SentOK
<1>13. LinksOK' /\ RestOK' /\ MadeOK' /\ Named' /\ Addressed'
  BY <1>1, <1>2, AddressedStays, NamedStays DEF LinksOK, RestOK, MadeOK
<1>14. \A s \in Peers : Kept(s)'
  <2> SUFFICES ASSUME NEW s \in Peers PROVE Kept(s)'
    OBVIOUS
  <2>1. CASE s = p
    BY <1>8, <2>1
  <2>2. CASE s # p
    BY <1>1, <1>8, <1>9, <2>2, KeptStays
  <2> QED BY <2>1, <2>2
<1>15. ASSUME NEW s \in Peers, NEW i \in DOMAIN mail'[s], NEW m, m = mail'[s][i], m.t = "wire",
              NEW v, v = m.body
       PROVE  Real(v)'
  <2>1. mail[s] \in Seq(Message) /\ m = mail[s][i] /\ i \in DOMAIN mail[s]
    BY <1>1, <1>2, <1>15 DEF SentOK
  <2>2. m \in Message
    BY <2>1, Elements
  <2>3. v \in Wire
    BY <1>15, <2>2, MessageParts
  <2>4. Real(v)
    BY <1>1, <1>15, <2>1 DEF HasInv
  <2> QED BY <1>9, <2>3, <2>4, RealStays
<1>16. ASSUME NEW x \in Peers, NEW y \in Peers, NEW i \in DOMAIN pipe'[x][y], NEW v, v = pipe'[x][y][i]
       PROVE  Real(v)'
  <2>1. ASSUME NEW j \in DOMAIN pipe[x][y], v = pipe[x][y][j]
        PROVE  Real(v)'
    <3>1. pipe[x][y] \in Seq(Wire)
      BY <1>1
    <3>2. v \in Wire
      BY <2>1, <3>1, Elements
    <3>3. Real(v)
      BY <1>1, <2>1 DEF HasInv
    <3> QED BY <1>9, <3>2, <3>3, RealStays
  <2>2. CASE x = q /\ y = p
    <3>1. PICK j \in DOMAIN b : v = b[j]
      BY <1>4, <1>11, <1>16, <2>2
    <3> QED BY <2>1, <2>2, <3>1 DEF b
  <2>3. CASE x = p /\ y = q
    <3> DEFINE a == pipe[p][q]
    <3>1. PICK c : c = pipe'[p][q]
      OBVIOUS
    <3>2. c = a \o o /\ a \in Seq(Wire)
      BY <1>7, <1>10, <1>11, <3>1
    <3> HIDE DEF a
    <3>3. /\ Len(a) \in Nat /\ DOMAIN c \subseteq Nat
          /\ \A j \in DOMAIN a : c[j] = a[j]
          /\ \A j \in DOMAIN o : Len(a) + j \in DOMAIN c /\ c[Len(a) + j] = o[j]
          /\ \A j \in DOMAIN c : j \in DOMAIN a \/ (j - Len(a) \in DOMAIN o /\ j > Len(a))
      BY <1>6, <3>2, Positions
    <3>4. i \in DOMAIN c /\ v = c[i]
      BY <1>16, <2>3, <3>1
    <3>5. CASE i \in DOMAIN a
      <4>1. v = a[i]
        BY <3>3, <3>4, <3>5
      <4> QED BY <2>1, <2>3, <3>5, <4>1 DEF a
    <3>6. CASE i - Len(a) \in DOMAIN o
      <4>1. Len(a) + (i - Len(a)) = i
        BY <3>3, <3>4
      <4>2. v = o[i - Len(a)]
        BY <3>3, <3>4, <3>6, <4>1
      <4>3. v.edits \subseteq has'[p]
        BY <1>6, <1>9, <3>6, <4>2
      <4> QED BY <1>8, <4>3 DEF Real, Kept
    <3> QED BY <3>3, <3>4, <3>5, <3>6
  <2>4. CASE ~(x = q /\ y = p) /\ ~(x = p /\ y = q)
    <3>1. pipe'[x][y] = pipe[x][y]
      BY <1>11, <2>4
    <3> QED BY <1>16, <2>1, <3>1
  <2> QED BY <2>2, <2>3, <2>4
<1>17. HasInv'
  BY <1>14, <1>15, <1>16 DEF HasInv
<1> QED BY <1>8, <1>12, <1>13, <1>17 DEF LinkInv, Base

LEMMA ConnectsKeeps ==
  ASSUME LinkInv, NEW p \in Peers, NEW q \in Peers \ {p}, ChannelConnects(p, q)
  PROVE  LinkInv'
<1>1. LinksOK /\ SentOK /\ Named /\ Addressed /\ RestOK /\ MadeOK /\ HasOK /\ HasInv
  BY DEF LinkInv, Base
<1>2. UNCHANGED <<net, tries, room, mail, link, made, pipe, has, gaps, trouble>>
  BY DEF ChannelConnects, docVars
<1>3. LinksOK' /\ SentOK' /\ RestOK' /\ MadeOK' /\ HasOK' /\ Named' /\ Addressed'
  BY <1>1, <1>2, AddressedStays, NamedStays DEF LinksOK, SentOK, RestOK, MadeOK, HasOK
<1>4. HasInv'
  BY <1>1, <1>2 DEF HasInv, Kept, Real
<1> QED BY <1>3, <1>4 DEF LinkInv, Base

LEMMA TroubleCounts ==
  ASSUME RestOK, Trouble
  PROVE  trouble' \in 0..MaxTrouble
BY LinkAssumption DEF RestOK, Trouble, LinkAssumption

LEMMA ChannelFailsKeeps ==
  ASSUME LinkInv, NEW p \in Peers, NEW q \in Peers \ {p}, ChannelFails(p, q)
  PROVE  LinkInv'
<1>1. /\ LinksOK /\ SentOK /\ Named /\ Addressed /\ RestOK /\ MadeOK /\ HasOK /\ HasInv
      /\ pipe \in [Peers -> [Peers -> Seq(Wire)]]
  BY DEF LinkInv, Base, SentOK
<1>2. /\ pipe' = [pipe EXCEPT ![p][q] = <<>>, ![q][p] = <<>>]
      /\ gaps' = gaps \cup Lost(p, q, pipe[p][q]) \cup Lost(q, p, pipe[q][p])
      /\ UNCHANGED <<net, tries, room, mail, link, made, has>> /\ trouble' \in 0..MaxTrouble
  BY <1>1, TroubleCounts DEF ChannelFails
<1>3. <<>> \in Seq(Wire)
  BY EmptySeq
<1>4. /\ pipe' \in [Peers -> [Peers -> Seq(Wire)]]
      /\ \A r, s \in Peers : pipe'[r][s] = <<>> \/ pipe'[r][s] = pipe[r][s]
  BY <1>1, <1>2, <1>3
<1>5. gaps' \subseteq Peers \X Peers
  BY <1>1, <1>2, LostPairs DEF RestOK
<1>6. RestOK' /\ SentOK'
  BY <1>1, <1>2, <1>4, <1>5 DEF RestOK, SentOK
<1>7. LinksOK' /\ MadeOK' /\ HasOK' /\ Named' /\ Addressed'
  BY <1>1, <1>2, AddressedStays, NamedStays DEF LinksOK, MadeOK, HasOK
<1>8. HasInv'
  BY <1>1, <1>2, <1>4, NothingMadeUp
<1> QED BY <1>6, <1>7, <1>8 DEF LinkInv, Base

LEMMA NoLinkType ==
  NoLink \in LinkType /\ Tied(NoLink) /\ ~NoLink.known /\ ~NoLink.open /\ NoLink.chan = NoChan
  /\ NoLink.stage = "none"
<1>1. 0 \in 0..MaxRetries
  BY LinkAssumption DEF LinkAssumption
<1>2. NoLink \in LinkType
  BY <1>1 DEF NoLink, LinkType, Stages, Chans
<1> QED BY <1>2 DEF NoLink, Tied, HasEntry

LEMMA DisconnectKeeps ==
  ASSUME LinkInv, NEW p \in Peers, Disconnect(p)
  PROVE  LinksOK' /\ SentOK' /\ Named' /\ Addressed' /\ MadeOK' /\ HasOK' /\ HasInv'
<1>1. /\ LinksOK /\ SentOK /\ Named /\ Addressed /\ RestOK /\ MadeOK /\ HasOK /\ HasInv
      /\ pipe \in [Peers -> [Peers -> Seq(Wire)]] /\ mail \in [Peers -> Seq(Message)]
      /\ link \in [Peers -> [Peers -> LinkType]]
  BY DEF LinkInv, Base, SentOK, LinksOK
<1>2. /\ link' = [link EXCEPT ![p] = [q \in Peers |-> NoLink]]
      /\ pipe' = [r \in Peers |-> [s \in Peers |-> IF p \in {r, s} THEN <<>> ELSE pipe[r][s]]]
      /\ mail' = [mail EXCEPT ![p] = <<>>] /\ UNCHANGED <<made, has>>
  BY DEF Disconnect, docVars
<1>3. <<>> \in Seq(Wire) /\ <<>> \in Seq(Message) /\ DOMAIN <<>> = {}
  BY EmptySeq
<1>4. /\ pipe' \in [Peers -> [Peers -> Seq(Wire)]]
      /\ \A r, s \in Peers : pipe'[r][s] = <<>> \/ pipe'[r][s] = pipe[r][s]
  BY <1>1, <1>2, <1>3
<1>5. /\ mail' \in [Peers -> Seq(Message)]
      /\ mail'[p] = <<>> /\ \A q \in Peers \ {p} : mail'[q] = mail[q]
  BY <1>1, <1>2, <1>3
<1>6. /\ link' \in [Peers -> [Peers -> LinkType]]
      /\ \A q \in Peers : link'[p][q] = NoLink
      /\ \A r \in Peers \ {p} : link'[r] = link[r]
  BY <1>1, <1>2, NoLinkType
<1>7. LinksOK'
  <2>1. ASSUME NEW a \in Peers, NEW b \in Peers
        PROVE  Tied(link'[a][b]) /\ (a = b => ~link'[a][b].known)
    BY <1>1, <1>6, NoLinkType DEF LinksOK
  <2> QED BY <1>6, <2>1 DEF LinksOK
<1>8. Named'
  <2>1. ASSUME NEW a \in Peers, NEW b \in Peers
        PROVE  /\ link'[a][b].chan # NoChan =>
                    a # b /\ (Numbered(a, b, link'[a][b].chan) \/ Numbered(b, a, link'[a][b].chan))
               /\ link'[a][b].stage = "offering" => Numbered(a, b, link'[a][b].chan)
    BY <1>1, <1>6, NoLinkType DEF Named
  <2> QED BY <1>2, <2>1 DEF Named, Numbered
<1>9. Addressed'
  <2>1. \A a \in Peers : \A i \in DOMAIN mail'[a] : Proper(a, mail'[a][i])
    BY <1>1, <1>3, <1>5 DEF Addressed
  <2> QED BY <1>2, <2>1 DEF Addressed, Proper, Numbered
<1>10. SentOK' /\ MadeOK' /\ HasOK'
  BY <1>1, <1>2, <1>4, <1>5 DEF SentOK, MadeOK, HasOK
<1>11. HasInv'
  BY <1>1, <1>2, <1>3, <1>4, <1>5, NothingMadeUp
<1> QED BY <1>7, <1>8, <1>9, <1>10, <1>11

LEMMA SocketLostKeeps ==
  ASSUME LinkInv, NEW p \in Peers, SocketLost(p)
  PROVE  LinkInv'
<1>1. /\ LinksOK /\ SentOK /\ Named /\ Addressed /\ RestOK /\ MadeOK /\ HasOK /\ HasInv
      /\ mail \in [Peers -> Seq(Message)]
  BY DEF LinkInv, Base, SentOK
<1>2. trouble' \in 0..MaxTrouble
  BY <1>1, TroubleCounts DEF SocketLost, RestOK
<1>3. CASE tries[p] < MaxTries
  <2>1. /\ Disconnect(p) /\ net' = [net EXCEPT ![p] = "connecting"]
        /\ tries' = [tries EXCEPT ![p] = @ + 1]
    BY <1>3 DEF SocketLost
  <2>2. tries[p] + 1 \in 0..MaxTries
    BY <1>1, <1>3, LinkAssumption DEF RestOK, LinkAssumption
  <2>3. RestOK'
    BY <1>1, <1>2, <2>1, <2>2 DEF RestOK, Disconnect, docVars
  <2> QED BY <2>1, <2>3, DisconnectKeeps DEF LinkInv, Base
<1>4. CASE ~(tries[p] < MaxTries)
  <2>1. /\ net' = [net EXCEPT ![p] = "off"] /\ mail' = [mail EXCEPT ![p] = <<>>]
        /\ UNCHANGED <<tries, room, link, made, up, pipe, has, gaps>>
    BY <1>4 DEF SocketLost, docVars
  <2>2. <<>> \in Seq(Message) /\ DOMAIN <<>> = {}
    BY EmptySeq
  <2>3. /\ mail' \in [Peers -> Seq(Message)]
        /\ mail'[p] = <<>> /\ \A q \in Peers \ {p} : mail'[q] = mail[q]
    BY <1>1, <2>1, <2>2
  <2>4. Addressed'
    <3>1. \A a \in Peers : \A i \in DOMAIN mail'[a] : Proper(a, mail'[a][i])
      BY <1>1, <2>2, <2>3 DEF Addressed
    <3> QED BY <2>1, <3>1 DEF Addressed, Proper, Numbered
  <2>5. RestOK' /\ SentOK'
    BY <1>1, <1>2, <2>1, <2>3 DEF RestOK, SentOK
  <2>6. LinksOK' /\ MadeOK' /\ HasOK' /\ Named'
    BY <1>1, <2>1, NamedStays DEF LinksOK, MadeOK, HasOK
  <2>7. HasInv'
    BY <1>1, <2>1, <2>2, <2>3, NothingMadeUp
  <2> QED BY <2>4, <2>5, <2>6, <2>7 DEF LinkInv, Base
<1> QED BY <1>3, <1>4

LEMMA LeaveKeeps ==
  ASSUME LinkInv, NEW p \in Peers, Leave(p)
  PROVE  LinkInv'
<1>1. RestOK
  BY DEF LinkInv, Base
<1>2. /\ Disconnect(p) /\ net' = [net EXCEPT ![p] = "off"] /\ UNCHANGED tries
      /\ trouble' \in 0..MaxTrouble
  BY <1>1, TroubleCounts DEF Leave
<1>3. RestOK'
  BY <1>1, <1>2 DEF RestOK, Disconnect, docVars
<1> QED BY <1>2, <1>3, DisconnectKeeps DEF LinkInv, Base

(* What the hub tells of a client that joins, and of one that has left.     *)
LEMMA Appended ==
  ASSUME NEW b \in Seq(Message), NEW m \in Message
  PROVE  Append(b, m) = b \o <<m>>
<1>1. /\ Append(b, m) \in Seq(Message) /\ Len(Append(b, m)) = Len(b) + 1
      /\ \A i \in 1..Len(b) : Append(b, m)[i] = b[i]
      /\ Append(b, m)[Len(b) + 1] = m
  BY AppendProperties
<1>2. Len(b) \in Nat /\ <<m>> \in Seq(Message) /\ Len(<<m>>) = 1 /\ <<m>>[1] = m
  BY LenProperties, OneMessage
<1> DEFINE o == <<m>>
<1> HIDE DEF o
<1>3. /\ b \o o \in Seq(Message) /\ Len(b \o o) = Len(b) + 1
      /\ \A i \in 1..(Len(b) + 1) : (b \o o)[i] = IF i <= Len(b) THEN b[i] ELSE o[i - Len(b)]
  BY <1>2, ConcatProperties DEF o
<1>4. \A i \in 1..Len(Append(b, m)) : Append(b, m)[i] = (b \o o)[i]
  <2> SUFFICES ASSUME NEW i \in 1..(Len(b) + 1) PROVE Append(b, m)[i] = (b \o o)[i]
    BY <1>1
  <2>1. CASE i = Len(b) + 1
    <3>1. i - Len(b) = 1 /\ ~(i <= Len(b)) /\ i \in 1..(Len(b) + 1)
      BY <1>2, <2>1
    <3>2. o[i - Len(b)] = m
      BY <1>2, <3>1 DEF o
    <3>3. (b \o o)[i] = o[i - Len(b)]
      BY <1>3, <3>1
    <3> QED BY <1>1, <2>1, <3>2, <3>3
  <2>2. CASE i \in 1..Len(b)
    <3>1. i <= Len(b) /\ i \in 1..(Len(b) + 1)
      BY <1>2, <2>2
    <3>2. (b \o o)[i] = b[i]
      BY <1>3, <3>1
    <3> QED BY <1>1, <2>2, <3>2
  <2>3. Len(b) \in Nat
    BY <1>2
  <2>4. i = Len(b) + 1 \/ i \in 1..Len(b)
    BY <2>3
  <2> QED BY <2>1, <2>2, <2>4
<1>5. Append(b, m) = b \o o
  BY <1>1, <1>3, <1>4, SeqEqual
<1> QED BY <1>5 DEF o

News(p, s) == /\ \A i \in DOMAIN s : s[i].from = p /\ s[i].t \in {"peer", "leave"}
              /\ \E i \in DOMAIN s : Tells(s[i], p)

Joins(p, there, s) == /\ \A i \in DOMAIN s : Final(s, i, p) => s[i].t # "leave"
                      /\ there => LeaveIn(s, p)

LEMMA NewsOfJoin ==
  ASSUME NEW p \in Peers, NEW b \in Seq(Message), NEW there \in BOOLEAN
  PROVE  \E s \in Seq(Message) :
           /\ b \o (IF there THEN <<[t |-> "leave", from |-> p]>> ELSE <<>>)
                \o <<[t |-> "peer", from |-> p]>> = b \o s
           /\ News(p, s) /\ Joins(p, there, s)
<1> DEFINE x == [t |-> "leave", from |-> p]
           y == [t |-> "peer", from |-> p]
           l == IF there THEN <<x>> ELSE <<>>
           o == <<y>>
<1>1. /\ x \in Message /\ x.t = "leave" /\ x.from = p
      /\ y \in Message /\ y.t = "peer" /\ y.from = p
  BY MessagesMade
<1> HIDE DEF x, y
<1>2. /\ l \in Seq(Message) /\ (\A i \in DOMAIN l : l[i] = x) /\ (there => 1 \in DOMAIN l)
      /\ o \in Seq(Message) /\ DOMAIN o = {1} /\ o[1] = y
  <2>1. <<x>> \in Seq(Message) /\ DOMAIN <<x>> = {1} /\ <<x>>[1] = x
    BY <1>1, OneMessage
  <2>2. <<y>> \in Seq(Message) /\ DOMAIN <<y>> = {1} /\ <<y>>[1] = y
    BY <1>1, OneMessage
  <2>3. <<>> \in Seq(Message) /\ DOMAIN <<>> = {}
    BY EmptySeq
  <2>4. CASE there
    BY <2>1, <2>2, <2>4
  <2>5. CASE ~there
    BY <2>2, <2>3, <2>5
  <2> QED BY <2>4, <2>5
<1> HIDE DEF l, o
<1>3. PICK s : s = l \o o
  OBVIOUS
<1>11. (b \o l) \o o = b \o (l \o o)
  BY <1>2, ConcatAssociative
<1>12. b \o l \o o = b \o s
  BY <1>3, <1>11
<1>4. /\ s \in Seq(Message) /\ Len(l) \in Nat /\ DOMAIN s \subseteq Nat
      /\ DOMAIN l = 1..Len(l)
      /\ \A i \in DOMAIN l : i \in DOMAIN s /\ s[i] = l[i]
      /\ \A i \in DOMAIN o : Len(l) + i \in DOMAIN s /\ s[Len(l) + i] = o[i]
      /\ \A i \in DOMAIN s : i \in DOMAIN l \/ (i - Len(l) \in DOMAIN o /\ i > Len(l))
  <2>1. l \in Seq(Message) /\ o \in Seq(Message)
    BY <1>2
  <2> QED BY <1>3, <2>1, Positions
<1>5. Len(l) + 1 \in DOMAIN s /\ s[Len(l) + 1] = y
  BY <1>2, <1>4
<1>6. \A i \in DOMAIN s : (s[i] = x /\ i < Len(l) + 1) \/ i = Len(l) + 1
  BY <1>2, <1>4
<1>7. \A i \in DOMAIN s : s[i].from = p /\ s[i].t \in {"peer", "leave"}
  BY <1>1, <1>5, <1>6
<1>8. Tells(s[Len(l) + 1], p)
  BY <1>1, <1>5 DEF Tells
<1>9. \A i \in DOMAIN s : Final(s, i, p) => s[i].t # "leave"
  <2> SUFFICES ASSUME NEW i \in DOMAIN s, Final(s, i, p) PROVE s[i].t # "leave"
    OBVIOUS
  <2>1. ~(Len(l) + 1 > i)
    BY <1>5, <1>8 DEF Final
  <2>2. i = Len(l) + 1
    BY <1>4, <1>6, <2>1
  <2> QED BY <1>1, <1>5, <2>2
<1>10. there => LeaveIn(s, p)
  BY <1>1, <1>2, <1>4 DEF LeaveIn, IsLeave
<1>13. News(p, s) /\ Joins(p, there, s)
  BY <1>5, <1>7, <1>8, <1>9, <1>10 DEF News, Joins
<1> QED BY <1>4, <1>12, <1>13 DEF x, y, l, o

(* Such news is neither a wire nor an offer.                                *)
LEMMA HubKeeps ==
  ASSUME LinkInv, mail' \in [Peers -> Seq(Message)],
         \A q \in Peers : \A i \in DOMAIN mail'[q] :
           \/ \E j \in DOMAIN mail[q] : mail'[q][i] = mail[q][j]
           \/ mail'[q][i].t \notin {"wire", "offer"} /\ Proper(q, mail'[q][i]),
         RestOK', UNCHANGED <<link, made, pipe, has>>
  PROVE  LinkInv'
<1>1. /\ LinksOK /\ SentOK /\ Named /\ Addressed /\ MadeOK /\ HasOK /\ HasInv
  BY DEF LinkInv, Base
<1>2. LinksOK' /\ SentOK' /\ MadeOK' /\ HasOK' /\ Named'
  BY <1>1, NamedStays DEF LinksOK, SentOK, MadeOK, HasOK
<1>3. Addressed'
  <2>1. \A q \in Peers : \A i \in DOMAIN mail'[q] : Proper(q, mail'[q][i])
    BY <1>1 DEF Addressed
  <2> QED BY <2>1 DEF Addressed, Proper, Numbered
<1>4. HasInv'
  <2>1. \A q \in Peers : \A i \in DOMAIN mail'[q] :
          mail'[q][i].t = "wire" => \E j \in DOMAIN mail[q] : mail'[q][i] = mail[q][j]
    OBVIOUS
  <2> QED BY <1>1, <2>1, NothingMadeUp
<1> QED BY <1>2, <1>3, <1>4 DEF LinkInv, Base

Told(p, there, b, c) ==
    \E s \in Seq(Message) : c = b \o s /\ News(p, s) /\ Joins(p, there, s)

LEMMA ConnectTells ==
  ASSUME LinkInv, NEW p \in Peers, Connect(p)
  PROVE  /\ mail'[p] = <<[t |-> "joined", from |-> p, body |-> room \ {p}]>>
         /\ \A q \in Peers \ {p} : IF q \in room /\ net[q] = "on"
                                  THEN Told(p, p \in room, mail[q], mail'[q])
                                  ELSE mail'[q] = mail[q]
<1>1. mail \in [Peers -> Seq(Message)] /\ (p \in room) \in BOOLEAN
  BY DEF LinkInv, Base, SentOK
<1>2. mail' = [q \in Peers |->
          CASE q = p -> <<[t |-> "joined", from |-> p, body |-> room \ {p}]>>
            [] q # p /\ q \in room /\ net[q] = "on" ->
                  mail[q] \o (IF p \in room THEN <<[t |-> "leave", from |-> p]>> ELSE <<>>)
                          \o <<[t |-> "peer", from |-> p]>>
            [] q # p /\ ~(q \in room /\ net[q] = "on") -> mail[q]]
  BY DEF Connect
<1>3. ASSUME NEW q \in Peers \ {p}, q \in room, net[q] = "on"
      PROVE  Told(p, p \in room, mail[q], mail'[q])
  <2>1. mail'[q] = mail[q] \o (IF p \in room THEN <<[t |-> "leave", from |-> p]>> ELSE <<>>)
                          \o <<[t |-> "peer", from |-> p]>>
    BY <1>2, <1>3
  <2>2. mail[q] \in Seq(Message)
    BY <1>1
  <2>3. ASSUME NEW there \in BOOLEAN, NEW b \in Seq(Message)
        PROVE  Told(p, there, b, b \o (IF there THEN <<[t |-> "leave", from |-> p]>> ELSE <<>>)
                                   \o <<[t |-> "peer", from |-> p]>>)
    BY NewsOfJoin DEF Told
  <2> QED BY <1>1, <2>1, <2>2, <2>3, Zenon
<1>4. ASSUME NEW q \in Peers \ {p}, ~(q \in room /\ net[q] = "on")
      PROVE  mail'[q] = mail[q]
  BY <1>2, <1>4
<1>5. mail'[p] = <<[t |-> "joined", from |-> p, body |-> room \ {p}]>>
  BY <1>2
<1> QED BY <1>3, <1>4, <1>5

NewsOnly(q, b, c) ==
    /\ c \in Seq(Message)
    /\ \A i \in DOMAIN c : \/ \E j \in DOMAIN b : c[i] = b[j]
                           \/ c[i].t \notin {"wire", "offer"} /\ Proper(q, c[i])

LEMMA NewsProper ==
  ASSUME NEW p \in Peers, NEW q \in Peers \ {p}, NEW b \in Seq(Message), NEW s \in Seq(Message),
         News(p, s), NEW c, c = b \o s
  PROVE  NewsOnly(q, b, c)
<1>1. /\ c \in Seq(Message) /\ Len(b) \in Nat /\ DOMAIN c \subseteq Nat
      /\ \A i \in DOMAIN b : c[i] = b[i]
      /\ \A i \in DOMAIN s : c[Len(b) + i] = s[i]
      /\ \A i \in DOMAIN c : i \in DOMAIN b \/ (i - Len(b) \in DOMAIN s /\ i > Len(b))
  BY Positions
<1>2. ASSUME NEW i \in DOMAIN c
      PROVE  \/ \E j \in DOMAIN b : c[i] = b[j]
             \/ c[i].t \notin {"wire", "offer"} /\ Proper(q, c[i])
  <2>1. CASE i \in DOMAIN b
    BY <1>1, <2>1
  <2>2. CASE i - Len(b) \in DOMAIN s
    <3>1. Len(b) + (i - Len(b)) = i
      BY <1>1
    <3>2. c[i] = s[i - Len(b)]
      BY <1>1, <2>2, <3>1
    <3>3. c[i].from = p /\ c[i].t \in {"peer", "leave"}
      BY <2>2, <3>2 DEF News
    <3> QED BY <3>3 DEF Proper
  <2> QED BY <1>1, <2>1, <2>2
<1> QED BY <1>1, <1>2 DEF NewsOnly

LEMMA ConnectKeeps ==
  ASSUME LinkInv, NEW p \in Peers, Connect(p)
  PROVE  LinkInv'
<1>1. mail \in [Peers -> Seq(Message)] /\ RestOK
  BY DEF LinkInv, Base, SentOK
<1>2. /\ net' = [net EXCEPT ![p] = "on"] /\ room' = room \cup {p}
      /\ UNCHANGED <<tries, link, made, up, pipe, has, gaps, trouble>>
  BY DEF Connect, docVars
<1>3. RestOK'
  BY <1>1, <1>2 DEF RestOK
<1> DEFINE m == [t |-> "joined", from |-> p, body |-> room \ {p}]
<1>4. m \in Message /\ m.t = "joined" /\ m.body = room \ {p}
  BY <1>1, MessagesMade DEF RestOK
<1>5. mail'[p] = <<m>>
  BY ConnectTells
<1> HIDE DEF m
<1>6. <<m>> \in Seq(Message) /\ DOMAIN <<m>> = {1} /\ <<m>>[1] = m
  BY <1>4, OneMessage
<1>7. ASSUME NEW q \in Peers
      PROVE  /\ mail'[q] \in Seq(Message)
             /\ \A i \in DOMAIN mail'[q] :
                  \/ \E j \in DOMAIN mail[q] : mail'[q][i] = mail[q][j]
                  \/ mail'[q][i].t \notin {"wire", "offer"} /\ Proper(q, mail'[q][i])
  <2>1. CASE q = p
    BY <1>4, <1>5, <1>6, <2>1 DEF Proper
  <2>2. CASE q # p /\ q \in room /\ net[q] = "on"
    <3>1. Told(p, p \in room, mail[q], mail'[q])
      BY <2>2, ConnectTells
    <3>2. PICK s \in Seq(Message) : mail'[q] = mail[q] \o s /\ News(p, s)
      BY <3>1 DEF Told
    <3>3. PICK c : c = mail'[q]
      OBVIOUS
    <3>4. mail[q] \in Seq(Message) /\ q \in Peers \ {p}
      BY <1>1, <2>2
    <3>5. NewsOnly(q, mail[q], c)
      BY <3>2, <3>3, <3>4, NewsProper
    <3> QED BY <3>3, <3>5 DEF NewsOnly
  <2>3. CASE q # p /\ ~(q \in room /\ net[q] = "on")
    <3>1. mail'[q] = mail[q]
      BY <2>3, ConnectTells
    <3> QED BY <1>1, <3>1
  <2> QED BY <2>1, <2>2, <2>3
<1>8. mail' \in [Peers -> Seq(Message)]
  <2>1. mail' = [q \in Peers |-> mail'[q]]
    BY DEF Connect
  <2> QED BY <1>7, <2>1
<1> QED BY <1>2, <1>3, <1>7, <1>8, HubKeeps

LEMMA HubNoticesTells ==
  ASSUME LinkInv, NEW p \in Peers, HubNotices(p)
  PROVE  \A q \in Peers : IF q \in room \ {p} /\ net[q] = "on"
                          THEN \E s \in Seq(Message) :
                                 /\ mail'[q] = mail[q] \o s /\ News(p, s)
                                 /\ \A i \in DOMAIN s : s[i].t = "leave"
                                 /\ LeaveIn(s, p)
                          ELSE mail'[q] = mail[q]
<1> DEFINE m == [t |-> "leave", from |-> p]
<1>1. mail \in [Peers -> Seq(Message)]
  BY DEF LinkInv, Base, SentOK
<1>2. mail' = [q \in Peers |->
          IF q \in room \ {p} /\ net[q] = "on" THEN Append(mail[q], m) ELSE mail[q]]
  BY DEF HubNotices
<1>3. m \in Message /\ m.t = "leave" /\ m.from = p
  BY MessagesMade
<1> HIDE DEF m
<1>4. <<m>> \in Seq(Message) /\ DOMAIN <<m>> = {1} /\ <<m>>[1] = m
  BY <1>3, OneMessage
<1>5. PICK s : s = <<m>>
  OBVIOUS
<1>6. /\ s \in Seq(Message) /\ DOMAIN s = {1} /\ s[1] = m
  BY <1>4, <1>5
<1>7. News(p, s) /\ (\A i \in DOMAIN s : s[i].t = "leave") /\ LeaveIn(s, p)
  BY <1>3, <1>6 DEF News, Tells, LeaveIn, IsLeave
<1>8. ASSUME NEW q \in Peers, q \in room \ {p} /\ net[q] = "on"
      PROVE  mail'[q] = mail[q] \o s
  <2>1. mail'[q] = Append(mail[q], m)
    BY <1>2, <1>8
  <2>2. mail[q] \in Seq(Message)
    BY <1>1
  <2>3. Append(mail[q], m) = mail[q] \o <<m>>
    BY <1>3, <2>2, Appended
  <2> QED BY <1>5, <2>1, <2>3
<1>9. \A q \in Peers : ~(q \in room \ {p} /\ net[q] = "on") => mail'[q] = mail[q]
  BY <1>2
<1> QED BY <1>6, <1>7, <1>8, <1>9

LEMMA HubNoticesKeeps ==
  ASSUME LinkInv, NEW p \in Peers, HubNotices(p)
  PROVE  LinkInv'
<1>1. mail \in [Peers -> Seq(Message)] /\ RestOK
  BY DEF LinkInv, Base, SentOK
<1>2. /\ room' = room \ {p} /\ UNCHANGED <<net, tries, link, made, up, pipe, has, gaps, trouble>>
  BY DEF HubNotices, docVars
<1>3. RestOK'
  BY <1>1, <1>2 DEF RestOK
<1>4. ASSUME NEW q \in Peers
      PROVE  /\ mail'[q] \in Seq(Message)
             /\ \A i \in DOMAIN mail'[q] :
                  \/ \E j \in DOMAIN mail[q] : mail'[q][i] = mail[q][j]
                  \/ mail'[q][i].t \notin {"wire", "offer"} /\ Proper(q, mail'[q][i])
  <2>1. CASE q \in room \ {p} /\ net[q] = "on"
    <3>1. PICK s \in Seq(Message) : mail'[q] = mail[q] \o s /\ News(p, s)
      BY <2>1, HubNoticesTells
    <3>2. PICK c : c = mail'[q]
      OBVIOUS
    <3>3. mail[q] \in Seq(Message) /\ q \in Peers \ {p}
      BY <1>1, <2>1
    <3>4. NewsOnly(q, mail[q], c)
      BY <3>1, <3>2, <3>3, NewsProper
    <3> QED BY <3>2, <3>4 DEF NewsOnly
  <2>2. CASE ~(q \in room \ {p} /\ net[q] = "on")
    <3>1. mail'[q] = mail[q]
      BY <2>2, HubNoticesTells
    <3> QED BY <1>1, <3>1
  <2> QED BY <2>1, <2>2
<1>5. mail' \in [Peers -> Seq(Message)]
  <2>1. mail' = [q \in Peers |-> mail'[q]]
    BY DEF HubNotices
  <2> QED BY <1>4, <2>1
<1> QED BY <1>2, <1>3, <1>4, <1>5, HubKeeps

-----------------------------------------------------------------------------
(* Together.                                                                *)
LEMMA InitOK ==
  Init => LinkInv
<1> SUFFICES ASSUME Init PROVE LinkInv
  OBVIOUS
<1>1. {MaxTries, MaxTrouble} \subseteq Nat
  BY LinkAssumption DEF LinkAssumption
<1>2. <<>> \in Seq(Message) /\ <<>> \in Seq(Wire) /\ DOMAIN <<>> = {}
  BY EmptySeq
<1>3. LinksOK
  BY NoLinkType DEF Init, LinksOK
<1>4. SentOK
  BY <1>2 DEF Init, SentOK, Silence
<1>5. Named
  BY NoLinkType DEF Init, Named
<1>6. Addressed
  BY <1>2 DEF Init, Silence, Addressed
<1>7. RestOK
  BY <1>1 DEF Init, RestOK
<1>8. MadeOK /\ HasOK
  BY DEF Init, MadeOK, HasOK
<1>9. HasInv
  BY <1>2 DEF Init, HasInv, Kept, Silence
<1> QED BY <1>3, <1>4, <1>5, <1>6, <1>7, <1>8, <1>9 DEF LinkInv, Base

(* Every step is one of the kind above, or one of the others.               *)
Other(p) ==
    \/ SocketLost(p) \/ Leave(p) \/ Connect(p) \/ HubNotices(p)
    \/ \E q \in Peers \ {p} :
         ReceiveOverChannel(p, q) \/ ChannelConnects(p, q) \/ ChannelFails(p, q)

LEMMA StepKinds ==
  ASSUME LinkInv, Next
  PROVE  \E p \in Peers : Turning(p) \/ Other(p)
<1>1. PICK p \in Peers :
        \/ Edit(p) \/ Hear(p) \/ SocketLost(p) \/ Leave(p) \/ Connect(p) \/ HubNotices(p)
        \/ \E q \in Peers \ {p} :
            \/ SendOffer(p, q) \/ SendAnswer(p, q) \/ RetryFires(p, q)
            \/ ChannelOpens(p, q) \/ ChannelCloses(p, q) \/ ConnectionFails(p, q)
            \/ ReceiveOverChannel(p, q) \/ ChannelConnects(p, q) \/ ChannelFails(p, q)
  BY DEF Next
<1>2. CASE Edit(p)
  BY <1>2, EditTurns
<1>3. CASE Hear(p)
  BY <1>3, OnJoinedTurns, OnPeerTurns, OnLeaveTurns, OnRelayTurns, OnOfferTurns, OnAnswerTurns DEF Hear
<1>4. CASE SocketLost(p) \/ Leave(p) \/ Connect(p) \/ HubNotices(p)
  BY <1>4 DEF Other
<1>5. ASSUME NEW q \in Peers \ {p},
             \/ SendOffer(p, q) \/ SendAnswer(p, q) \/ RetryFires(p, q)
             \/ ChannelOpens(p, q) \/ ChannelCloses(p, q) \/ ConnectionFails(p, q)
      PROVE  Turning(p)
  BY <1>5, SendOfferTurns, SendAnswerTurns, RetryTurns, ChannelOpensTurns, ChannelClosesTurns,
     ConnectionFailsTurns
<1>6. ASSUME NEW q \in Peers \ {p},
             ReceiveOverChannel(p, q) \/ ChannelConnects(p, q) \/ ChannelFails(p, q)
      PROVE  Other(p)
  BY <1>6 DEF Other
<1> QED BY <1>1, <1>2, <1>3, <1>4, <1>5, <1>6

LEMMA StepKeeps ==
  LinkInv /\ [Next]_vars => LinkInv'
<1> SUFFICES ASSUME LinkInv, [Next]_vars PROVE LinkInv'
  OBVIOUS
<1>1. ASSUME Next PROVE LinkInv'
  <2>1. PICK p \in Peers : Turning(p) \/ Other(p)
    BY <1>1, StepKinds
  <2>2. CASE Turning(p)
    BY <2>2, TurningKeeps
  <2>3. CASE Other(p)
    BY <2>3, SocketLostKeeps, LeaveKeeps, ConnectKeeps, HubNoticesKeeps, ReceiveKeeps,
       ConnectsKeeps, ChannelFailsKeeps DEF Other
  <2> QED BY <2>1, <2>2, <2>3
<1>2. ASSUME UNCHANGED vars PROVE LinkInv'
  <2>1. /\ LinksOK /\ SentOK /\ Named /\ Addressed /\ RestOK /\ MadeOK /\ HasOK /\ HasInv
    BY DEF LinkInv, Base
  <2>2. UNCHANGED <<net, tries, room, mail, link, made, pipe, has, gaps, trouble>>
    BY <1>2 DEF vars, docVars
  <2>3. LinksOK' /\ SentOK' /\ RestOK' /\ MadeOK' /\ HasOK' /\ Named' /\ Addressed'
    BY <2>1, <2>2, AddressedStays, NamedStays DEF LinksOK, SentOK, RestOK, MadeOK, HasOK
  <2>4. HasInv'
    BY <2>1, <2>2 DEF HasInv, Kept, Real
  <2> QED BY <2>3, <2>4 DEF LinkInv, Base
<1> QED BY <1>1, <1>2

LEMMA LinkInvariant ==
  Spec => []LinkInv
<1> QED BY InitOK, StepKeeps, PTL DEF Spec

(* A client's links, its mail, its document and what it counts keep their   *)
(* types, and its retries and its tries their limits.                       *)
THEOREM LinkTypeCorrect ==
  Spec => []TypeOK
<1>1. LinkInv => TypeOK
  BY BaseTyped DEF LinkInv
<1> QED BY <1>1, LinkInvariant, PTL

(* A peer is open as long as it is known to be there, whether the hub's     *)
(* relay or a channel carries the wires: it closes only when it leaves.     *)
THEOREM PeersStayOpen ==
  Spec => OpenStays
<1>1. ASSUME LinkInv'
      PROVE  \A p, q \in Peers : link[p][q].open /\ ~link'[p][q].open => ~link'[p][q].known
  BY <1>1 DEF LinkInv, Base, LinksOK, Tied
<1>2. LinkInv /\ LinkInv' /\ [Next]_vars
        => [\A p, q \in Peers : link[p][q].open /\ ~link'[p][q].open => ~link'[p][q].known]_vars
  BY <1>1
<1> QED BY <1>2, LinkInvariant, PTL DEF Spec, OpenStays

-----------------------------------------------------------------------------
(* Who is there.  A client whose socket is closed has no mail, one whose    *)
(* socket is open is a member, and one that connects anew knows nobody yet; *)
(* who is connected will know, when it has read its mail, who is a member.  *)
NetInv ==
    \A p \in Peers :
        /\ net[p] = "connecting" => \A q \in Peers : ~link[p][q].known
        /\ net[p] = "on" => p \in room
        /\ net[p] # "on" => mail[p] = <<>>

HeardBy(p) ==
    net[p] = "on" =>
      \A q \in Peers \ {p} : Heard(mail[p], q, link[p][q].known, q \in room)

RoomInv == LinkInv /\ NetInv /\ \A p \in Peers : HeardBy(p)

LEMMA NothingAdded ==
  ASSUME NEW b \in Seq(Message), NEW s \in Seq(Message), s = <<>>
  PROVE  b \o s = b
BY ConcatEmptySeq

LEMMA TurnedNet ==
  ASSUME RoomInv, NEW p \in Peers, NEW rd \in BOOLEAN, NEW after \in [Peers -> LinkType],
         NEW sigs \in [Peers -> Seq(Message)], NEW out \in [Peers -> Seq(Wire)],
         Turned(p, rd, after, sigs, out)
  PROVE  NetInv'
<1>1. Base /\ LinksOK /\ NetInv
  BY DEF RoomInv, LinkInv, Base
<1>2. /\ link'[p] = after /\ (\A r \in Peers \ {p} : link'[r] = link[r])
      /\ UNCHANGED <<net, room, trouble>>
  BY <1>1, TurnedLinks
<1>3. Reads(p, rd, after) /\ ~after[p].known
  BY DEF Turned, Shift
<1>4. ASSUME NEW q \in Peers, net[q] # "on"
      PROVE  mail'[q] = <<>>
  <2>1. PICK s \in Seq(Message) :
          /\ mail'[q] = Unread(p, rd)[q] \o s
          /\ Unread(p, rd)[q] \in Seq(Message)
          /\ s # <<>> => Forwards(p, q) /\ q # p
    <3>1. \E s \in Seq(Message) :
            /\ mail'[q] = Unread(p, rd)[q] \o s
            /\ Unread(p, rd)[q] \in Seq(Message)
            /\ s # <<>> => Forwards(p, q) /\ q # p
            /\ \A i \in DOMAIN s : Added(p, after, out, s[i], q)
            /\ Delivered(p, after, out, s, q)
      BY <1>1, Sending
    <3> QED BY <3>1, Zenon
  <2>2. s = <<>>
    BY <1>4, <2>1 DEF Forwards
  <2>3. Unread(p, rd)[q] = mail[q]
    <3>1. rd => q # p /\ mail[p] # <<>>
      BY <1>3, <1>4 DEF Reads
    <3> QED BY <1>1, <3>1, UnreadType
  <2>4. mail'[q] = mail[q]
    BY <2>1, <2>2, <2>3, NothingAdded
  <2> QED BY <1>1, <1>4, <2>4 DEF NetInv
<1>5. ASSUME NEW q \in Peers, net[q] = "connecting", NEW r \in Peers
      PROVE  ~link'[q][r].known
  <2>1. CASE q = p
    <3>1. ~rd
      BY <1>3, <1>5, <2>1 DEF Reads
    <3>2. CASE r # p
      BY <1>1, <1>2, <1>3, <1>5, <2>1, <3>1, <3>2 DEF Reads, NetInv
    <3>3. CASE r = p
      BY <1>2, <1>3, <2>1, <3>3
    <3> QED BY <3>2, <3>3
  <2>2. CASE q # p
    BY <1>1, <1>2, <1>5, <2>2 DEF NetInv
  <2> QED BY <2>1, <2>2
<1> QED BY <1>1, <1>2, <1>4, <1>5 DEF NetInv

LEMMA TurnedHeard ==
  ASSUME RoomInv, NEW p \in Peers, NEW rd \in BOOLEAN, NEW after \in [Peers -> LinkType],
         NEW sigs \in [Peers -> Seq(Message)], NEW out \in [Peers -> Seq(Wire)],
         Turned(p, rd, after, sigs, out), NEW x \in Peers
  PROVE  HeardBy(x)'
<1>1. Base /\ LinksOK /\ NetInv /\ HeardBy(x) /\ mail[x] \in Seq(Message)
      /\ room \subseteq Peers /\ link[x] \in [Peers -> LinkType]
  BY DEF RoomInv, LinkInv, Base, SentOK, RestOK, LinksOK
<1>2. /\ link'[p] = after /\ (\A r \in Peers \ {p} : link'[r] = link[r])
      /\ UNCHANGED <<net, room, trouble>>
  BY <1>1, TurnedLinks
<1>3. Reads(p, rd, after)
  BY DEF Turned
<1>4. PICK s \in Seq(Message) :
        /\ mail'[x] = Unread(p, rd)[x] \o s
        /\ Unread(p, rd)[x] \in Seq(Message)
        /\ s # <<>> => Forwards(p, x) /\ x # p
        /\ \A i \in DOMAIN s : Added(p, after, out, s[i], x)
  <2>1. \E s \in Seq(Message) :
          /\ mail'[x] = Unread(p, rd)[x] \o s
          /\ Unread(p, rd)[x] \in Seq(Message)
          /\ s # <<>> => Forwards(p, x) /\ x # p
          /\ \A i \in DOMAIN s : Added(p, after, out, s[i], x)
          /\ Delivered(p, after, out, s, x)
    BY <1>1, Sending
  <2> QED BY <2>1, Zenon
<1>5. rd => net[p] = "on" /\ mail[p] # <<>>
  BY <1>3 DEF Reads
<1> SUFFICES ASSUME net[x] = "on", NEW q \in Peers \ {x}, NEW k, k = link'[x][q].known,
                    NEW r, r = (q \in room)
             PROVE  Heard(mail'[x], q, k, r)
  BY <1>2 DEF HeardBy
<1>6. Heard(mail[x], q, link[x][q].known, r) /\ r \in BOOLEAN /\ link[x][q].known \in BOOLEAN
  BY <1>1 DEF HeardBy, LinkType
<1>7. CASE x = p
  <2>1. s = <<>>
    BY <1>4, <1>7
  <2>2. mail'[x] = Unread(p, rd)[x]
    BY <1>4, <2>1, NothingAdded
  <2>3. k \in BOOLEAN /\ k = after[q].known
    BY <1>2, <1>7 DEF LinkType
  <2>4. k <=> IF rd /\ Tells(Head(mail[p]), q) THEN Head(mail[p]).t # "leave" ELSE link[p][q].known
    BY <1>3, <1>7, <2>3 DEF Reads
  <2>5. CASE rd
    <3>1. mail'[x] = Tail(mail[x]) /\ mail[x] # <<>>
      BY <1>1, <1>5, <1>7, <2>2, <2>5, UnreadType
    <3>2. /\ Tells(Head(mail[x]), q) => (k <=> Head(mail[x]).t # "leave")
          /\ ~Tells(Head(mail[x]), q) => (k <=> link[x][q].known)
      BY <1>7, <2>4, <2>5
    <3>3. Heard(Tail(mail[x]), q, k, r)
      BY <1>1, <1>6, <2>3, <3>1, <3>2, HeardRest
    <3> QED BY <3>1, <3>3
  <2>6. CASE ~rd
    <3>1. mail'[x] = mail[x]
      BY <1>1, <1>7, <2>2, <2>6, UnreadType
    <3>2. k = link[x][q].known
      BY <1>6, <1>7, <2>3, <2>4, <2>6
    <3> QED BY <1>6, <3>1, <3>2
  <2> QED BY <2>5, <2>6
<1>8. CASE x # p
  <2>1. Unread(p, rd)[x] = mail[x] /\ k = link[x][q].known
    BY <1>1, <1>2, <1>5, <1>8, UnreadType
  <2>2. ASSUME NEW i \in DOMAIN s, Tells(s[i], q)
        PROVE  s[i].t # "leave" <=> r
    <3>1. s # <<>>
      BY <2>2, EmptySeq
    <3>2. Forwards(p, x) /\ s[i].from = p /\ s[i].t \in {"offer", "answer", "wire"}
      BY <1>4, <2>2, <3>1 DEF Added
    <3>3. q = p /\ p \in room
      BY <1>1, <2>2, <3>2 DEF Tells, Forwards, NetInv
    <3> QED BY <3>2, <3>3
  <2>3. Heard(mail[x] \o s, q, k, r)
    BY <1>1, <1>6, <2>1, <2>2, HeardMore
  <2> QED BY <1>4, <2>1, <2>3
<1> QED BY <1>7, <1>8

(* News of p tells nothing of others.                                       *)
LEMMA NewsOfOthers ==
  ASSUME NEW p \in Peers, NEW q \in Peers \ {p}, NEW b \in Seq(Message), NEW s \in Seq(Message),
         News(p, s), NEW k \in BOOLEAN, NEW r \in BOOLEAN, Heard(b, q, k, r)
  PROVE  Heard(b \o s, q, k, r)
<1>1. \A i \in DOMAIN s : ~Tells(s[i], q)
  BY DEF News, Tells
<1> QED BY <1>1, HeardMore

LEMMA ConnectNet ==
  ASSUME RoomInv, NEW p \in Peers, Connect(p)
  PROVE  NetInv' /\ \A x \in Peers : HeardBy(x)'
<1>1. /\ LinkInv /\ LinksOK /\ NetInv /\ mail \in [Peers -> Seq(Message)]
      /\ room \subseteq Peers /\ link \in [Peers -> [Peers -> LinkType]]
      /\ net \in [Peers -> {"connecting", "on", "off"}]
  BY DEF RoomInv, LinkInv, Base, SentOK, RestOK, LinksOK
<1>2. /\ net[p] = "connecting" /\ net' = [net EXCEPT ![p] = "on"] /\ room' = room \cup {p}
      /\ UNCHANGED link
  BY DEF Connect
<1>3. /\ net'[p] = "on" /\ \A x \in Peers \ {p} : net'[x] = net[x]
  BY <1>1, <1>2
<1>4. \A x \in Peers \ {p} : IF x \in room /\ net[x] = "on"
                             THEN Told(p, p \in room, mail[x], mail'[x])
                             ELSE mail'[x] = mail[x]
  BY <1>1, ConnectTells
<1>5. NetInv'
  <2>1. ASSUME NEW x \in Peers, net'[x] # "on"
        PROVE  mail'[x] = <<>>
    BY <1>1, <1>3, <1>4, <2>1 DEF NetInv
  <2>2. ASSUME NEW x \in Peers
        PROVE  /\ net'[x] = "connecting" => \A q \in Peers : ~link'[x][q].known
               /\ net'[x] = "on" => x \in room'
    BY <1>1, <1>2, <1>3 DEF NetInv
  <2> QED BY <2>1, <2>2 DEF NetInv
<1>6. HeardBy(p)'
  <2> DEFINE m == [t |-> "joined", from |-> p, body |-> room \ {p}]
  <2>1. m \in Message /\ m.t = "joined" /\ m.body = room \ {p}
    BY <1>1, MessagesMade
  <2>2. mail'[p] = <<m>>
    BY <1>1, ConnectTells
  <2> HIDE DEF m
  <2>3. PICK c : c = mail'[p]
    OBVIOUS
  <2>4. DOMAIN c = {1} /\ c[1] = m
    BY <2>1, <2>2, <2>3, OneMessage
  <2>5. ASSUME NEW q \in Peers \ {p}, NEW k, k = link[p][q].known
        PROVE  Heard(c, q, k, q \in room')
    <3>1. ~k
      BY <1>1, <1>2, <2>5 DEF NetInv
    <3>2. Tells(c[1], q) <=> q \in room
      BY <2>1, <2>4 DEF Tells
    <3>3. q \in room' <=> q \in room
      BY <1>2
    <3>4. \A i \in DOMAIN c : i = 1 /\ c[i].t # "leave"
      BY <2>1, <2>4
    <3>5. (\A i \in DOMAIN c : ~Tells(c[i], q)) => q \notin room
      BY <2>4, <3>2
    <3>6. \A i \in DOMAIN c : Final(c, i, q) => q \in room
      BY <3>2, <3>4 DEF Final
    <3> QED BY <3>1, <3>3, <3>4, <3>5, <3>6 DEF Heard
  <2> QED BY <1>2, <2>3, <2>5 DEF HeardBy
<1>7. ASSUME NEW x \in Peers \ {p}, net[x] = "on", NEW q \in Peers \ {x}, NEW k, k = link[x][q].known,
             NEW r, r = (q \in room \cup {p})
      PROVE  Heard(mail'[x], q, k, r)
  <2>1. Told(p, p \in room, mail[x], mail'[x])
    BY <1>1, <1>4, <1>7 DEF NetInv
  <2>2. PICK s \in Seq(Message) : mail'[x] = mail[x] \o s /\ News(p, s) /\ Joins(p, p \in room, s)
    BY <2>1 DEF Told
  <2>3. /\ Heard(mail[x], q, k, q \in room) /\ k \in BOOLEAN /\ r \in BOOLEAN
        /\ mail[x] \in Seq(Message)
    BY <1>1, <1>7 DEF RoomInv, HeardBy, LinkType
  <2>4. CASE q = p
    <3>1. r = TRUE
      BY <1>7, <2>4
    <3>2. (\E i \in DOMAIN s : Tells(s[i], q)) /\ \A i \in DOMAIN s : Final(s, i, q) => (s[i].t # "leave" <=> r)
      BY <2>2, <2>4, <3>1 DEF News, Joins
    <3> QED BY <2>2, <2>3, <3>2, HeardNews
  <2>5. CASE q # p
    <3>1. r = (q \in room)
      BY <1>7, <2>5
    <3>2. Heard(mail[x], q, k, r) /\ q \in Peers \ {p}
      BY <2>3, <2>5, <3>1
    <3> QED BY <2>2, <2>3, <3>2, NewsOfOthers
  <2> QED BY <2>4, <2>5
<1>8. ASSUME NEW x \in Peers \ {p} PROVE HeardBy(x)'
  BY <1>2, <1>3, <1>7 DEF HeardBy
<1> QED BY <1>5, <1>6, <1>8

LEMMA HubNoticesNet ==
  ASSUME RoomInv, NEW p \in Peers, HubNotices(p)
  PROVE  NetInv' /\ \A x \in Peers : HeardBy(x)'
<1>1. /\ LinkInv /\ LinksOK /\ NetInv /\ mail \in [Peers -> Seq(Message)]
      /\ room \subseteq Peers /\ link \in [Peers -> [Peers -> LinkType]]
  BY DEF RoomInv, LinkInv, Base, SentOK, RestOK, LinksOK
<1>2. /\ p \in room /\ net[p] # "on" /\ room' = room \ {p} /\ UNCHANGED <<net, link>>
  BY DEF HubNotices
<1>3. \A x \in Peers : IF x \in room \ {p} /\ net[x] = "on"
                       THEN \E s \in Seq(Message) :
                              /\ mail'[x] = mail[x] \o s /\ News(p, s)
                              /\ \A i \in DOMAIN s : s[i].t = "leave"
                              /\ LeaveIn(s, p)
                       ELSE mail'[x] = mail[x]
  BY <1>1, HubNoticesTells
<1>4. NetInv'
  <2>1. ASSUME NEW x \in Peers, net'[x] # "on"
        PROVE  mail'[x] = <<>>
    BY <1>1, <1>2, <1>3, <2>1 DEF NetInv
  <2>2. ASSUME NEW x \in Peers
        PROVE  /\ net'[x] = "connecting" => \A q \in Peers : ~link'[x][q].known
               /\ net'[x] = "on" => x \in room'
    BY <1>1, <1>2 DEF NetInv
  <2> QED BY <2>1, <2>2 DEF NetInv
<1>5. ASSUME NEW x \in Peers, net[x] = "on", NEW q \in Peers \ {x}, NEW k, k = link[x][q].known,
             NEW r, r = (q \in room \ {p})
      PROVE  Heard(mail'[x], q, k, r)
  <2>1. x \in room \ {p}
    BY <1>1, <1>2, <1>5 DEF NetInv
  <2>2. PICK s \in Seq(Message) : /\ mail'[x] = mail[x] \o s /\ News(p, s)
                                  /\ \A i \in DOMAIN s : s[i].t = "leave"
    BY <1>3, <1>5, <2>1
  <2>3. /\ Heard(mail[x], q, k, q \in room) /\ k \in BOOLEAN /\ r \in BOOLEAN
        /\ mail[x] \in Seq(Message)
    BY <1>1, <1>5 DEF RoomInv, HeardBy, LinkType
  <2>4. CASE q = p
    <3>1. r = FALSE
      <4>1. ~r
        BY <1>5, <2>4, Zenon
      <4>2. r \in BOOLEAN
        BY <2>3, Zenon
      <4> QED BY <4>1, <4>2
    <3>2. (\E i \in DOMAIN s : Tells(s[i], q)) /\ \A i \in DOMAIN s : Final(s, i, q) => (s[i].t # "leave" <=> r)
      BY <2>2, <2>4, <3>1 DEF News
    <3> QED BY <2>2, <2>3, <3>2, HeardNews
  <2>5. CASE q # p
    <3>1. r = (q \in room)
      BY <1>5, <2>5
    <3>2. Heard(mail[x], q, k, r) /\ q \in Peers \ {p}
      BY <2>3, <2>5, <3>1
    <3> QED BY <2>2, <2>3, <3>2, NewsOfOthers
  <2> QED BY <2>4, <2>5
<1>6. ASSUME NEW x \in Peers PROVE HeardBy(x)'
  BY <1>2, <1>5 DEF HeardBy
<1> QED BY <1>4, <1>6

(* A client whose socket closes is not there to hear.                       *)
LEMMA SocketNet ==
  ASSUME RoomInv, NEW p \in Peers, SocketLost(p) \/ Leave(p)
  PROVE  NetInv' /\ \A x \in Peers : HeardBy(x)'
<1>1. /\ LinksOK /\ NetInv /\ mail \in [Peers -> Seq(Message)]
      /\ link \in [Peers -> [Peers -> LinkType]]
      /\ net \in [Peers -> {"connecting", "on", "off"}]
  BY DEF RoomInv, LinkInv, Base, SentOK, RestOK, LinksOK
<1>2. /\ net' = [net EXCEPT ![p] = "connecting"] \/ net' = [net EXCEPT ![p] = "off"]
      /\ mail' = [mail EXCEPT ![p] = <<>>] /\ room' = room
      /\ \/ link' = [link EXCEPT ![p] = [q \in Peers |-> NoLink]]
         \/ UNCHANGED link /\ net' = [net EXCEPT ![p] = "off"]
  BY DEF SocketLost, Leave, Disconnect
<1>3. /\ net'[p] # "on" /\ mail'[p] = <<>>
      /\ \A x \in Peers \ {p} : net'[x] = net[x] /\ mail'[x] = mail[x] /\ link'[x] = link[x]
      /\ net'[p] = "connecting" => \A q \in Peers : link'[p][q] = NoLink
  BY <1>1, <1>2
<1>4. NetInv'
  BY <1>1, <1>2, <1>3, NoLinkType DEF NetInv
<1>5. ASSUME NEW x \in Peers PROVE HeardBy(x)'
  <2>1. CASE x = p
    BY <1>3, <2>1 DEF HeardBy
  <2>2. CASE x # p
    BY <1>2, <1>3, <2>2 DEF HeardBy, RoomInv
  <2> QED BY <2>1, <2>2
<1> QED BY <1>4, <1>5

LEMMA SameNet ==
  ASSUME RoomInv, UNCHANGED <<net, room, mail, link>>
  PROVE  NetInv' /\ \A x \in Peers : HeardBy(x)'
BY DEF RoomInv, NetInv, HeardBy

LEMMA RoomInit ==
  Init => RoomInv
<1> SUFFICES ASSUME Init PROVE RoomInv
  OBVIOUS
<1>1. LinkInv
  BY InitOK
<1>2. NetInv /\ \A p \in Peers : HeardBy(p)
  BY NoLinkType DEF Init, NetInv, HeardBy, Silence
<1> QED BY <1>1, <1>2 DEF RoomInv

LEMMA RoomStep ==
  RoomInv /\ [Next]_vars => RoomInv'
<1> SUFFICES ASSUME RoomInv, [Next]_vars PROVE RoomInv'
  OBVIOUS
<1>1. LinkInv /\ LinkInv'
  BY StepKeeps DEF RoomInv
<1>2. ASSUME Next PROVE NetInv' /\ \A x \in Peers : HeardBy(x)'
  <2>1. PICK p \in Peers : Turning(p) \/ Other(p)
    BY <1>1, <1>2, StepKinds
  <2>2. CASE Turning(p)
    <3>1. PICK rd \in BOOLEAN, after \in [Peers -> LinkType],
               sigs \in [Peers -> Seq(Message)], out \in [Peers -> Seq(Wire)] :
                 Turned(p, rd, after, sigs, out)
      BY <2>2 DEF Turning
    <3> QED BY <3>1, TurnedNet, TurnedHeard
  <2>3. CASE SocketLost(p) \/ Leave(p)
    BY <2>3, SocketNet
  <2>4. CASE Connect(p)
    BY <2>4, ConnectNet
  <2>5. CASE HubNotices(p)
    BY <2>5, HubNoticesNet
  <2>6. ASSUME NEW q \in Peers \ {p},
               ReceiveOverChannel(p, q) \/ ChannelConnects(p, q) \/ ChannelFails(p, q)
        PROVE  NetInv' /\ \A x \in Peers : HeardBy(x)'
    <3>1. UNCHANGED <<net, room, mail, link>>
      BY <2>6 DEF ReceiveOverChannel, ChannelConnects, ChannelFails
    <3> QED BY <3>1, SameNet
  <2> QED BY <2>1, <2>2, <2>3, <2>4, <2>5, <2>6 DEF Other
<1>3. ASSUME UNCHANGED vars PROVE NetInv' /\ \A x \in Peers : HeardBy(x)'
  BY <1>3, SameNet DEF vars
<1> QED BY <1>1, <1>2, <1>3 DEF RoomInv

LEMMA RoomInvariant ==
  Spec => []RoomInv
<1> QED BY RoomInit, RoomStep, PTL DEF Spec

LEMMA OpenAtRest ==
  RoomInv => OpenIsThere
<1> SUFFICES ASSUME RoomInv, Quiet, NEW p \in Peers, NEW q \in Peers, p # q, net[p] = "on"
             PROVE  link[p][q].open <=> net[q] = "on"
  BY DEF OpenIsThere
<1>1. mail[p] = <<>> /\ (q \in room => net[q] = "on")
  BY DEF Quiet
<1>2. q \in room <=> net[q] = "on"
  BY <1>1 DEF RoomInv, NetInv
<1>3. Heard(mail[p], q, link[p][q].known, q \in room)
  BY DEF RoomInv, HeardBy
<1>4. link[p][q].known <=> q \in room
  BY <1>1, <1>3, EmptySeq DEF Heard
<1>5. link[p][q].open <=> link[p][q].known
  BY DEF RoomInv, LinkInv, Base, LinksOK, Tied
<1> QED BY <1>2, <1>4, <1>5

(* When nothing is under way, a client is open to the others that are       *)
(* connected, and to no one else: no order in which channels close, clients *)
(* rejoin and the hub tells of it leaves one open that is gone.             *)
THEOREM OpenMeansThere ==
  Spec => []OpenIsThere
<1> QED BY OpenAtRest, RoomInvariant, PTL

-----------------------------------------------------------------------------
(* The channels.  One that is up has both its ends, where it is the channel *)
(* of their entries, and wires are under way only on one that is up.        *)
HeldInv == \A p, q \in Peers : link[p][q].stage \in Held => link[p][q].chan # NoChan

UpInv == \A c \in up : c # NoChan /\ \E a, b \in Peers : link[a][b].chan = c

PairInv == \A p, q \in Peers : link[p][q].chan \in up =>
             link[q][p].chan = link[p][q].chan /\ link[p][q].stage \in Live

PipeInv == \A p, q \in Peers : pipe[p][q] # <<>> => link[p][q].chan \in up

ChanInv == HeldInv /\ UpInv /\ PairInv /\ PipeInv

(* No two pairs of peers have a channel in common.                          *)
LEMMA SameChan ==
  ASSUME Named, NEW a \in Peers, NEW b \in Peers, NEW r \in Peers, NEW s \in Peers,
         link[a][b].chan # NoChan, link[r][s].chan = link[a][b].chan
  PROVE  (a = r /\ b = s) \/ (a = s /\ b = r)
<1> DEFINE c == link[a][b].chan
<1>1. Numbered(a, b, c) \/ Numbered(b, a, c)
  BY DEF Named
<1>2. Numbered(r, s, c) \/ Numbered(s, r, c)
  BY DEF Named
<1> HIDE DEF c
<1> QED BY <1>1, <1>2 DEF Numbered

NotTorn(p, after, c) == \A q \in Peers : Torn(p, after, q) => c # link[p][q].chan

LEMMA TurnedUp ==
  ASSUME NEW p \in Peers, NEW rd \in BOOLEAN, NEW after \in [Peers -> LinkType],
         NEW sigs \in [Peers -> Seq(Message)], NEW out \in [Peers -> Seq(Wire)],
         Turned(p, rd, after, sigs, out), NEW c
  PROVE  c \in up' <=> c \in up /\ NotTorn(p, after, c)
<1> DEFINE torn == {q \in Peers : link[p][q].chan # NoChan /\ after[q].chan # link[p][q].chan}
<1>1. up' = up \ {link[p][q].chan : q \in torn}
  BY Zenon DEF Turned, Becomes
<1>2. \A q \in Peers : q \in torn <=> Torn(p, after, q)
  BY DEF Torn
<1>3. torn \subseteq Peers
  OBVIOUS
<1>4. c \in {link[p][q].chan : q \in torn} <=> ~NotTorn(p, after, c)
  <2> HIDE DEF torn
  <2> QED BY <1>2, <1>3 DEF NotTorn
<1> HIDE DEF torn
<1> QED BY <1>1, <1>4

LEMMA TurnedChans ==
  ASSUME Base, ChanInv, NEW p \in Peers, NEW rd \in BOOLEAN, NEW after \in [Peers -> LinkType],
         NEW sigs \in [Peers -> Seq(Message)], NEW out \in [Peers -> Seq(Wire)],
         Turned(p, rd, after, sigs, out)
  PROVE  ChanInv'
<1>1. LinksOK /\ SentOK /\ Named /\ MadeOK /\ HeldInv /\ UpInv /\ PairInv /\ PipeInv
  BY DEF Base, ChanInv
<1>2. link'[p] = after /\ \A r \in Peers \ {p} : link'[r] = link[r]
  BY <1>1, TurnedLinks
<1>3. \A q \in Peers : Shift(p, q, link[p][q], after[q])
  BY DEF Turned
<1>4. Named'
  BY TurnedNamed
<1>5. \A c : c \in up' => c \in up /\ \A q \in Peers : Torn(p, after, q) => c # link[p][q].chan
  BY TurnedUp DEF NotTorn
<1>6. \A c : c \in up => c # NoChan
  BY <1>1 DEF UpInv
<1>7. HeldInv'
  <2> SUFFICES ASSUME NEW a \in Peers, NEW b \in Peers, link'[a][b].stage \in Held
               PROVE  link'[a][b].chan # NoChan
    BY DEF HeldInv
  <2>1. CASE a = p
    BY <1>1, <1>2, <1>3, <2>1 DEF HeldInv, Shift
  <2>2. CASE a # p
    BY <1>1, <1>2, <2>2 DEF HeldInv
  <2> QED BY <2>1, <2>2
<1>8. UpInv'
  <2> SUFFICES ASSUME NEW c \in up'
               PROVE  c # NoChan /\ \E a, b \in Peers : link'[a][b].chan = c
    BY DEF UpInv
  <2>1. c # NoChan /\ c \in up
    BY <1>5, <1>6
  <2>2. PICK a \in Peers, b \in Peers : link[a][b].chan = c
    BY <1>1, <2>1 DEF UpInv
  <2>3. CASE a = p
    <3>1. ~Torn(p, after, b)
      BY <1>5, <2>2, <2>3
    <3>2. link'[a][b].chan = c
      BY <1>2, <2>1, <2>2, <2>3, <3>1 DEF Torn
    <3> QED BY <2>1, <3>2
  <2>4. CASE a # p
    BY <1>2, <2>1, <2>2, <2>4
  <2> QED BY <2>3, <2>4
<1>9. ASSUME NEW b \in Peers, NEW c, c = after[b].chan, c \in up'
      PROVE  c = link[p][b].chan
  <2> SUFFICES ASSUME c # link[p][b].chan PROVE FALSE
    OBVIOUS
  <2>1. c # NoChan /\ c \in up
    BY <1>5, <1>6, <1>9
  <2>2. PICK x \in Peers, y \in Peers : link[x][y].chan = c
    BY <1>1, <2>1 DEF UpInv
  <2>3. Numbered(x, y, c) \/ Numbered(y, x, c)
    BY <1>1, <2>1, <2>2 DEF Named
  <2>4. \/ made'[p][b] = made[p][b] + 1 /\ c = <<p, b, made'[p][b]>>
        \/ Numbered(b, p, c)
    BY <1>3, <1>9, <2>1 DEF Shift
  <2>5. CASE made'[p][b] = made[p][b] + 1 /\ c = <<p, b, made'[p][b]>>
    <3>1. made[p][b] \in Nat
      BY <1>1 DEF MadeOK
    <3> QED BY <2>3, <2>5, <3>1 DEF Numbered
  <2>6. CASE Numbered(b, p, c)
    <3>1. (x = b /\ y = p) \/ (x = p /\ y = b)
      BY <2>3, <2>6 DEF Numbered
    <3>2. link[b][p].chan = c
      BY <1>9, <2>2, <3>1
    <3>3. link[p][b].chan = c
      BY <1>1, <2>1, <3>2 DEF PairInv
    <3> QED BY <3>3
  <2> QED BY <2>4, <2>5, <2>6
<1>10. PairInv'
  <2> SUFFICES ASSUME NEW a \in Peers, NEW b \in Peers, NEW c, c = link'[a][b].chan, c \in up'
               PROVE  link'[b][a].chan = c /\ link'[a][b].stage \in Live
    BY DEF PairInv
  <2>1. c # NoChan /\ c \in up
    BY <1>5, <1>6
  <2>2. a # b
    BY <1>4, <2>1 DEF Named
  <2>3. CASE a = p
    <3>1. c = link[p][b].chan
      BY <1>2, <1>9, <2>3
    <3>2. link[b][p].chan = c /\ link[p][b].stage \in Live
      BY <1>1, <2>1, <3>1 DEF PairInv
    <3>3. after[b].stage \in Live
      BY <1>2, <1>3, <2>1, <2>3, <3>1, <3>2 DEF Shift
    <3> QED BY <1>2, <2>2, <2>3, <3>2, <3>3
  <2>4. CASE a # p
    <3>1. c = link[a][b].chan /\ link'[a] = link[a]
      BY <1>2, <2>4
    <3>2. link[b][a].chan = c /\ link[a][b].stage \in Live
      BY <1>1, <2>1, <3>1 DEF PairInv
    <3>3. link'[b][a].chan = c
      <4>1. CASE b = p
        <5>1. ~Torn(p, after, a)
          BY <1>5, <3>2, <4>1
        <5> QED BY <1>2, <2>1, <3>2, <4>1, <5>1 DEF Torn
      <4>2. CASE b # p
        BY <1>2, <3>2, <4>2
      <4> QED BY <4>1, <4>2
    <3> QED BY <3>1, <3>2, <3>3
  <2> QED BY <2>3, <2>4
<1>11. PipeInv'
  <2> SUFFICES ASSUME NEW a \in Peers, NEW b \in Peers, pipe'[a][b] # <<>>
               PROVE  link'[a][b].chan \in up'
    BY DEF PipeInv
  <2>1. Piped(p, after, out, a, b)
    BY <1>1, TurnedPipe
  <2>2. ~TornPipe(p, after, a, b)
    BY <2>1 DEF Piped
  <2>3. CASE a = p /\ OpenPipe(p, after, b)
    <3>1. PICK c : c = after[b].chan
      OBVIOUS
    <3>2. c \in up /\ c # NoChan /\ c = link'[p][b].chan
      BY <1>2, <1>6, <2>3, <3>1 DEF OpenPipe
    <3>3. ASSUME NEW q \in Peers, Torn(p, after, q), c = link[p][q].chan PROVE FALSE
      <4>1. Numbered(p, q, c) \/ Numbered(q, p, c)
        BY <1>1, <3>2, <3>3 DEF Named
      <4>2. Numbered(p, b, c)' \/ Numbered(b, p, c)'
        BY <1>4, <3>2 DEF Named
      <4>3. q = b
        BY <4>1, <4>2 DEF Numbered
      <4> QED BY <3>1, <3>3, <4>3 DEF Torn
    <3>4. c \in up'
      <4>1. NotTorn(p, after, c)
        BY <3>3 DEF NotTorn
      <4> QED BY <3>2, <4>1, TurnedUp
    <3> QED BY <2>3, <3>2, <3>4
  <2>4. CASE ~(a = p /\ OpenPipe(p, after, b))
    <3>1. pipe'[a][b] = pipe[a][b]
      BY <2>1, <2>2, <2>4 DEF Piped
    <3>2. PICK c : c = link[a][b].chan
      OBVIOUS
    <3>3. c \in up /\ c # NoChan
      BY <1>1, <1>6, <3>1, <3>2 DEF PipeInv
    <3>4. link'[a][b].chan = c
      <4>1. CASE a = p
        BY <1>2, <2>2, <3>2, <3>3, <4>1 DEF TornPipe, Torn
      <4>2. CASE a # p
        BY <1>2, <3>2, <4>2
      <4> QED BY <4>1, <4>2
    <3>5. ASSUME NEW q \in Peers, Torn(p, after, q), c = link[p][q].chan PROVE FALSE
      <4>1. /\ Named /\ link[a][b].chan # NoChan
            /\ link[p][q].chan = link[a][b].chan
        BY <1>1, <3>2, <3>3, <3>5
      <4>2. (a = p /\ b = q) \/ (a = q /\ b = p)
        BY <4>1, SameChan
      <4> QED BY <2>2, <3>5, <4>2 DEF TornPipe
    <3>6. c \in up'
      <4>1. NotTorn(p, after, c)
        BY <3>5 DEF NotTorn
      <4> QED BY <3>3, <4>1, TurnedUp
    <3> QED BY <3>4, <3>6
  <2> QED BY <2>3, <2>4
<1> QED BY <1>7, <1>8, <1>10, <1>11 DEF ChanInv

LEMMA OtherChans ==
  ASSUME LinkInv, ChanInv, NEW p \in Peers, Other(p)
  PROVE  ChanInv'
<1>1. /\ LinksOK /\ SentOK /\ Named /\ HeldInv /\ UpInv /\ PairInv /\ PipeInv
      /\ pipe \in [Peers -> [Peers -> Seq(Wire)]]
      /\ link \in [Peers -> [Peers -> LinkType]]
  BY DEF LinkInv, Base, ChanInv, SentOK, LinksOK
<1>2. CASE UNCHANGED <<link, up, pipe>>
  BY <1>1, <1>2 DEF ChanInv, HeldInv, UpInv, PairInv, PipeInv
<1>3. CASE Disconnect(p)
  <2>1. /\ link' = [link EXCEPT ![p] = [q \in Peers |-> NoLink]]
        /\ up' = {c \in up : ~\E q \in Peers : link[p][q].chan = c}
        /\ pipe' = [r \in Peers |-> [s \in Peers |-> IF p \in {r, s} THEN <<>> ELSE pipe[r][s]]]
    BY <1>3 DEF Disconnect
  <2>2. /\ \A q \in Peers : link'[p][q].chan = NoChan /\ link'[p][q].stage = "none"
        /\ \A r \in Peers \ {p} : link'[r] = link[r]
    BY <1>1, <2>1, NoLinkType
  <2>3. \A c : c \in up' <=> c \in up /\ \A q \in Peers : link[p][q].chan # c
    BY <2>1
  <2>4. \A r, s \in Peers : pipe'[r][s] # <<>> => r # p /\ s # p /\ pipe'[r][s] = pipe[r][s]
    BY <2>1
  <2>5. HeldInv'
    BY <1>1, <2>2 DEF HeldInv, Held, Live
  <2>6. UpInv'
    <3> SUFFICES ASSUME NEW c \in up'
                 PROVE  c # NoChan /\ \E a, b \in Peers : link'[a][b].chan = c
      BY DEF UpInv
    <3>1. PICK a \in Peers, b \in Peers : link[a][b].chan = c
      BY <1>1, <2>3 DEF UpInv
    <3>2. a # p
      BY <2>3, <3>1
    <3> QED BY <1>1, <2>2, <2>3, <3>1, <3>2 DEF UpInv
  <2>7. PairInv'
    <3> SUFFICES ASSUME NEW a \in Peers, NEW b \in Peers, NEW c, c = link'[a][b].chan, c \in up'
                 PROVE  link'[b][a].chan = c /\ link'[a][b].stage \in Live
      BY DEF PairInv
    <3>1. c \in up /\ c # NoChan
      BY <1>1, <2>3 DEF UpInv
    <3>2. a # p /\ c = link[a][b].chan
      BY <2>2, <3>1
    <3>3. link[b][a].chan = c /\ link[a][b].stage \in Live
      BY <1>1, <3>1, <3>2 DEF PairInv
    <3>4. b # p
      BY <2>3, <3>3
    <3> QED BY <2>2, <3>2, <3>3, <3>4
  <2>8. PipeInv'
    <3> SUFFICES ASSUME NEW a \in Peers, NEW b \in Peers, pipe'[a][b] # <<>>
                 PROVE  link'[a][b].chan \in up'
      BY DEF PipeInv
    <3>1. a # p /\ b # p /\ link[a][b].chan \in up
      BY <1>1, <2>4 DEF PipeInv
    <3>2. link[a][b].chan # NoChan
      BY <1>1, <3>1 DEF UpInv
    <3>3. \A q \in Peers : link[p][q].chan # link[a][b].chan
      BY <1>1, <3>1, <3>2, SameChan
    <3> QED BY <2>2, <2>3, <3>1, <3>3
  <2> QED BY <2>5, <2>6, <2>7, <2>8 DEF ChanInv
<1>4. ASSUME NEW q \in Peers \ {p}, ReceiveOverChannel(p, q) PROVE ChanInv'
  <2>1. PICK x, y : pipe' = [pipe EXCEPT ![q][p] = x, ![p][q] = y]
    BY <1>4 DEF ReceiveOverChannel
  <2>2. /\ link[p][q].chan \in up /\ pipe[q][p] # <<>> /\ UNCHANGED <<link, up>>
    BY <1>4 DEF ReceiveOverChannel
  <2>3. link[q][p].chan \in up
    BY <1>1, <2>2 DEF PipeInv
  <2>4. \A a, b \in Peers : (a = p /\ b = q) \/ (a = q /\ b = p) \/ pipe'[a][b] = pipe[a][b]
    BY <1>1, <2>1
  <2>5. PipeInv'
    BY <1>1, <2>2, <2>3, <2>4 DEF PipeInv
  <2> QED BY <1>1, <2>2, <2>5 DEF ChanInv, HeldInv, UpInv, PairInv
<1>5. ASSUME NEW q \in Peers \ {p}, ChannelConnects(p, q) PROVE ChanInv'
  <2> DEFINE c == link[p][q].chan
  <2>1. /\ link[p][q].stage = "paired" /\ link[q][p].stage = "paired" /\ link[q][p].chan = c
        /\ up' = up \cup {c} /\ UNCHANGED <<link, pipe>>
    BY <1>5 DEF ChannelConnects
  <2>2. c # NoChan
    BY <1>1, <2>1 DEF HeldInv, Held, Live
  <2>3. HeldInv' /\ UpInv' /\ PipeInv'
    BY <1>1, <2>1, <2>2 DEF HeldInv, UpInv, PipeInv
  <2>4. PairInv'
    <3> SUFFICES ASSUME NEW a \in Peers, NEW b \in Peers, link[a][b].chan \in up \cup {c}
                 PROVE  link[b][a].chan = link[a][b].chan /\ link[a][b].stage \in Live
      BY <2>1 DEF PairInv
    <3>1. CASE link[a][b].chan \in up
      BY <1>1, <3>1 DEF PairInv
    <3>2. CASE link[a][b].chan = c
      <4>1. (p = a /\ q = b) \/ (p = b /\ q = a)
        BY <1>1, <2>2, <3>2, SameChan
      <4> QED BY <2>1, <4>1 DEF Live
    <3> QED BY <3>1, <3>2
  <2> QED BY <2>3, <2>4 DEF ChanInv
<1>6. ASSUME NEW q \in Peers \ {p}, ChannelFails(p, q) PROVE ChanInv'
  <2> DEFINE c == link[p][q].chan
  <2>1. /\ c \in up /\ up' = up \ {c} /\ UNCHANGED link
        /\ pipe' = [pipe EXCEPT ![p][q] = <<>>, ![q][p] = <<>>]
    BY <1>6 DEF ChannelFails
  <2>2. c # NoChan
    BY <1>1, <2>1 DEF UpInv
  <2>3. \A a, b \in Peers : pipe'[a][b] # <<>> =>
          pipe'[a][b] = pipe[a][b] /\ ~(a = p /\ b = q) /\ ~(a = q /\ b = p)
    BY <1>1, <2>1
  <2>4. HeldInv' /\ UpInv' /\ PairInv'
    <3> HIDE DEF c
    <3>1. \A x : x \in up' => x \in up
      BY <2>1
    <3>2. HeldInv'
      BY <1>1, <2>1 DEF HeldInv
    <3>3. UpInv'
      BY <1>1, <2>1, <3>1 DEF UpInv
    <3>4. PairInv'
      BY <1>1, <2>1, <3>1 DEF PairInv
    <3> QED BY <3>2, <3>3, <3>4
  <2>5. PipeInv'
    <3> SUFFICES ASSUME NEW a \in Peers, NEW b \in Peers, pipe'[a][b] # <<>>
                 PROVE  link[a][b].chan \in up /\ link[a][b].chan # c
      BY <2>1 DEF PipeInv
    <3>1. link[a][b].chan \in up
      BY <1>1, <2>3 DEF PipeInv
    <3>2. ASSUME link[a][b].chan = c PROVE FALSE
      <4>1. (p = a /\ q = b) \/ (p = b /\ q = a)
        BY <1>1, <2>2, <3>2, SameChan
      <4> QED BY <2>3, <4>1
    <3> QED BY <3>1, <3>2
  <2> QED BY <2>4, <2>5 DEF ChanInv
<1>7. SocketLost(p) \/ Leave(p) => Disconnect(p) \/ UNCHANGED <<link, up, pipe>>
  BY DEF SocketLost, Leave
<1>8. Connect(p) \/ HubNotices(p) => UNCHANGED <<link, up, pipe>>
  BY DEF Connect, HubNotices
<1> QED BY <1>2, <1>3, <1>4, <1>5, <1>6, <1>7, <1>8 DEF Other

-----------------------------------------------------------------------------
(* Who will ask whom.  A client asks another for what it lacks when it      *)
(* opens to it, so it will ask if it is not open, or will not be when it    *)
(* has read that the other has left.                                        *)
Asks(q, p) == ~link[q][p].open \/ LeaveIn(mail[q], p)

(* Of one that is no member a client has read last that it has left, or     *)
(* will.                                                                    *)
Gone(b, q, o) ==
    \/ \E i \in DOMAIN b : IsLeave(b[i], q)
                           /\ \A j \in DOMAIN b : j > i /\ Tells(b[j], q) => IsLeave(b[j], q)
    \/ ~o /\ \A i \in DOMAIN b : ~Tells(b[i], q)

GoneBy(p, q) ==
    p # q /\ net[p] = "on" /\ q \notin room => Gone(mail[p], q, link[p][q].open)

(* Either q will ask p, or p is open to q, or will be when it has read that *)
(* q asks.                                                                  *)
FreshBy(p, q) == Both(p, q) => Asks(q, p) \/ Fresh(mail[p], q, link[p][q].open)

CallInv == RoomInv /\ \A p, q \in Peers : GoneBy(p, q) /\ FreshBy(p, q)

LEMMA GoneMore ==
  ASSUME NEW b \in Seq(Message), NEW s \in Seq(Message), NEW q \in Peers, NEW o \in BOOLEAN,
         Gone(b, q, o), \A i \in DOMAIN s : ~Tells(s[i], q)
  PROVE  Gone(b \o s, q, o)
<1>1. PICK c : c = b \o s
  OBVIOUS
<1>2. /\ \A i \in DOMAIN b : i \in DOMAIN c /\ c[i] = b[i]
      /\ \A i \in DOMAIN s : Len(b) + i \in DOMAIN c /\ c[Len(b) + i] = s[i]
      /\ \A i \in DOMAIN c : i \in DOMAIN b \/ (i - Len(b) \in DOMAIN s /\ i > Len(b))
      /\ DOMAIN c \subseteq Nat /\ Len(b) \in Nat
  BY <1>1, Positions
<1>3. ASSUME NEW i \in DOMAIN c, Tells(c[i], q)
      PROVE  i \in DOMAIN b /\ c[i] = b[i]
  <2>1. CASE i - Len(b) \in DOMAIN s
    <3>1. Len(b) + (i - Len(b)) = i
      BY <1>2
    <3>2. c[i] = s[i - Len(b)]
      BY <1>2, <2>1, <3>1
    <3> QED BY <1>3, <2>1, <3>2
  <2> QED BY <1>2, <2>1
<1>4. ASSUME NEW i \in DOMAIN b, IsLeave(b[i], q),
             \A j \in DOMAIN b : j > i /\ Tells(b[j], q) => IsLeave(b[j], q)
      PROVE  Gone(c, q, o)
  <2>1. i \in DOMAIN c /\ IsLeave(c[i], q)
    BY <1>2, <1>4
  <2>2. \A j \in DOMAIN c : j > i /\ Tells(c[j], q) => IsLeave(c[j], q)
    BY <1>3, <1>4
  <2> QED BY <2>1, <2>2 DEF Gone
<1>5. CASE ~o /\ \A i \in DOMAIN b : ~Tells(b[i], q)
  <2>1. \A i \in DOMAIN c : ~Tells(c[i], q)
    BY <1>3, <1>5
  <2> QED BY <1>1, <1>5, <2>1 DEF Gone
<1> QED BY <1>1, <1>4, <1>5 DEF Gone

LEMMA GoneNews ==
  ASSUME NEW b \in Seq(Message), NEW s \in Seq(Message), NEW q \in Peers, NEW o \in BOOLEAN,
         LeaveIn(s, q), \A i \in DOMAIN s : IsLeave(s[i], q)
  PROVE  Gone(b \o s, q, o)
<1>1. PICK c : c = b \o s
  OBVIOUS
<1>2. /\ \A i \in DOMAIN s : Len(b) + i \in DOMAIN c /\ c[Len(b) + i] = s[i]
      /\ \A i \in DOMAIN c : i \in DOMAIN b \/ (i - Len(b) \in DOMAIN s /\ i > Len(b))
      /\ DOMAIN c \subseteq Nat /\ Len(b) \in Nat /\ DOMAIN b = 1..Len(b)
      /\ DOMAIN s \subseteq Nat \ {0}
  BY <1>1, Positions
<1>3. PICK n \in DOMAIN s : IsLeave(s[n], q)
  BY DEF LeaveIn
<1>4. Len(b) + n \in DOMAIN c /\ IsLeave(c[Len(b) + n], q) /\ n \in Nat /\ n > 0
  BY <1>2, <1>3
<1>5. ASSUME NEW j \in DOMAIN c, j > Len(b) + n
      PROVE  IsLeave(c[j], q)
  <2>1. j \notin DOMAIN b
    BY <1>2, <1>4, <1>5
  <2>2. j - Len(b) \in DOMAIN s /\ Len(b) + (j - Len(b)) = j
    BY <1>2, <2>1
  <2>3. c[j] = s[j - Len(b)]
    BY <1>2, <2>2
  <2> QED BY <2>2, <2>3
<1> QED BY <1>1, <1>4, <1>5 DEF Gone

LEMMA GoneRest ==
  ASSUME NEW b \in Seq(Message), b # <<>>, NEW q \in Peers, NEW o \in BOOLEAN, NEW now \in BOOLEAN,
         Gone(b, q, o), IsLeave(Head(b), q) => ~now, ~Tells(Head(b), q) => (now <=> o)
  PROVE  Gone(Tail(b), q, now)
<1> DEFINE c == Tail(b)
<1>1. /\ Head(b) = b[1] /\ 1 \in DOMAIN b /\ DOMAIN b \subseteq Nat \ {0} /\ DOMAIN c \subseteq Nat \ {0}
      /\ \A i \in DOMAIN c : i + 1 \in DOMAIN b /\ c[i] = b[i + 1]
      /\ \A i \in DOMAIN b : i = 1 \/ (i - 1 \in DOMAIN c /\ c[i - 1] = b[i])
  BY Rest
<1> HIDE DEF c
<1>2. ASSUME NEW i \in DOMAIN b, IsLeave(b[i], q),
             \A j \in DOMAIN b : j > i /\ Tells(b[j], q) => IsLeave(b[j], q)
      PROVE  Gone(c, q, now)
  <2>1. CASE i # 1
    <3>1. i - 1 \in DOMAIN c /\ IsLeave(c[i - 1], q)
      BY <1>1, <1>2, <2>1
    <3>2. \A j \in DOMAIN c : j > i - 1 /\ Tells(c[j], q) => IsLeave(c[j], q)
      BY <1>1, <1>2
    <3> QED BY <3>1, <3>2 DEF Gone
  <2>2. CASE i = 1
    <3>1. ~now
      BY <1>1, <1>2, <2>2
    <3>2. \A j \in DOMAIN c : Tells(c[j], q) => IsLeave(c[j], q)
      BY <1>1, <1>2, <2>2
    <3>3. CASE \E j \in DOMAIN c : Tells(c[j], q)
      BY <3>2, <3>3 DEF Gone
    <3>4. CASE \A j \in DOMAIN c : ~Tells(c[j], q)
      BY <3>1, <3>4 DEF Gone
    <3> QED BY <3>3, <3>4
  <2> QED BY <2>1, <2>2
<1>3. ASSUME ~o, \A i \in DOMAIN b : ~Tells(b[i], q)
      PROVE  Gone(c, q, now)
  <2>1. ~now /\ \A i \in DOMAIN c : ~Tells(c[i], q)
    BY <1>1, <1>3
  <2> QED BY <2>1 DEF Gone
<1>4. Gone(c, q, now)
  BY <1>2, <1>3 DEF Gone
<1> QED BY <1>4 DEF c

(* What a step of the usual kind does to the mail, once more.               *)
LEMMA OwnMail ==
  ASSUME Base, NEW p \in Peers, NEW rd \in BOOLEAN, NEW after \in [Peers -> LinkType],
         NEW sigs \in [Peers -> Seq(Message)], NEW out \in [Peers -> Seq(Wire)],
         Turned(p, rd, after, sigs, out)
  PROVE  mail'[p] = IF rd THEN Tail(mail[p]) ELSE mail[p]
<1>1. \E s \in Seq(Message) :
        /\ mail'[p] = Unread(p, rd)[p] \o s
        /\ Unread(p, rd)[p] \in Seq(Message)
        /\ s # <<>> => Forwards(p, p) /\ p # p
        /\ \A i \in DOMAIN s : Added(p, after, out, s[i], p)
        /\ Delivered(p, after, out, s, p)
  BY Sending
<1>2. PICK s \in Seq(Message) :
        /\ mail'[p] = Unread(p, rd)[p] \o s
        /\ Unread(p, rd)[p] \in Seq(Message)
        /\ s # <<>> => Forwards(p, p) /\ p # p
  BY <1>1, Zenon
<1>3. rd => mail[p] # <<>>
  BY DEF Turned, Reads
<1>4. Unread(p, rd)[p] = IF rd THEN Tail(mail[p]) ELSE mail[p]
  BY <1>3, UnreadType
<1>5. mail'[p] = Unread(p, rd)[p]
  BY <1>2, NothingAdded
<1> QED BY <1>4, <1>5

SentTo(p, after, out, x, s) ==
    /\ mail'[x] = mail[x] \o s
    /\ s # <<>> => Forwards(p, x)
    /\ \A i \in DOMAIN s : Added(p, after, out, s[i], x)
    /\ Delivered(p, after, out, s, x)

LEMMA OthersMail ==
  ASSUME Base, NEW p \in Peers, NEW rd \in BOOLEAN, NEW after \in [Peers -> LinkType],
         NEW sigs \in [Peers -> Seq(Message)], NEW out \in [Peers -> Seq(Wire)],
         Turned(p, rd, after, sigs, out), NEW x \in Peers \ {p}
  PROVE  \E s \in Seq(Message) : SentTo(p, after, out, x, s)
<1>1. \E s \in Seq(Message) :
        /\ mail'[x] = Unread(p, rd)[x] \o s
        /\ Unread(p, rd)[x] \in Seq(Message)
        /\ s # <<>> => Forwards(p, x) /\ x # p
        /\ \A i \in DOMAIN s : Added(p, after, out, s[i], x)
        /\ Delivered(p, after, out, s, x)
  BY Sending
<1>2. rd => mail[p] # <<>>
  BY DEF Turned, Reads
<1>3. Unread(p, rd)[x] = mail[x]
  BY <1>2, UnreadType
<1>4. PICK s \in Seq(Message) :
        /\ mail'[x] = Unread(p, rd)[x] \o s
        /\ s # <<>> => Forwards(p, x)
        /\ \A i \in DOMAIN s : Added(p, after, out, s[i], x)
        /\ Delivered(p, after, out, s, x)
  BY <1>1, Zenon
<1> QED BY <1>3, <1>4 DEF SentTo

LEMMA SentNoLeave ==
  ASSUME NEW p, NEW after, NEW out, NEW x, NEW s, SentTo(p, after, out, x, s), NEW q
  PROVE  ~LeaveIn(s, q)
BY DEF SentTo, Added, LeaveIn, IsLeave

(* It reads that q asks or has left, and is open to q or not accordingly.   *)
OpenIs(p, rd, after, q) ==
    /\ rd => net[p] = "on" /\ mail[p] # <<>>
    /\ after[q].open <=> IF rd /\ Tells(Head(mail[p]), q) THEN Head(mail[p]).t # "leave"
                         ELSE link[p][q].open
    /\ after[q].open \in BOOLEAN /\ link[p][q].open \in BOOLEAN

LEMMA OpenNow ==
  ASSUME LinksOK, NEW p \in Peers, NEW rd \in BOOLEAN, NEW after \in [Peers -> LinkType],
         NEW sigs \in [Peers -> Seq(Message)], NEW out \in [Peers -> Seq(Wire)],
         Turned(p, rd, after, sigs, out), NEW q \in Peers \ {p}
  PROVE  OpenIs(p, rd, after, q)
<1>1. Tied(link[p][q]) /\ Tied(after[q]) /\ link[p][q] \in LinkType /\ after[q] \in LinkType
  BY DEF LinksOK, Turned, Shift
<1>2. Reads(p, rd, after)
  BY DEF Turned
<1>3. (after[q].open <=> after[q].known) /\ (link[p][q].open <=> link[p][q].known)
  BY <1>1 DEF Tied
<1>4. after[q].open \in BOOLEAN /\ link[p][q].open \in BOOLEAN
  BY <1>1 DEF LinkType
<1> QED BY <1>2, <1>3, <1>4 DEF Reads, OpenIs

(* One who will ask will still do so, unless it asks now.                   *)
LEMMA AsksStay ==
  ASSUME Base, NEW a \in Peers, NEW rd \in BOOLEAN, NEW after \in [Peers -> LinkType],
         NEW sigs \in [Peers -> Seq(Message)], NEW out \in [Peers -> Seq(Wire)],
         Turned(a, rd, after, sigs, out), NEW q \in Peers, NEW p \in Peers \ {q},
         ~(a = q /\ Opens(a, after, p)), Asks(q, p)
  PROVE  Asks(q, p)'
<1>1. LinksOK /\ mail[q] \in Seq(Message)
  BY DEF Base, SentOK
<1>2. link'[a] = after /\ \A r \in Peers \ {a} : link'[r] = link[r]
  BY <1>1, TurnedLinks
<1>3. CASE a = q
  <2>1. mail'[q] = IF rd THEN Tail(mail[q]) ELSE mail[q]
    BY <1>3, OwnMail
  <2>2. /\ rd => mail[q] # <<>>
        /\ after[p].open <=> IF rd /\ Tells(Head(mail[q]), p) THEN Head(mail[q]).t # "leave"
                             ELSE link[q][p].open
    <3>1. OpenIs(a, rd, after, p)
      BY <1>1, <1>3, OpenNow
    <3> QED BY <1>3, <3>1, Zenon DEF OpenIs
  <2>3. ~link[q][p].open => ~after[p].open
    BY <1>3 DEF Opens
  <2>4. CASE rd /\ LeaveIn(mail[q], p)
    <3>1. IsLeave(Head(mail[q]), p) \/ LeaveIn(Tail(mail[q]), p)
      BY <1>1, <2>2, <2>4, LeaveRest
    <3>2. IsLeave(Head(mail[q]), p) => ~after[p].open
      BY <2>2, <2>4 DEF IsLeave, Tells
    <3> QED BY <1>2, <1>3, <2>1, <2>4, <3>1, <3>2 DEF Asks
  <2> QED BY <1>2, <1>3, <2>1, <2>3, <2>4 DEF Asks
<1>4. CASE a # q
  <2>1. PICK s \in Seq(Message) : SentTo(a, after, out, q, s)
    BY <1>4, OthersMail
  <2>2. mail'[q] = mail[q] \o s
    BY <2>1 DEF SentTo
  <2>3. LeaveIn(mail[q], p) => LeaveIn(mail'[q], p)
    BY <1>1, <2>2, LeaveMore
  <2> QED BY <1>2, <1>4, <2>3 DEF Asks
<1> QED BY <1>3, <1>4

LEMMA TurnedGone ==
  ASSUME RoomInv, NEW a \in Peers, NEW rd \in BOOLEAN, NEW after \in [Peers -> LinkType],
         NEW sigs \in [Peers -> Seq(Message)], NEW out \in [Peers -> Seq(Wire)],
         Turned(a, rd, after, sigs, out), NEW p \in Peers, NEW q \in Peers, GoneBy(p, q)
  PROVE  GoneBy(p, q)'
<1>1. Base /\ LinksOK /\ mail[p] \in Seq(Message) /\ NetInv
  BY DEF RoomInv, LinkInv, Base, SentOK
<1>2. /\ link'[a] = after /\ \A r \in Peers \ {a} : link'[r] = link[r]
      /\ UNCHANGED <<net, room, trouble>>
  BY <1>1, TurnedLinks
<1> SUFFICES ASSUME p # q, net[p] = "on", q \notin room
             PROVE  Gone(mail'[p], q, link'[p][q].open)
  BY <1>2 DEF GoneBy
<1>3. PICK o : o = link[p][q].open
  OBVIOUS
<1>4. Gone(mail[p], q, o) /\ o \in BOOLEAN
  BY <1>1, <1>3 DEF GoneBy, LinksOK, LinkType
<1>5. CASE a = p
  <2>1. mail'[p] = IF rd THEN Tail(mail[p]) ELSE mail[p]
    BY <1>1, <1>5, OwnMail
  <2>2. PICK now : now = after[q].open
    OBVIOUS
  <2>3. /\ rd => mail[p] # <<>>
        /\ now <=> IF rd /\ Tells(Head(mail[p]), q) THEN Head(mail[p]).t # "leave" ELSE o
        /\ now \in BOOLEAN
    <3>1. OpenIs(a, rd, after, q)
      BY <1>1, <1>5, OpenNow
    <3> QED BY <1>3, <1>5, <2>2, <3>1, Zenon DEF OpenIs
  <2>4. CASE rd
    <3>1. IsLeave(Head(mail[p]), q) => ~now
      BY <2>3, <2>4 DEF IsLeave, Tells
    <3>2. ~Tells(Head(mail[p]), q) => (now <=> o)
      BY <2>3, Zenon
    <3>3. Gone(Tail(mail[p]), q, now)
      BY <1>1, <1>4, <2>3, <2>4, <3>1, <3>2, GoneRest
    <3> QED BY <1>2, <1>5, <2>1, <2>2, <2>4, <3>3
  <2>5. CASE ~rd
    <3>1. now <=> o
      BY <2>3, <2>5, Zenon
    <3>2. now = o
      BY <1>4, <2>3, <3>1
    <3> QED BY <1>2, <1>4, <1>5, <2>1, <2>2, <2>5, <3>2
  <2> QED BY <2>4, <2>5
<1>6. CASE a # p
  <2>1. PICK s \in Seq(Message) : SentTo(a, after, out, p, s)
    BY <1>1, <1>6, OthersMail
  <2>2. mail'[p] = mail[p] \o s
    BY <2>1 DEF SentTo
  <2>3. \A i \in DOMAIN s : ~Tells(s[i], q)
    <3> SUFFICES ASSUME NEW i \in DOMAIN s PROVE ~Tells(s[i], q)
      OBVIOUS
    <3>1. s # <<>>
      BY EmptySeq
    <3>2. a \in room
      BY <1>1, <2>1, <3>1 DEF SentTo, Forwards, NetInv
    <3>3. s[i].from = a /\ s[i].t # "joined"
      BY <2>1 DEF SentTo, Added
    <3> QED BY <3>2, <3>3 DEF Tells
  <2>4. Gone(mail[p] \o s, q, o)
    BY <1>1, <1>4, <2>3, GoneMore
  <2> QED BY <1>2, <1>3, <1>6, <2>2, <2>4
<1> QED BY <1>5, <1>6

LEMMA TurnedFresh ==
  ASSUME RoomInv, NEW a \in Peers, NEW rd \in BOOLEAN, NEW after \in [Peers -> LinkType],
         NEW sigs \in [Peers -> Seq(Message)], NEW out \in [Peers -> Seq(Wire)],
         Turned(a, rd, after, sigs, out), NEW p \in Peers, NEW q \in Peers, FreshBy(p, q)
  PROVE  FreshBy(p, q)'
<1>1. Base /\ LinksOK /\ mail[p] \in Seq(Message) /\ NetInv
  BY DEF RoomInv, LinkInv, Base, SentOK
<1>2. /\ link'[a] = after /\ \A r \in Peers \ {a} : link'[r] = link[r]
      /\ UNCHANGED <<net, room, trouble>>
  BY <1>1, TurnedLinks
<1> SUFFICES ASSUME Both(p, q)
             PROVE  Asks(q, p)' \/ Fresh(mail'[p], q, link'[p][q].open)
  BY <1>2 DEF FreshBy, Both
<1>3. p # q /\ net[p] = "on" /\ net[q] = "on" /\ p \in room
  BY <1>1 DEF Both, NetInv
<1>4. PICK o : o = link[p][q].open
  OBVIOUS
<1>5. (Asks(q, p) \/ Fresh(mail[p], q, o)) /\ o \in BOOLEAN
  BY <1>1, <1>4 DEF FreshBy, LinksOK, LinkType
<1>6. ASSUME a # p
      PROVE  \E s \in Seq(Message) : SentTo(a, after, out, p, s) /\ ~LeaveIn(s, q)
  <2>1. PICK s \in Seq(Message) : SentTo(a, after, out, p, s)
    BY <1>1, <1>6, OthersMail
  <2> QED BY <2>1, SentNoLeave
<1>7. CASE a = q /\ Opens(a, after, p)
  <2>1. PICK s \in Seq(Message) : SentTo(a, after, out, p, s) /\ ~LeaveIn(s, q)
    BY <1>3, <1>6, <1>7
  <2>2. mail'[p] = mail[p] \o s /\ Delivered(a, after, out, s, p)
    BY <2>1 DEF SentTo
  <2>3. Relayable(a, after, p)
    <3>1. Shift(a, p, link[a][p], after[p]) /\ Tied(link[a][p])
      BY <1>1 DEF Turned, LinksOK
    <3>2. after[p].open /\ after[p].stage # "open"
      BY <1>7, <3>1 DEF Opens, Shift, Tied
    <3> QED BY <1>3, <1>7, <3>2 DEF Relayable, Forwards
  <2>4. PICK i \in DOMAIN s : s[i] = WireMsg(a, AsksFor(a))
    BY <1>7, <2>2, <2>3 DEF Delivered
  <2>5. IsAsk(s[i], q)
    BY <1>7, <2>4 DEF IsAsk, WireMsg, AsksFor
  <2>6. Fresh(mail[p] \o s, q, o)
    BY <1>1, <1>5, <2>1, <2>5, FreshMore
  <2> QED BY <1>2, <1>3, <1>4, <1>7, <2>2, <2>6
<1>8. CASE ~(a = q /\ Opens(a, after, p)) /\ Asks(q, p)
  BY <1>1, <1>3, <1>8, AsksStay
<1>9. CASE a = p /\ Fresh(mail[p], q, o)
  <2>1. mail'[p] = IF rd THEN Tail(mail[p]) ELSE mail[p]
    BY <1>1, <1>9, OwnMail
  <2>2. PICK now : now = after[q].open
    OBVIOUS
  <2>3. /\ rd => mail[p] # <<>>
        /\ now <=> IF rd /\ Tells(Head(mail[p]), q) THEN Head(mail[p]).t # "leave" ELSE o
        /\ now \in BOOLEAN
    <3>1. OpenIs(a, rd, after, q)
      BY <1>1, <1>3, <1>9, OpenNow
    <3> QED BY <1>4, <1>9, <2>2, <3>1, Zenon DEF OpenIs
  <2>4. CASE rd
    <3>1. IsAsk(Head(mail[p]), q) => now
      BY <2>3, <2>4 DEF IsAsk, Tells
    <3>2. o /\ ~IsLeave(Head(mail[p]), q) => now
      BY <2>3, <2>4 DEF IsLeave, Tells
    <3>3. Fresh(Tail(mail[p]), q, now)
      BY <1>1, <1>5, <1>9, <2>3, <2>4, <3>1, <3>2, FreshRest
    <3> QED BY <1>2, <1>9, <2>1, <2>2, <2>4, <3>3
  <2>5. CASE ~rd
    <3>1. now <=> o
      BY <2>3, <2>5, Zenon
    <3>2. now = o
      BY <1>5, <2>3, <3>1
    <3> QED BY <1>2, <1>9, <2>1, <2>2, <2>5, <3>2
  <2> QED BY <2>4, <2>5
<1>10. CASE a # p /\ Fresh(mail[p], q, o)
  <2>1. PICK s \in Seq(Message) : SentTo(a, after, out, p, s) /\ ~LeaveIn(s, q)
    BY <1>6, <1>10
  <2>2. mail'[p] = mail[p] \o s
    BY <2>1 DEF SentTo
  <2>3. Fresh(mail[p] \o s, q, o)
    BY <1>1, <1>5, <1>10, <2>1, FreshMore
  <2> QED BY <1>2, <1>4, <1>10, <2>2, <2>3
<1> QED BY <1>5, <1>7, <1>8, <1>9, <1>10

(* News of a leaves as it is what a client will do about another.           *)
LEMMA NewsLeaves ==
  ASSUME NEW a \in Peers, NEW q \in Peers \ {a}, NEW b \in Seq(Message), NEW s \in Seq(Message),
         News(a, s), NEW o \in BOOLEAN
  PROVE  /\ Gone(b, q, o) => Gone(b \o s, q, o)
         /\ Fresh(b, q, o) => Fresh(b \o s, q, o)
<1>1. \A i \in DOMAIN s : ~Tells(s[i], q)
  BY DEF News, Tells
<1>2. ~LeaveIn(s, q)
  BY DEF News, LeaveIn, IsLeave
<1> QED BY <1>1, <1>2, GoneMore, FreshMore

(* A client that joins anew will ask the others and be asked by them.       *)
LEMMA ConnectAsks ==
  ASSUME CallInv, NEW a \in Peers, Connect(a), NEW p \in Peers, NEW q \in Peers,
         a = p \/ a = q, Both(p, q)'
  PROVE  Asks(q, p)'
<1>1. /\ LinkInv /\ LinksOK /\ NetInv /\ mail[q] \in Seq(Message) /\ GoneBy(q, p)
      /\ net \in [Peers -> {"connecting", "on", "off"}]
  BY DEF CallInv, RoomInv, LinkInv, Base, SentOK, RestOK
<1>2. net[a] = "connecting" /\ net' = [net EXCEPT ![a] = "on"] /\ link' = link
  BY DEF Connect
<1>3. CASE a = q
  <2>1. ~link[q][p].open
    BY <1>1, <1>2, <1>3 DEF NetInv, LinksOK, Tied
  <2> QED BY <1>2, <2>1 DEF Asks
<1>4. CASE a = p
  <2>1. q # p /\ net[q] = "on" /\ q \in room
    BY <1>1, <1>2, <1>4 DEF Both, NetInv
  <2>2. Told(p, p \in room, mail[q], mail'[q])
    BY <1>1, <1>4, <2>1, ConnectTells
  <2>3. PICK s \in Seq(Message) : mail'[q] = mail[q] \o s /\ Joins(p, p \in room, s)
    BY <2>2 DEF Told
  <2>4. LeaveIn(mail'[q], p) <=> LeaveIn(mail[q], p) \/ LeaveIn(s, p)
    BY <1>1, <2>3, LeaveMore
  <2>5. CASE p \in room
    BY <2>3, <2>4, <2>5 DEF Joins, Asks
  <2>6. CASE p \notin room
    <3>1. Gone(mail[q], p, link[q][p].open)
      BY <1>1, <2>1, <2>6 DEF GoneBy
    <3>2. LeaveIn(mail[q], p) \/ ~link[q][p].open
      BY <3>1 DEF Gone, LeaveIn
    <3> QED BY <1>2, <2>4, <3>2 DEF Asks
  <2> QED BY <2>5, <2>6
<1> QED BY <1>3, <1>4

LEMMA ConnectCalls ==
  ASSUME CallInv, NEW a \in Peers, Connect(a), NEW p \in Peers, NEW q \in Peers
  PROVE  GoneBy(p, q)' /\ FreshBy(p, q)'
<1>1. /\ LinkInv /\ LinksOK /\ NetInv /\ mail[p] \in Seq(Message) /\ mail[q] \in Seq(Message)
      /\ net \in [Peers -> {"connecting", "on", "off"}] /\ GoneBy(p, q) /\ FreshBy(p, q)
      /\ room \subseteq Peers
  BY DEF CallInv, RoomInv, LinkInv, Base, SentOK, RestOK
<1>2. /\ net[a] = "connecting" /\ net' = [net EXCEPT ![a] = "on"] /\ link' = link
      /\ room' = room \cup {a}
  BY DEF Connect
<1>3. ASSUME NEW x \in Peers \ {a}, net[x] = "on"
      PROVE  Told(a, a \in room, mail[x], mail'[x])
  <2>1. x \in room
    BY <1>1, <1>3 DEF NetInv
  <2> QED BY <1>1, <1>3, <2>1, ConnectTells
<1>4. PICK o : o = link[p][q].open
  OBVIOUS
<1>5. o \in BOOLEAN
  BY <1>1, <1>4 DEF LinksOK, LinkType
<1>6. ASSUME p # q, net'[p] = "on", q \notin room'
      PROVE  Gone(mail'[p], q, o)
  <2>1. q # a /\ q \notin room
    BY <1>2, <1>6
  <2>2. CASE p = a
    <3> DEFINE m == [t |-> "joined", from |-> a, body |-> room \ {a}]
    <3>1. m \in Message /\ m.t = "joined" /\ m.body = room \ {a}
      BY <1>1, MessagesMade
    <3>2. mail'[p] = <<m>>
      BY <1>1, <2>2, ConnectTells
    <3> HIDE DEF m
    <3>3. PICK c : c = mail'[p]
      OBVIOUS
    <3>4. DOMAIN c = {1} /\ c[1] = m
      BY <3>1, <3>2, <3>3, OneMessage
    <3>5. ~Tells(c[1], q)
      BY <2>1, <3>1, <3>4 DEF Tells
    <3>6. ~o
      BY <1>1, <1>2, <1>4, <2>2 DEF NetInv, LinksOK, Tied
    <3>7. Gone(c, q, o)
      BY <3>4, <3>5, <3>6 DEF Gone
    <3> QED BY <3>3, <3>7
  <2>3. CASE p # a
    <3>1. net[p] = "on"
      BY <1>1, <1>2, <1>6, <2>3
    <3>2. PICK s \in Seq(Message) : mail'[p] = mail[p] \o s /\ News(a, s)
      BY <1>3, <2>3, <3>1 DEF Told
    <3>3. Gone(mail[p], q, o)
      BY <1>1, <1>4, <1>6, <2>1, <3>1 DEF GoneBy
    <3> QED BY <1>1, <1>5, <2>1, <3>2, <3>3, NewsLeaves
  <2> QED BY <2>2, <2>3
<1>7. ASSUME Both(p, q)'
      PROVE  Asks(q, p)' \/ Fresh(mail'[p], q, o)
  <2>1. CASE a = p \/ a = q
    BY <1>7, <2>1, ConnectAsks
  <2>2. CASE a # p /\ a # q
    <3>1. p # q /\ net[p] = "on" /\ net[q] = "on" /\ Both(p, q)
      BY <1>1, <1>2, <1>7, <2>2 DEF Both
    <3>2. PICK s \in Seq(Message) : mail'[p] = mail[p] \o s /\ News(a, s)
      BY <1>3, <2>2, <3>1 DEF Told
    <3>3. PICK x \in Seq(Message) : mail'[q] = mail[q] \o x
      BY <1>3, <2>2, <3>1 DEF Told
    <3>4. LeaveIn(mail[q], p) => LeaveIn(mail'[q], p)
      BY <1>1, <3>3, LeaveMore
    <3>5. Asks(q, p) => Asks(q, p)'
      BY <1>2, <3>4 DEF Asks
    <3>6. Fresh(mail[p], q, o) => Fresh(mail'[p], q, o)
      BY <1>1, <1>5, <2>2, <3>2, NewsLeaves
    <3> QED BY <1>1, <1>4, <3>1, <3>5, <3>6 DEF FreshBy
  <2> QED BY <2>1, <2>2
<1> QED BY <1>2, <1>4, <1>6, <1>7 DEF GoneBy, FreshBy

LEMMA HubNoticesCalls ==
  ASSUME CallInv, NEW a \in Peers, HubNotices(a), NEW p \in Peers, NEW q \in Peers
  PROVE  GoneBy(p, q)' /\ FreshBy(p, q)'
<1>1. /\ LinkInv /\ LinksOK /\ NetInv /\ mail[p] \in Seq(Message) /\ mail[q] \in Seq(Message)
      /\ GoneBy(p, q) /\ FreshBy(p, q)
  BY DEF CallInv, RoomInv, LinkInv, Base, SentOK
<1>2. a \in room /\ net[a] # "on" /\ net' = net /\ link' = link /\ room' = room \ {a}
  BY DEF HubNotices
<1>3. ASSUME NEW x \in Peers, net[x] = "on"
      PROVE  \E s \in Seq(Message) :
               /\ mail'[x] = mail[x] \o s /\ News(a, s)
               /\ \A i \in DOMAIN s : s[i].t = "leave"
               /\ LeaveIn(s, a)
  <2>1. x \in room \ {a}
    BY <1>1, <1>2, <1>3 DEF NetInv
  <2> QED BY <1>1, <1>3, <2>1, HubNoticesTells
<1>4. PICK o : o = link[p][q].open
  OBVIOUS
<1>5. o \in BOOLEAN
  BY <1>1, <1>4 DEF LinksOK, LinkType
<1>6. ASSUME p # q, net[p] = "on", q \notin room'
      PROVE  Gone(mail'[p], q, o)
  <2>1. PICK s \in Seq(Message) : /\ mail'[p] = mail[p] \o s /\ News(a, s)
                                  /\ \A i \in DOMAIN s : s[i].t = "leave"
                                  /\ LeaveIn(s, a)
    BY <1>3, <1>6
  <2>2. CASE q = a
    <3>1. \A i \in DOMAIN s : IsLeave(s[i], q)
      BY <2>1, <2>2 DEF News, IsLeave
    <3> QED BY <1>1, <1>5, <2>1, <2>2, <3>1, GoneNews
  <2>3. CASE q # a
    <3>1. Gone(mail[p], q, o)
      BY <1>1, <1>2, <1>4, <1>6, <2>3 DEF GoneBy
    <3> QED BY <1>1, <1>5, <2>1, <2>3, <3>1, NewsLeaves
  <2> QED BY <2>2, <2>3
<1>7. ASSUME Both(p, q)
      PROVE  Asks(q, p)' \/ Fresh(mail'[p], q, o)
  <2>1. net[p] = "on" /\ net[q] = "on" /\ p # a /\ q # a
    BY <1>2, <1>7 DEF Both
  <2>2. PICK s \in Seq(Message) : mail'[p] = mail[p] \o s /\ News(a, s)
    BY <1>3, <2>1
  <2>3. PICK x \in Seq(Message) : mail'[q] = mail[q] \o x
    BY <1>3, <2>1
  <2>4. LeaveIn(mail[q], p) => LeaveIn(mail'[q], p)
    BY <1>1, <2>3, LeaveMore
  <2>5. Asks(q, p) => Asks(q, p)'
    BY <1>2, <2>4 DEF Asks
  <2>6. Fresh(mail[p], q, o) => Fresh(mail'[p], q, o)
    BY <1>1, <1>5, <2>1, <2>2, NewsLeaves
  <2> QED BY <1>1, <1>4, <1>7, <2>5, <2>6 DEF FreshBy
<1> QED BY <1>2, <1>4, <1>6, <1>7 DEF GoneBy, FreshBy, Both

LEMMA SocketCalls ==
  ASSUME CallInv, NEW a \in Peers, SocketLost(a) \/ Leave(a), NEW p \in Peers, NEW q \in Peers
  PROVE  GoneBy(p, q)' /\ FreshBy(p, q)'
<1>1. /\ LinksOK /\ mail \in [Peers -> Seq(Message)] /\ link \in [Peers -> [Peers -> LinkType]]
      /\ net \in [Peers -> {"connecting", "on", "off"}] /\ GoneBy(p, q) /\ FreshBy(p, q)
  BY DEF CallInv, RoomInv, LinkInv, Base, SentOK, RestOK, LinksOK
<1>2. /\ net' = [net EXCEPT ![a] = "connecting"] \/ net' = [net EXCEPT ![a] = "off"]
      /\ mail' = [mail EXCEPT ![a] = <<>>] /\ room' = room
      /\ link' = [link EXCEPT ![a] = [r \in Peers |-> NoLink]] \/ UNCHANGED link
  BY DEF SocketLost, Leave, Disconnect
<1>3. /\ net'[a] # "on"
      /\ \A x \in Peers \ {a} : net'[x] = net[x] /\ mail'[x] = mail[x] /\ link'[x] = link[x]
  BY <1>1, <1>2
<1>4. GoneBy(p, q)'
  BY <1>1, <1>2, <1>3 DEF GoneBy
<1>5. FreshBy(p, q)'
  BY <1>1, <1>3 DEF FreshBy, Both, Asks
<1> QED BY <1>4, <1>5

LEMMA SameCalls ==
  ASSUME CallInv, UNCHANGED <<net, room, mail, link>>, NEW p \in Peers, NEW q \in Peers
  PROVE  GoneBy(p, q)' /\ FreshBy(p, q)'
BY DEF CallInv, GoneBy, FreshBy, Both, Asks

LEMMA CallInit ==
  Init => CallInv
<1> SUFFICES ASSUME Init PROVE CallInv
  OBVIOUS
<1>1. \A p \in Peers : net[p] # "on"
  BY DEF Init
<1>2. \A p, q \in Peers : GoneBy(p, q) /\ FreshBy(p, q)
  BY <1>1 DEF GoneBy, FreshBy, Both
<1> QED BY <1>2, RoomInit DEF CallInv

LEMMA CallStep ==
  CallInv /\ [Next]_vars => CallInv'
<1> SUFFICES ASSUME CallInv, [Next]_vars PROVE CallInv'
  OBVIOUS
<1>1. RoomInv /\ RoomInv' /\ LinkInv
  BY RoomStep DEF CallInv, RoomInv
<1>2. ASSUME NEW p \in Peers, NEW q \in Peers
      PROVE  GoneBy(p, q)' /\ FreshBy(p, q)'
  <2>1. CASE Next
    <3>1. PICK a \in Peers : Turning(a) \/ Other(a)
      BY <1>1, <2>1, StepKinds
    <3>2. CASE Turning(a)
      <4>1. PICK rd \in BOOLEAN, after \in [Peers -> LinkType],
                 sigs \in [Peers -> Seq(Message)], out \in [Peers -> Seq(Wire)] :
                   Turned(a, rd, after, sigs, out)
        BY <3>2 DEF Turning
      <4>2. GoneBy(p, q) /\ FreshBy(p, q)
        BY DEF CallInv
      <4> QED BY <1>1, <4>1, <4>2, TurnedGone, TurnedFresh
    <3>3. CASE SocketLost(a) \/ Leave(a)
      BY <3>3, SocketCalls
    <3>4. CASE Connect(a)
      BY <3>4, ConnectCalls
    <3>5. CASE HubNotices(a)
      BY <3>5, HubNoticesCalls
    <3>6. ASSUME NEW b \in Peers \ {a},
                 ReceiveOverChannel(a, b) \/ ChannelConnects(a, b) \/ ChannelFails(a, b)
          PROVE  GoneBy(p, q)' /\ FreshBy(p, q)'
      <4>1. UNCHANGED <<net, room, mail, link>>
        BY <3>6 DEF ReceiveOverChannel, ChannelConnects, ChannelFails
      <4> QED BY <4>1, SameCalls
    <3> QED BY <3>1, <3>2, <3>3, <3>4, <3>5, <3>6 DEF Other
  <2>2. CASE UNCHANGED vars
    BY <2>2, SameCalls DEF vars
  <2> QED BY <2>1, <2>2
<1> QED BY <1>1, <1>2 DEF CallInv

-----------------------------------------------------------------------------
(* The edits.  A wire that brings an edit, one that asks for it, and both   *)
(* on the way, through the hub or over the channel.                         *)
Brings(w, e) == w.kind # "step1" /\ e \in w.edits
Lacks(w, e) == w.kind = "step1" /\ e \notin w.edits

Mailed(p, q, w) == \E i \in DOMAIN mail[q] :
                     mail[q][i].t = "wire" /\ mail[q][i].from = p /\ mail[q][i].body = w
Piping(p, q, w) == \E i \in DOMAIN pipe[p][q] : pipe[p][q][i] = w
Under(p, q, w) == Mailed(p, q, w) \/ Piping(p, q, w)

OnWay(p, q, e) == \E w \in Wire : \/ Under(p, q, w) /\ Brings(w, e)
                                  \/ Under(q, p, w) /\ Lacks(w, e)

(* What p has edited q has, or will have, unless a channel has died with it. *)
Reaches(p, q, e) == e \in has[q] \/ OnWay(p, q, e) \/ Asks(q, p)

WayOf(p, q) ==
    Both(p, q) /\ <<p, q>> \notin gaps => \A e \in has[p] : e[1] = p => Reaches(p, q, e)

WayInv == CallInv /\ ChanInv /\ \A p, q \in Peers : WayOf(p, q)

(* What becomes of the gaps.                                                *)
Filled(a, after, g) == \E z \in Peers : g = <<z, a>> /\ Opens(a, after, z)

LEMMA GapsKept ==
  ASSUME NEW a \in Peers, NEW rd \in BOOLEAN, NEW after \in [Peers -> LinkType],
         NEW sigs \in [Peers -> Seq(Message)], NEW out \in [Peers -> Seq(Wire)],
         Turned(a, rd, after, sigs, out), NEW g
  PROVE  /\ g \in gaps => g \in gaps' \/ Filled(a, after, g)
         /\ \A z \in Peers : Torn(a, after, z) /\ g \in Lost(a, z, pipe[a][z]) \cup Lost(z, a, pipe[z][a])
              => g \in gaps' \/ Filled(a, after, g)
         /\ \A z \in Peers : /\ after[z].stage = "open" /\ after[z].chan \notin up
                             /\ g \in Lost(a, z, Wires(a, after, out, z))
              => g \in gaps'
<1> DEFINE opens == {q \in Peers : after[q].open /\ ~link[a][q].open}
           torn  == {q \in Peers : link[a][q].chan # NoChan /\ after[q].chan # link[a][q].chan}
           over  == {q \in Peers : after[q].stage = "open"}
           wires == [q \in Peers |-> (IF q \in opens THEN <<AsksFor(a)>> ELSE <<>>) \o out[q]]
           lost  == UNION {Lost(a, q, pipe[a][q]) \cup Lost(q, a, pipe[q][a]) : q \in torn}
           deaf  == {r \in over : after[r].chan \notin up}
           cast  == UNION {Lost(a, q, wires[q]) : q \in deaf}
           asked == {<<q, a>> : q \in opens}
<1>1. gaps' = ((gaps \cup lost) \ asked) \cup cast
  BY Zenon DEF Turned, Becomes
<1>2. g \in asked => Filled(a, after, g)
  BY DEF Filled, Opens
<1>3. ASSUME NEW z \in Peers, Torn(a, after, z), g \in Lost(a, z, pipe[a][z]) \cup Lost(z, a, pipe[z][a])
      PROVE  g \in lost
  <2>1. z \in torn
    BY <1>3 DEF Torn
  <2> HIDE DEF torn
  <2> QED BY <1>3, <2>1
<1>4. ASSUME NEW z \in Peers, after[z].stage = "open", after[z].chan \notin up,
             g \in Lost(a, z, Wires(a, after, out, z))
      PROVE  g \in cast
  <2>1. z \in deaf
    BY <1>4
  <2>2. wires[z] = Wires(a, after, out, z)
    BY DEF Wires, Opens
  <2> HIDE DEF deaf, wires
  <2> QED BY <1>4, <2>1, <2>2
<1> HIDE DEF lost, asked, cast
<1> QED BY <1>1, <1>2, <1>3, <1>4

LEMMA LostOf ==
  ASSUME NEW x, NEW y, NEW ws, NEW i \in DOMAIN ws, NEW w, ws[i] = w
  PROVE  Gap(x, y, w) \in Lost(x, y, ws)
BY DEF Lost

(* A wire that is under way stays so, is read, or leaves a gap.             *)
Taken(a, rd, x, y, w) == a = y /\ rd /\ mail[y] # <<>> /\ Head(mail[y]).t = "wire"
                         /\ Head(mail[y]).from = x /\ Head(mail[y]).body = w

Fate(a, rd, after, x, y, w) ==
    \/ Under(x, y, w)'
    \/ Taken(a, rd, x, y, w)
    \/ Gap(x, y, w) \in gaps' \/ Filled(a, after, Gap(x, y, w))

LEMMA UnderStays ==
  ASSUME Base, NEW a \in Peers, NEW rd \in BOOLEAN, NEW after \in [Peers -> LinkType],
         NEW sigs \in [Peers -> Seq(Message)], NEW out \in [Peers -> Seq(Wire)],
         Turned(a, rd, after, sigs, out), NEW x \in Peers, NEW y \in Peers, NEW w, Under(x, y, w)
  PROVE  Fate(a, rd, after, x, y, w)
<1>1. /\ SentOK /\ HasOK /\ mail[y] \in Seq(Message) /\ pipe[x][y] \in Seq(Wire)
      /\ rd => mail[a] # <<>>
  BY DEF Base, SentOK, Turned, Reads
<1>2. ASSUME Mailed(x, y, w), a # y
      PROVE  Mailed(x, y, w)'
  <2>1. PICK s \in Seq(Message) : SentTo(a, after, out, y, s)
    BY <1>2, OthersMail
  <2>2. PICK c : c = mail'[y]
    OBVIOUS
  <2>3. c = mail[y] \o s
    BY <2>1, <2>2 DEF SentTo
  <2>4. \A i \in DOMAIN mail[y] : i \in DOMAIN c /\ c[i] = mail[y][i]
    BY <1>1, <2>3, Positions
  <2> QED BY <1>2, <2>2, <2>4 DEF Mailed
<1>3. ASSUME Mailed(x, y, w), a = y
      PROVE  Mailed(x, y, w)' \/ Taken(a, rd, x, y, w)
  <2>1. mail'[y] = IF rd THEN Tail(mail[y]) ELSE mail[y]
    BY <1>3, OwnMail
  <2>2. CASE rd
    <3>1. mail[y] # <<>>
      BY <1>1, <1>3, <2>2
    <3>2. /\ Head(mail[y]) = mail[y][1]
          /\ \A i \in DOMAIN mail[y] : i = 1 \/ (i - 1 \in DOMAIN Tail(mail[y]) /\ Tail(mail[y])[i - 1] = mail[y][i])
      BY <1>1, <3>1, Rest
    <3>3. PICK i \in DOMAIN mail[y] :
            mail[y][i].t = "wire" /\ mail[y][i].from = x /\ mail[y][i].body = w
      BY <1>3 DEF Mailed
    <3>4. CASE i = 1
      BY <1>3, <2>2, <3>1, <3>2, <3>3, <3>4 DEF Taken
    <3>5. CASE i # 1
      <4>1. PICK j : j = i - 1
        OBVIOUS
      <4>2. mail'[y] = Tail(mail[y])
        BY <2>1, <2>2
      <4>3. j \in DOMAIN mail'[y] /\ mail'[y][j] = mail[y][i]
        BY <3>2, <3>5, <4>1, <4>2
      <4> QED BY <3>3, <4>3 DEF Mailed
    <3> QED BY <3>4, <3>5
  <2>3. CASE ~rd
    BY <1>3, <2>1, <2>3 DEF Mailed
  <2> QED BY <2>2, <2>3
<1>4. ASSUME Piping(x, y, w)
      PROVE  Piping(x, y, w)' \/ Gap(x, y, w) \in gaps' \/ Filled(a, after, Gap(x, y, w))
  <2>1. Piped(a, after, out, x, y)
    BY <1>1, TurnedPipe
  <2>2. PICK i \in DOMAIN pipe[x][y] : pipe[x][y][i] = w
    BY <1>4 DEF Piping
  <2>3. CASE TornPipe(a, after, x, y)
    <3>1. Gap(x, y, w) \in Lost(x, y, pipe[x][y])
      BY <2>2, LostOf
    <3>2. PICK g : g = Gap(x, y, w)
      OBVIOUS
    <3>3. CASE x = a /\ Torn(a, after, y)
      <4>1. g \in Lost(a, y, pipe[a][y]) \cup Lost(y, a, pipe[y][a])
        BY <3>1, <3>2, <3>3
      <4> QED BY <3>2, <3>3, <4>1, GapsKept
    <3>4. CASE y = a /\ Torn(a, after, x)
      <4>1. g \in Lost(a, x, pipe[a][x]) \cup Lost(x, a, pipe[x][a])
        BY <3>1, <3>2, <3>4
      <4> QED BY <3>2, <3>4, <4>1, GapsKept
    <3> QED BY <2>3, <3>3, <3>4 DEF TornPipe
  <2>4. CASE ~TornPipe(a, after, x, y) /\ x = a /\ OpenPipe(a, after, y)
    <3>1. PICK ws : ws = Wires(a, after, out, y)
      OBVIOUS
    <3>2. ws \in Seq(Wire)
      BY <1>1, <3>1, WiresMade
    <3>3. PICK b \in Seq(Wire) : b = pipe[x][y]
      BY <1>1
    <3>4. PICK c : c = pipe'[x][y]
      OBVIOUS
    <3>5. c = b \o ws
      BY <2>1, <2>4, <3>1, <3>3, <3>4 DEF Piped
    <3>6. \A j \in DOMAIN b : j \in DOMAIN c /\ c[j] = b[j]
      BY <3>2, <3>5, Positions
    <3> QED BY <2>2, <3>3, <3>4, <3>6 DEF Piping
  <2>5. CASE ~TornPipe(a, after, x, y) /\ ~(x = a /\ OpenPipe(a, after, y))
    <3>1. pipe'[x][y] = pipe[x][y]
      BY <2>1, <2>5 DEF Piped
    <3> QED BY <1>4, <3>1 DEF Piping
  <2> QED BY <2>3, <2>4, <2>5
<1> QED BY <1>2, <1>3, <1>4 DEF Under, Fate

(* What a client says to another that it is open to gets under way, unless  *)
(* the channel it says it over has died.                                    *)
LEMMA SaysIt ==
  ASSUME RoomInv, NEW a \in Peers, NEW rd \in BOOLEAN, NEW after \in [Peers -> LinkType],
         NEW sigs \in [Peers -> Seq(Message)], NEW out \in [Peers -> Seq(Wire)],
         Turned(a, rd, after, sigs, out), NEW z \in Peers, Both(a, z), after[z].open,
         NEW w, Said(a, after, out, z, w)
  PROVE  Under(a, z, w)' \/ Gap(a, z, w) \in gaps'
<1>1. /\ Base /\ LinksOK /\ NetInv /\ SentOK /\ HasOK /\ mail[z] \in Seq(Message)
      /\ pipe[a][z] \in Seq(Wire)
  BY DEF RoomInv, LinkInv, Base, SentOK
<1>2. a # z /\ Forwards(a, z)
  BY <1>1 DEF Both, NetInv, Forwards
<1>3. CASE after[z].stage # "open"
  <2>1. PICK s \in Seq(Message) : SentTo(a, after, out, z, s)
    BY <1>1, <1>2, OthersMail
  <2>2. Relayable(a, after, z)
    BY <1>2, <1>3 DEF Relayable
  <2>3. PICK i \in DOMAIN s : s[i] = WireMsg(a, w)
    BY <2>1, <2>2 DEF SentTo, Delivered, Said
  <2>4. PICK c : c = mail'[z]
    OBVIOUS
  <2>5. PICK b \in Seq(Message) : b = mail[z]
    BY <1>1
  <2>6. c = b \o s
    BY <2>1, <2>4, <2>5 DEF SentTo
  <2>7. \A k \in DOMAIN s : Len(b) + k \in DOMAIN c /\ c[Len(b) + k] = s[k]
    BY <2>6, Positions
  <2>8. PICK j : j = Len(b) + i
    OBVIOUS
  <2>9. j \in DOMAIN c /\ c[j] = WireMsg(a, w)
    BY <2>3, <2>7, <2>8
  <2>10. c[j].t = "wire" /\ c[j].from = a /\ c[j].body = w
    BY <2>9 DEF WireMsg
  <2> QED BY <2>4, <2>9, <2>10 DEF Under, Mailed
<1>4. CASE after[z].stage = "open"
  <2>1. PICK ws : ws = Wires(a, after, out, z)
    OBVIOUS
  <2>2. ws \in Seq(Wire) /\ Carry(a, after, out, z, ws)
    BY <1>1, <2>1, WiresMade
  <2>3. PICK i \in DOMAIN ws : ws[i] = w
    BY <2>2 DEF Carry, Said
  <2>4. CASE after[z].chan \in up
    <3>1. Piped(a, after, out, a, z)
      BY <1>1, TurnedPipe
    <3>2. ~TornPipe(a, after, a, z)
      <4>1. Shift(a, z, link[a][z], after[z])
        BY DEF Turned
      <4> QED BY <1>2, <1>4, <4>1 DEF TornPipe, Torn, Shift
    <3>3. PICK b \in Seq(Wire) : b = pipe[a][z]
      BY <1>1
    <3>4. PICK c : c = pipe'[a][z]
      OBVIOUS
    <3>5. c = b \o ws
      BY <1>4, <2>1, <2>4, <3>1, <3>2, <3>3, <3>4 DEF Piped, OpenPipe
    <3>6. \A k \in DOMAIN ws : Len(b) + k \in DOMAIN c /\ c[Len(b) + k] = ws[k]
      BY <2>2, <3>5, Positions
    <3>7. Piping(a, z, w)'
      BY <2>3, <3>4, <3>6 DEF Piping
    <3> QED BY <3>7 DEF Under
  <2>5. CASE after[z].chan \notin up
    <3>1. Gap(a, z, w) \in Lost(a, z, ws)
      BY <2>3, LostOf
    <3>2. PICK g : g = Gap(a, z, w)
      OBVIOUS
    <3> QED BY <1>4, <2>1, <2>5, <3>1, <3>2, GapsKept
  <2> QED BY <2>4, <2>5
<1> QED BY <1>3, <1>4

(* A step of that kind keeps every edit on its way.                         *)
LEMMA TurnedReaches ==
  ASSUME LinkInv, CallInv, NEW a \in Peers, NEW rd \in BOOLEAN, NEW after \in [Peers -> LinkType],
         NEW sigs \in [Peers -> Seq(Message)], NEW out \in [Peers -> Seq(Wire)],
         Turned(a, rd, after, sigs, out), Docs(a, rd, after, out),
         NEW p \in Peers, NEW q \in Peers, Both(p, q), <<p, q>> \notin gaps',
         ~(a = q /\ Opens(a, after, p)), NEW e \in has[p], e[1] = p, Reaches(p, q, e)
  PROVE  Reaches(p, q, e)'
<1>1. /\ Base /\ RoomInv /\ HasOK /\ SentOK /\ p # q /\ p \in Peers \ {q} /\ q \in Peers \ {p}
      /\ has[a] \subseteq has'[a] /\ \A x \in Peers \ {a} : has'[x] = has[x]
  BY DEF CallInv, LinkInv, Base, Both, Docs
<1>2. has[q] \subseteq has'[q]
  BY <1>1
<1>3. ~Filled(a, after, <<p, q>>)
  BY DEF Filled
<1>4. CASE Asks(q, p)
  BY <1>1, <1>4, AsksStay DEF Reaches
<1>5. ASSUME NEW w \in Wire, Under(p, q, w), Brings(w, e)
      PROVE  Reaches(p, q, e)'
  <2>1. Gap(p, q, w) = <<p, q>>
    BY <1>5 DEF Gap, Brings
  <2>2. Under(p, q, w)' \/ Taken(a, rd, p, q, w)
    <3>1. Fate(a, rd, after, p, q, w)
      BY <1>1, <1>5, UnderStays
    <3> QED BY <1>3, <2>1, <3>1 DEF Fate
  <2>3. CASE Under(p, q, w)'
    BY <1>5, <2>3 DEF Reaches, OnWay
  <2>4. CASE Taken(a, rd, p, q, w)
    BY <1>5, <2>4 DEF Taken, Docs, Brings, Reaches
  <2> QED BY <2>2, <2>3, <2>4
<1>6. ASSUME NEW w \in Wire, Under(q, p, w), Lacks(w, e)
      PROVE  Reaches(p, q, e)'
  <2>1. Gap(q, p, w) = <<p, q>>
    BY <1>6 DEF Gap, Lacks
  <2>2. Under(q, p, w)' \/ Taken(a, rd, q, p, w)
    <3>1. Fate(a, rd, after, q, p, w)
      BY <1>1, <1>6, UnderStays
    <3> QED BY <1>3, <2>1, <3>1 DEF Fate
  <2>3. CASE Under(q, p, w)'
    BY <1>6, <2>3 DEF Reaches, OnWay
  <2>4. CASE Taken(a, rd, q, p, w)
    <3>1. /\ a = p /\ rd /\ Head(mail[p]).t = "wire" /\ Head(mail[p]).from = q
          /\ Head(mail[p]).body = w
      BY <2>4 DEF Taken
    <3>2. after[q].open /\ Tell(out, q, has[p] \ w.edits)
      BY <1>6, <3>1 DEF Docs, Lacks
    <3>3. PICK i \in DOMAIN out[q] : has[p] \ w.edits \subseteq out[q][i].edits
      BY <3>2 DEF Tell
    <3>4. PICK u : u = out[q][i]
      OBVIOUS
    <3>5. u \in Wire
      BY <3>4, Elements
    <3>6. Brings(u, e)
      BY <1>6, <3>3, <3>4 DEF Brings, Lacks, Docs
    <3>7. Said(a, after, out, q, u)
      BY <3>4 DEF Said
    <3>8. Under(p, q, u)' \/ Gap(p, q, u) \in gaps'
      BY <1>1, <3>1, <3>2, <3>7, SaysIt
    <3>9. Gap(p, q, u) = <<p, q>>
      BY <3>6 DEF Gap, Brings
    <3> QED BY <3>5, <3>6, <3>8, <3>9 DEF Reaches, OnWay
  <2> QED BY <2>2, <2>3, <2>4
<1>7. CASE e \in has[q]
  BY <1>2, <1>7 DEF Reaches
<1>8. CASE OnWay(p, q, e)
  BY <1>5, <1>6, <1>8 DEF OnWay
<1> QED BY <1>4, <1>7, <1>8 DEF Reaches

(* One that opens asks for all it lacks.                                    *)
LEMMA TurnedAsks ==
  ASSUME CallInv, NEW a \in Peers, NEW rd \in BOOLEAN, NEW after \in [Peers -> LinkType],
         NEW sigs \in [Peers -> Seq(Message)], NEW out \in [Peers -> Seq(Wire)],
         Turned(a, rd, after, sigs, out), Docs(a, rd, after, out),
         NEW p \in Peers, Both(p, a), <<p, a>> \notin gaps', Opens(a, after, p),
         NEW e \in has'[p]
  PROVE  Reaches(p, a, e)'
<1>1. /\ RoomInv /\ HasOK /\ p # a /\ Both(a, p)
      /\ has[a] \subseteq has'[a] /\ has'[p] = has[p]
  BY DEF CallInv, RoomInv, LinkInv, Base, Both, Docs
<1>2. PICK w : w = AsksFor(a)
  OBVIOUS
<1>3. w \in Wire /\ w.kind = "step1" /\ w.edits = Shown(has[a])
  BY <1>1, <1>2, AsksType DEF AsksFor
<1>4. CASE e \in has[a]
  BY <1>1, <1>4 DEF Reaches
<1>5. CASE e \notin has[a]
  <2>1. Lacks(w, e)
    BY <1>3, <1>5 DEF Lacks, Shown
  <2>2. Said(a, after, out, p, w) /\ after[p].open
    BY <1>2 DEF Said, Opens
  <2>3. Under(a, p, w)' \/ Gap(a, p, w) \in gaps'
    BY <1>1, <2>2, SaysIt
  <2>4. Gap(a, p, w) = <<p, a>>
    BY <1>3 DEF Gap
  <2> QED BY <1>3, <2>1, <2>3, <2>4 DEF Reaches, OnWay
<1> QED BY <1>4, <1>5

(* One that edits sends it to all who have asked, or will answer them.      *)
LEMMA EditReaches ==
  ASSUME CallInv, NEW a \in Peers, NEW rd \in BOOLEAN, NEW after \in [Peers -> LinkType],
         NEW sigs \in [Peers -> Seq(Message)], NEW out \in [Peers -> Seq(Wire)],
         Turned(a, rd, after, sigs, out), Docs(a, rd, after, out),
         NEW q \in Peers, Both(a, q), <<a, q>> \notin gaps',
         NEW e \in has'[a], e \notin has[a], e[1] = a
  PROVE  Reaches(a, q, e)'
<1>1. /\ RoomInv /\ LinkInv /\ LinksOK /\ SentOK /\ HasInv /\ Base /\ a # q /\ FreshBy(a, q)
      /\ mail[a] \in Seq(Message) /\ net[a] = "on" /\ q \in Peers \ {a} /\ a \in Peers \ {q}
  BY DEF CallInv, RoomInv, LinkInv, Base, Both, SentOK
<1>2. ~rd /\ \A z \in Peers \ {a} : link[a][z].open => Tell(out, z, {e})
  BY <1>1 DEF Docs
<1>3. CASE Asks(q, a)
  <2>1. Asks(q, a)'
    BY <1>1, <1>3, AsksStay
  <2> QED BY <2>1 DEF Reaches
<1>4. CASE link[a][q].open
  <2>1. after[q].open
    <3>1. OpenIs(a, rd, after, q)
      BY <1>1, OpenNow
    <3> QED BY <1>2, <1>4, <3>1, Zenon DEF OpenIs
  <2>2. PICK i \in DOMAIN out[q] : {e} \subseteq out[q][i].edits
    BY <1>1, <1>2, <1>4 DEF Tell
  <2>3. PICK u : u = out[q][i]
    OBVIOUS
  <2>4. u \in Wire
    BY <2>3, Elements
  <2>5. Brings(u, e)
    BY <2>2, <2>3 DEF Brings, Docs
  <2>6. Said(a, after, out, q, u)
    BY <2>3 DEF Said
  <2>7. Under(a, q, u)' \/ Gap(a, q, u) \in gaps'
    BY <1>1, <2>1, <2>6, SaysIt
  <2>8. Gap(a, q, u) = <<a, q>>
    BY <2>5 DEF Gap, Brings
  <2> QED BY <2>4, <2>5, <2>7, <2>8 DEF Reaches, OnWay
<1>5. ASSUME NEW i \in DOMAIN mail[a], Asked(mail[a], i, q)
      PROVE  Reaches(a, q, e)'
  <2>1. PICK w : w = mail[a][i].body
    OBVIOUS
  <2>2. mail[a][i].t = "wire" /\ mail[a][i].from = q /\ w.kind = "step1"
    BY <1>5, <2>1 DEF Asked, IsAsk
  <2>3. mail[a][i] \in Message
    BY <1>1, Elements
  <2>4. w \in Wire
    BY <2>1, <2>2, <2>3, MessageParts
  <2>5. Real(w)
    BY <1>1, <2>1, <2>2 DEF HasInv
  <2>6. Lacks(w, e)
    BY <2>2, <2>5 DEF Lacks, Real
  <2>7. mail'[a] = mail[a]
    <3>1. mail'[a] = IF rd THEN Tail(mail[a]) ELSE mail[a]
      BY <1>1, OwnMail
    <3> QED BY <1>2, <3>1
  <2>8. Mailed(q, a, w)'
    BY <2>1, <2>2, <2>7 DEF Mailed
  <2> QED BY <2>4, <2>6, <2>8 DEF Reaches, OnWay, Under
<1> QED BY <1>1, <1>3, <1>4, <1>5 DEF FreshBy, Fresh

LEMMA TurnedWay ==
  ASSUME CallInv, NEW a \in Peers, NEW rd \in BOOLEAN, NEW after \in [Peers -> LinkType],
         NEW sigs \in [Peers -> Seq(Message)], NEW out \in [Peers -> Seq(Wire)],
         Turned(a, rd, after, sigs, out), Docs(a, rd, after, out),
         NEW p \in Peers, NEW q \in Peers, WayOf(p, q)
  PROVE  WayOf(p, q)'
<1>1. /\ RoomInv /\ LinkInv /\ HasOK /\ Base
      /\ \A z \in Peers \ {a} : has'[z] = has[z]
  BY DEF CallInv, RoomInv, LinkInv, Base, Docs
<1>2. net' = net
  BY DEF Turned
<1> SUFFICES ASSUME Both(p, q), <<p, q>> \notin gaps', NEW e \in has'[p], e[1] = p
             PROVE  Reaches(p, q, e)'
  BY <1>2 DEF WayOf, Both
<1>3. CASE a = q /\ Opens(a, after, p)
  <2>1. Both(p, a) /\ <<p, a>> \notin gaps'
    BY <1>3
  <2>2. Reaches(p, a, e)'
    BY <1>3, <2>1, TurnedAsks
  <2> QED BY <1>3, <2>2
<1>4. CASE a = p /\ e \notin has[p]
  <2>1. Both(a, q) /\ <<a, q>> \notin gaps' /\ e \in has'[a] /\ e \notin has[a] /\ e[1] = a
    BY <1>4
  <2>2. Reaches(a, q, e)'
    BY <2>1, EditReaches
  <2> QED BY <1>4, <2>2
<1>5. CASE ~(a = q /\ Opens(a, after, p)) /\ e \in has[p]
  <2>1. ~Filled(a, after, <<p, q>>)
    BY <1>5 DEF Filled
  <2>2. <<p, q>> \notin gaps
    BY <2>1, GapsKept
  <2>3. Reaches(p, q, e)
    BY <1>5, <2>2 DEF WayOf
  <2> QED BY <1>1, <1>5, <2>3, TurnedReaches
<1>6. a # p => e \in has[p]
  BY <1>1
<1> QED BY <1>3, <1>4, <1>5, <1>6

-----------------------------------------------------------------------------
(* The other steps.  What is in the mail stays there, and what is in a pipe *)
(* stays there, is read, or leaves a gap.                                   *)
Longer(b, c) == \A i \in DOMAIN b : i \in DOMAIN c /\ c[i] = b[i]

PipesHold(p, q, e) ==
    /\ \A w \in Wire : Piping(p, q, w) /\ Brings(w, e) => Piping(p, q, w)' \/ Reaches(p, q, e)'
    /\ \A w \in Wire : Piping(q, p, w) /\ Lacks(w, e) => Piping(q, p, w)' \/ Reaches(p, q, e)'

LEMMA StillReaches ==
  ASSUME NEW p \in Peers, NEW q \in Peers, NEW e, Reaches(p, q, e), has[q] \subseteq has'[q],
         link'[q][p] = link[q][p], Longer(mail[p], mail'[p]), Longer(mail[q], mail'[q]),
         PipesHold(p, q, e)
  PROVE  Reaches(p, q, e)'
<1>1. CASE e \in has[q]
  BY <1>1 DEF Reaches
<1>2. CASE Asks(q, p)
  <2>1. Asks(q, p)'
    BY <1>2 DEF Asks, LeaveIn, Longer
  <2> QED BY <2>1 DEF Reaches
<1>3. ASSUME NEW x \in Peers, NEW y \in Peers, NEW w, Longer(mail[y], mail'[y]), Mailed(x, y, w)
      PROVE  Mailed(x, y, w)'
  BY <1>3 DEF Mailed, Longer
<1>4. ASSUME NEW w \in Wire, Under(p, q, w), Brings(w, e)
      PROVE  Reaches(p, q, e)'
  <2>1. Mailed(p, q, w)' \/ Piping(p, q, w)' \/ Reaches(p, q, e)'
    BY <1>3, <1>4 DEF Under, PipesHold
  <2> QED BY <1>4, <2>1 DEF Reaches, OnWay, Under
<1>5. ASSUME NEW w \in Wire, Under(q, p, w), Lacks(w, e)
      PROVE  Reaches(p, q, e)'
  <2>1. Mailed(q, p, w)' \/ Piping(q, p, w)' \/ Reaches(p, q, e)'
    BY <1>3, <1>5 DEF Under, PipesHold
  <2> QED BY <1>5, <2>1 DEF Reaches, OnWay, Under
<1> QED BY <1>1, <1>2, <1>4, <1>5 DEF Reaches, OnWay

LEMMA SamePipes ==
  ASSUME NEW p \in Peers, NEW q \in Peers, NEW e, pipe'[p][q] = pipe[p][q],
         pipe'[q][p] = pipe[q][p]
  PROVE  PipesHold(p, q, e)
<1>1. \A w : Piping(p, q, w) => Piping(p, q, w)'
  BY DEF Piping
<1>2. \A w : Piping(q, p, w) => Piping(q, p, w)'
  BY DEF Piping
<1> QED BY <1>1, <1>2 DEF PipesHold

(* Steps that neither edit nor read, and leave the two as they are.         *)
LEMMA WayStays ==
  ASSUME NEW p \in Peers, NEW q \in Peers, WayOf(p, q), Both(p, q)' => Both(p, q),
         UNCHANGED <<has, gaps>>,
         Both(p, q)' => /\ link'[q][p] = link[q][p]
                        /\ pipe'[p][q] = pipe[p][q] /\ pipe'[q][p] = pipe[q][p]
                        /\ Longer(mail[p], mail'[p]) /\ Longer(mail[q], mail'[q])
  PROVE  WayOf(p, q)'
<1> SUFFICES ASSUME Both(p, q)', <<p, q>> \notin gaps, NEW e \in has[p], e[1] = p
             PROVE  Reaches(p, q, e)'
  BY DEF WayOf
<1>1. Reaches(p, q, e)
  BY DEF WayOf
<1>2. PipesHold(p, q, e)
  BY SamePipes
<1> QED BY <1>1, <1>2, StillReaches

LEMMA ConnectWay ==
  ASSUME CallInv, NEW a \in Peers, Connect(a), NEW p \in Peers, NEW q \in Peers, WayOf(p, q)
  PROVE  WayOf(p, q)'
<1>1. /\ LinkInv /\ NetInv /\ mail \in [Peers -> Seq(Message)]
      /\ net \in [Peers -> {"connecting", "on", "off"}]
  BY DEF CallInv, RoomInv, LinkInv, Base, SentOK, RestOK
<1>2. net' = [net EXCEPT ![a] = "on"] /\ UNCHANGED <<has, gaps, link, pipe>>
  BY DEF Connect, docVars
<1>3. CASE a = p \/ a = q
  <2>1. Both(p, q)' => Asks(q, p)'
    BY <1>3, ConnectAsks
  <2> QED BY <2>1 DEF WayOf, Reaches
<1>4. CASE a # p /\ a # q
  <2>1. Both(p, q)' => Both(p, q)
    BY <1>1, <1>2, <1>4 DEF Both
  <2>2. ASSUME NEW x \in Peers \ {a}, net[x] = "on"
        PROVE  Longer(mail[x], mail'[x])
    <3>1. Told(a, a \in room, mail[x], mail'[x])
      BY <1>1, <2>2, ConnectTells DEF NetInv
    <3>2. PICK s \in Seq(Message) : mail'[x] = mail[x] \o s
      BY <3>1 DEF Told
    <3>3. PICK c : c = mail'[x]
      OBVIOUS
    <3>4. \A i \in DOMAIN mail[x] : i \in DOMAIN c /\ c[i] = mail[x][i]
      BY <1>1, <3>2, <3>3, Positions
    <3> QED BY <3>3, <3>4 DEF Longer
  <2>3. Both(p, q) => Longer(mail[p], mail'[p]) /\ Longer(mail[q], mail'[q])
    BY <1>4, <2>2 DEF Both
  <2> QED BY <1>2, <2>1, <2>3, WayStays
<1> QED BY <1>3, <1>4

LEMMA HubNoticesWay ==
  ASSUME CallInv, NEW a \in Peers, HubNotices(a), NEW p \in Peers, NEW q \in Peers, WayOf(p, q)
  PROVE  WayOf(p, q)'
<1>1. LinkInv /\ mail \in [Peers -> Seq(Message)]
  BY DEF CallInv, RoomInv, LinkInv, Base, SentOK
<1>2. UNCHANGED <<net, has, gaps, link, pipe>>
  BY DEF HubNotices, docVars
<1>3. ASSUME NEW x \in Peers
      PROVE  Longer(mail[x], mail'[x])
  <2>1. CASE x \in room \ {a} /\ net[x] = "on"
    <3>1. \E s \in Seq(Message) : /\ mail'[x] = mail[x] \o s /\ News(a, s)
                                  /\ \A i \in DOMAIN s : s[i].t = "leave"
                                  /\ LeaveIn(s, a)
      BY <1>1, <2>1, HubNoticesTells
    <3>2. PICK s \in Seq(Message) : mail'[x] = mail[x] \o s
      BY <3>1, Zenon
    <3>3. PICK c : c = mail'[x]
      OBVIOUS
    <3>4. \A i \in DOMAIN mail[x] : i \in DOMAIN c /\ c[i] = mail[x][i]
      BY <1>1, <3>2, <3>3, Positions
    <3> QED BY <3>3, <3>4 DEF Longer
  <2>2. CASE ~(x \in room \ {a} /\ net[x] = "on")
    <3>1. mail'[x] = mail[x]
      BY <1>1, <2>2, HubNoticesTells
    <3> QED BY <3>1 DEF Longer
  <2> QED BY <2>1, <2>2
<1> QED BY <1>2, <1>3, WayStays DEF Both

LEMMA SocketWay ==
  ASSUME CallInv, NEW a \in Peers, SocketLost(a) \/ Leave(a), NEW p \in Peers, NEW q \in Peers,
         WayOf(p, q)
  PROVE  WayOf(p, q)'
<1>1. /\ mail \in [Peers -> Seq(Message)] /\ link \in [Peers -> [Peers -> LinkType]]
      /\ net \in [Peers -> {"connecting", "on", "off"}]
      /\ pipe \in [Peers -> [Peers -> Seq(Wire)]]
  BY DEF CallInv, RoomInv, LinkInv, Base, SentOK, RestOK, LinksOK
<1>2. /\ net' = [net EXCEPT ![a] = "connecting"] \/ net' = [net EXCEPT ![a] = "off"]
      /\ mail' = [mail EXCEPT ![a] = <<>>] /\ UNCHANGED <<has, gaps>>
      /\ link' = [link EXCEPT ![a] = [r \in Peers |-> NoLink]] \/ UNCHANGED link
      /\ \/ pipe' = [r \in Peers |-> [s \in Peers |-> IF a \in {r, s} THEN <<>> ELSE pipe[r][s]]]
         \/ UNCHANGED pipe
  BY DEF SocketLost, Leave, Disconnect, docVars
<1>3. /\ net'[a] # "on"
      /\ \A x \in Peers \ {a} : net'[x] = net[x] /\ mail'[x] = mail[x] /\ link'[x] = link[x]
      /\ \A x, y \in Peers \ {a} : pipe'[x][y] = pipe[x][y]
  <2>1. net'[a] # "on" /\ \A x \in Peers \ {a} : net'[x] = net[x]
    BY <1>1, <1>2
  <2>2. \A x \in Peers \ {a} : mail'[x] = mail[x]
    BY <1>1, <1>2
  <2>3. \A x \in Peers \ {a} : link'[x] = link[x]
    BY <1>1, <1>2
  <2>4. ASSUME NEW x \in Peers \ {a}, NEW y \in Peers \ {a}
        PROVE  pipe'[x][y] = pipe[x][y]
    <3>1. CASE pipe' = [r \in Peers |-> [s \in Peers |-> IF a \in {r, s} THEN <<>> ELSE pipe[r][s]]]
      BY <3>1
    <3>2. CASE pipe' = pipe
      BY <3>2
    <3> QED BY <1>2, <3>1, <3>2
  <2> QED BY <2>1, <2>2, <2>3, <2>4
<1>4. Both(p, q)' => p # a /\ q # a /\ Both(p, q)
  BY <1>3 DEF Both
<1>5. \A b : Longer(b, b)
  BY DEF Longer
<1>6. Both(p, q)' => /\ link'[q][p] = link[q][p]
                     /\ pipe'[p][q] = pipe[p][q] /\ pipe'[q][p] = pipe[q][p]
                     /\ Longer(mail[p], mail'[p]) /\ Longer(mail[q], mail'[q])
  BY <1>3, <1>4, <1>5
<1> QED BY <1>2, <1>4, <1>6, WayStays

LEMMA SameWay ==
  ASSUME UNCHANGED <<net, mail, link, pipe, has, gaps>>, NEW p \in Peers, NEW q \in Peers,
         WayOf(p, q)
  PROVE  WayOf(p, q)'
<1>1. \A b : Longer(b, b)
  BY DEF Longer
<1> QED BY <1>1, WayStays DEF Both

(* A channel that fails.                                                    *)
LEMMA FailsWay ==
  ASSUME CallInv, NEW b \in Peers, NEW c \in Peers \ {b}, ChannelFails(b, c),
         NEW p \in Peers, NEW q \in Peers, WayOf(p, q)
  PROVE  WayOf(p, q)'
<1>1. pipe \in [Peers -> [Peers -> Seq(Wire)]]
  BY DEF CallInv, RoomInv, LinkInv, Base, SentOK
<1>2. /\ pipe' = [pipe EXCEPT ![b][c] = <<>>, ![c][b] = <<>>]
      /\ gaps' = gaps \cup Lost(b, c, pipe[b][c]) \cup Lost(c, b, pipe[c][b])
      /\ UNCHANGED <<net, mail, link, has>>
  BY DEF ChannelFails
<1> SUFFICES ASSUME Both(p, q), <<p, q>> \notin gaps', NEW e \in has[p], e[1] = p
             PROVE  Reaches(p, q, e)'
  BY <1>2 DEF WayOf, Both
<1>3. Reaches(p, q, e)
  BY <1>2 DEF WayOf
<1>4. ASSUME NEW x \in Peers, NEW y \in Peers, NEW w, Piping(x, y, w), Gap(x, y, w) \notin gaps'
      PROVE  Piping(x, y, w)'
  <2>1. PICK i \in DOMAIN pipe[x][y] : pipe[x][y][i] = w
    BY <1>4 DEF Piping
  <2>2. Gap(x, y, w) \in Lost(x, y, pipe[x][y])
    BY <2>1, LostOf
  <2>3. ~(x = b /\ y = c) /\ ~(x = c /\ y = b)
    BY <1>2, <1>4, <2>2
  <2>4. pipe'[x][y] = pipe[x][y]
    BY <1>1, <1>2, <2>3
  <2> QED BY <1>4, <2>4 DEF Piping
<1>5. PipesHold(p, q, e)
  <2>1. ASSUME NEW w \in Wire, Piping(p, q, w), Brings(w, e) PROVE Piping(p, q, w)'
    <3>1. Gap(p, q, w) = <<p, q>>
      BY <2>1 DEF Gap, Brings
    <3> QED BY <1>4, <2>1, <3>1
  <2>2. ASSUME NEW w \in Wire, Piping(q, p, w), Lacks(w, e) PROVE Piping(q, p, w)'
    <3>1. Gap(q, p, w) = <<p, q>>
      BY <2>2 DEF Gap, Lacks
    <3> QED BY <1>4, <2>2, <3>1
  <2> QED BY <2>1, <2>2 DEF PipesHold
<1>6. \A x : Longer(x, x)
  BY DEF Longer
<1> QED BY <1>2, <1>3, <1>5, <1>6, StillReaches

(* A wire that is read from a channel.                                      *)
LEMMA WiresRest ==
  ASSUME NEW b \in Seq(Wire), b # <<>>
  PROVE  /\ Head(b) \in Wire /\ 1 \in DOMAIN b /\ Head(b) = b[1]
         /\ \A i \in DOMAIN b : b[i] = Head(b) \/ \E j \in DOMAIN Tail(b) : Tail(b)[j] = b[i]
<1>1. /\ Tail(b) \in Seq(Wire) /\ Len(Tail(b)) = Len(b) - 1 /\ Head(b) \in Wire
      /\ \A i \in 1..Len(Tail(b)) : Tail(b)[i] = b[i + 1]
  BY HeadTailProperties
<1>2. DOMAIN b = 1..Len(b) /\ DOMAIN Tail(b) = 1..Len(Tail(b)) /\ Len(b) \in Nat /\ Len(b) # 0
  BY <1>1, LenProperties, EmptySeq
<1>3. Head(b) = b[1]
  OBVIOUS
<1>4. ASSUME NEW i \in DOMAIN b, i # 1
      PROVE  i - 1 \in DOMAIN Tail(b) /\ Tail(b)[i - 1] = b[i]
  BY <1>1, <1>2, <1>4
<1>5. ASSUME NEW i \in DOMAIN b
      PROVE  b[i] = Head(b) \/ \E j \in DOMAIN Tail(b) : Tail(b)[j] = b[i]
  <2>1. CASE i = 1
    BY <1>3, <2>1
  <2>2. CASE i # 1
    <3>1. PICK j : j = i - 1
      OBVIOUS
    <3>2. PICK t : t = Tail(b)
      OBVIOUS
    <3>3. j \in DOMAIN t /\ t[j] = b[i]
      BY <1>4, <2>2, <3>1, <3>2
    <3> QED BY <3>2, <3>3
  <2> QED BY <2>1, <2>2
<1>6. Head(b) \in Wire /\ 1 \in DOMAIN b
  BY <1>1, <1>2
<1> QED BY <1>3, <1>5, <1>6

Replied(b, c, w) ==
    /\ w \in Wire /\ Real(w) /\ Takes(b, w)
    /\ \A x, y \in Peers : \A v : Piping(x, y, v) => Piping(x, y, v)' \/ (x = c /\ y = b /\ v = w)
    /\ w.kind = "step1" => \E u \in Wire : /\ Piping(b, c, u)'
                                           /\ u.kind # "step1" /\ u.edits = has[b] \ w.edits

LEMMA ReceiveReplies ==
  ASSUME LinkInv, NEW b \in Peers, NEW c \in Peers \ {b}, ReceiveOverChannel(b, c)
  PROVE  \E w : Replied(b, c, w)
<1>1. /\ HasOK /\ HasInv /\ pipe \in [Peers -> [Peers -> Seq(Wire)]]
  BY DEF LinkInv, Base, SentOK
<1>2. PICK s \in Seq(Wire) : s = pipe[c][b]
  BY <1>1
<1>3. PICK w : w = Head(s)
  OBVIOUS
<1>4. PICK o : o = Reply(b, w)
  OBVIOUS
<1>5. s # <<>> /\ Takes(b, w)
      /\ pipe' = [pipe EXCEPT ![c][b] = Tail(s), ![b][c] = pipe[b][c] \o [i \in DOMAIN o |-> o[i]]]
  BY <1>1, <1>2, <1>3, <1>4 DEF ReceiveOverChannel
<1>6. /\ w \in Wire /\ 1 \in DOMAIN s /\ w = s[1]
      /\ \A i \in DOMAIN s : s[i] = w \/ \E j \in DOMAIN Tail(s) : Tail(s)[j] = s[i]
  BY <1>2, <1>3, <1>5, WiresRest
<1>7. Real(w)
  BY <1>1, <1>2, <1>6 DEF HasInv
<1>8. /\ o \in Seq(Wire)
      /\ \A i \in DOMAIN o : o[i].kind = "step2" /\ o[i].edits = has[b] \ w.edits
      /\ w.kind = "step1" => 1 \in DOMAIN o
  <2>0. HasOK /\ w \in Wire
    BY <1>1, <1>6
  <2>1. /\ Reply(b, w) \in Seq(Wire)
        /\ \A i \in DOMAIN Reply(b, w) : /\ w.kind = "step1"
                                         /\ Reply(b, w)[i].kind = "step2"
                                         /\ Reply(b, w)[i].edits = has[b] \ w.edits
        /\ w.kind = "step1" => 1 \in DOMAIN Reply(b, w)
    BY <2>0, ReplyType, Zenon
  <2> QED BY <1>4, <2>1
<1>9. [i \in DOMAIN o |-> o[i]] = o
  <2>1. DOMAIN o = 1..Len(o) /\ o = [i \in 1..Len(o) |-> o[i]]
    BY <1>8, LenProperties
  <2> QED BY <2>1
<1>10. PICK d \in Seq(Wire) : d = pipe[b][c]
  BY <1>1
<1>11. PICK n : n = pipe'[b][c]
  OBVIOUS
<1>12. /\ n = d \o o /\ pipe'[c][b] = Tail(s)
       /\ \A x, y \in Peers : ~(x = c /\ y = b) /\ ~(x = b /\ y = c) => pipe'[x][y] = pipe[x][y]
  BY <1>1, <1>5, <1>9, <1>10, <1>11
<1>13. /\ \A i \in DOMAIN d : i \in DOMAIN n /\ n[i] = d[i]
       /\ \A i \in DOMAIN o : Len(d) + i \in DOMAIN n /\ n[Len(d) + i] = o[i]
  <2>1. o \in Seq(Wire) /\ n = d \o o
    BY <1>8, <1>12
  <2>2. d \in Seq(Wire)
    BY <1>10
  <2>3. \A i \in DOMAIN d : i \in DOMAIN n /\ n[i] = d[i]
    BY <2>1, <2>2, Positions
  <2>4. \A i \in DOMAIN o : Len(d) + i \in DOMAIN n /\ n[Len(d) + i] = o[i]
    BY <2>1, <2>2, Positions
  <2> QED BY <2>3, <2>4
<1>14. ASSUME NEW x \in Peers, NEW y \in Peers, NEW v, Piping(x, y, v), ~(x = c /\ y = b /\ v = w)
       PROVE  Piping(x, y, v)'
  <2>1. PICK i \in DOMAIN pipe[x][y] : pipe[x][y][i] = v
    BY <1>14 DEF Piping
  <2>2. CASE x = c /\ y = b
    <3>1. \E j \in DOMAIN Tail(s) : Tail(s)[j] = v
      BY <1>2, <1>6, <1>14, <2>1, <2>2
    <3> QED BY <1>12, <2>2, <3>1 DEF Piping
  <2>3. CASE x = b /\ y = c
    <3>1. i \in DOMAIN n /\ n[i] = v
      BY <1>10, <1>13, <2>1, <2>3
    <3> QED BY <1>11, <2>3, <3>1 DEF Piping
  <2>4. CASE ~(x = c /\ y = b) /\ ~(x = b /\ y = c)
    <3>1. pipe'[x][y] = pipe[x][y]
      BY <1>12, <2>4
    <3> QED BY <1>14, <3>1 DEF Piping
  <2> QED BY <2>2, <2>3, <2>4
<1>15. ASSUME w.kind = "step1"
       PROVE  \E u \in Wire : Piping(b, c, u)' /\ u.kind # "step1" /\ u.edits = has[b] \ w.edits
  <2>1. PICK u : u = o[1]
    OBVIOUS
  <2>2. 1 \in DOMAIN o
    BY <1>8, <1>15
  <2>3. u \in Wire /\ u.kind = "step2" /\ u.edits = has[b] \ w.edits
    BY <1>8, <2>1, <2>2, Elements
  <2>4. Piping(b, c, u)'
    BY <1>11, <1>13, <2>1, <2>2 DEF Piping
  <2> QED BY <2>3, <2>4
<1>16. Replied(b, c, w)
  BY <1>5, <1>6, <1>7, <1>14, <1>15 DEF Replied
<1> QED BY <1>16

LEMMA ReceiveWay ==
  ASSUME CallInv, NEW b \in Peers, NEW c \in Peers \ {b}, ReceiveOverChannel(b, c),
         NEW p \in Peers, NEW q \in Peers, WayOf(p, q)
  PROVE  WayOf(p, q)'
<1>1. /\ LinkInv /\ HasOK /\ HasInv /\ \A r \in Peers : Kept(r)
  BY DEF CallInv, RoomInv, LinkInv, Base, HasInv
<1>2. UNCHANGED <<net, mail, link, gaps>>
  BY DEF ReceiveOverChannel
<1>3. PICK w : Replied(b, c, w)
  BY <1>1, ReceiveReplies
<1>4. w \in Wire /\ Real(w) /\ Takes(b, w)
  BY <1>3 DEF Replied
<1>5. /\ has[b] \subseteq has'[b] /\ \A r \in Peers \ {b} : has'[r] = has[r]
      /\ \A e \in has'[b] \ has[b] : e[1] # b
      /\ w.kind # "step1" => w.edits \subseteq has'[b]
  BY <1>1, <1>4, TakesDocs
<1> SUFFICES ASSUME Both(p, q), <<p, q>> \notin gaps, NEW e \in has'[p], e[1] = p
             PROVE  Reaches(p, q, e)'
  BY <1>2 DEF WayOf, Both
<1>6. e \in has[p]
  BY <1>5
<1>7. Reaches(p, q, e) /\ has[q] \subseteq has'[q]
  BY <1>5, <1>6 DEF WayOf
<1>8. PipesHold(p, q, e)
  <2>1. ASSUME NEW v \in Wire, Piping(p, q, v), Brings(v, e)
        PROVE  Piping(p, q, v)' \/ Reaches(p, q, e)'
    <3>1. Piping(p, q, v)' \/ (p = c /\ q = b /\ v = w)
      BY <1>3, <2>1 DEF Replied
    <3>2. ASSUME q = b, v = w PROVE Reaches(p, q, e)'
      <4>1. e \in has'[q]
        BY <1>5, <2>1, <3>2 DEF Brings
      <4> QED BY <4>1 DEF Reaches
    <3> QED BY <3>1, <3>2
  <2>2. ASSUME NEW v \in Wire, Piping(q, p, v), Lacks(v, e)
        PROVE  Piping(q, p, v)' \/ Reaches(p, q, e)'
    <3>1. Piping(q, p, v)' \/ (q = c /\ p = b /\ v = w)
      BY <1>3, <2>2 DEF Replied
    <3>2. ASSUME q = c, p = b, v = w PROVE Reaches(p, q, e)'
      <4>1. w.kind = "step1" /\ e \in has[b] \ w.edits
        BY <1>6, <2>2, <3>2 DEF Lacks
      <4>2. PICK u \in Wire : Piping(b, c, u)' /\ u.kind # "step1" /\ u.edits = has[b] \ w.edits
        BY <1>3, <4>1 DEF Replied
      <4>3. Brings(u, e)
        BY <4>1, <4>2 DEF Brings
      <4>4. Under(p, q, u)'
        BY <3>2, <4>2 DEF Under
      <4> QED BY <4>3, <4>4 DEF Reaches, OnWay
    <3> QED BY <3>1, <3>2
  <2> QED BY <2>1, <2>2 DEF PipesHold
<1>9. \A x : Longer(x, x)
  BY DEF Longer
<1> QED BY <1>2, <1>7, <1>8, <1>9, StillReaches

-----------------------------------------------------------------------------
(* All of it.                                                               *)
LEMMA WayInit ==
  Init => WayInv
<1> SUFFICES ASSUME Init PROVE WayInv
  OBVIOUS
<1>1. ChanInv
  BY DEF Init, ChanInv, HeldInv, UpInv, PairInv, PipeInv, Silence, NoLink, Held, Live
<1>2. \A p, q \in Peers : WayOf(p, q)
  BY DEF Init, WayOf, Both
<1> QED BY <1>1, <1>2, CallInit DEF WayInv

LEMMA WayStep ==
  WayInv /\ [Next]_vars => WayInv'
<1> SUFFICES ASSUME WayInv, [Next]_vars PROVE WayInv'
  OBVIOUS
<1>1. CallInv /\ LinkInv /\ Base /\ ChanInv
  BY DEF WayInv, CallInv, RoomInv, LinkInv
<1>2. CallInv'
  BY <1>1, CallStep
<1>3. CASE UNCHANGED vars
  <2>1. UNCHANGED <<net, mail, link, up, pipe, has, gaps>>
    BY <1>3 DEF vars, docVars
  <2>2. ChanInv'
    BY <1>1, <2>1 DEF ChanInv, HeldInv, UpInv, PairInv, PipeInv
  <2>3. ASSUME NEW p \in Peers, NEW q \in Peers PROVE WayOf(p, q)'
    BY <2>1, SameWay DEF WayInv
  <2> QED BY <1>2, <2>2, <2>3 DEF WayInv
<1>4. ASSUME NEW a \in Peers, Turning(a) PROVE WayInv'
  <2>1. PICK rd \in BOOLEAN, after \in [Peers -> LinkType],
             sigs \in [Peers -> Seq(Message)], out \in [Peers -> Seq(Wire)] :
               Turned(a, rd, after, sigs, out) /\ Docs(a, rd, after, out)
    BY <1>4 DEF Turning
  <2>2. ChanInv'
    BY <1>1, <2>1, TurnedChans
  <2>3. ASSUME NEW p \in Peers, NEW q \in Peers PROVE WayOf(p, q)'
    <3>1. WayOf(p, q)
      BY DEF WayInv
    <3> QED BY <1>1, <2>1, <3>1, TurnedWay
  <2> QED BY <1>2, <2>2, <2>3 DEF WayInv
<1>5. ASSUME NEW a \in Peers, Other(a) PROVE WayInv'
  <2>1. ChanInv'
    BY <1>1, <1>5, OtherChans
  <2>2. ASSUME NEW p \in Peers, NEW q \in Peers PROVE WayOf(p, q)'
    <3>1. WayOf(p, q)
      BY DEF WayInv
    <3>2. CASE SocketLost(a) \/ Leave(a)
      BY <1>1, <3>1, <3>2, SocketWay
    <3>3. CASE Connect(a)
      BY <1>1, <3>1, <3>3, ConnectWay
    <3>4. CASE HubNotices(a)
      BY <1>1, <3>1, <3>4, HubNoticesWay
    <3>5. ASSUME NEW b \in Peers \ {a}, ReceiveOverChannel(a, b) PROVE WayOf(p, q)'
      BY <1>1, <3>1, <3>5, ReceiveWay
    <3>6. ASSUME NEW b \in Peers \ {a}, ChannelConnects(a, b) PROVE WayOf(p, q)'
      <4>1. UNCHANGED <<net, mail, link, pipe, has, gaps>>
        BY <3>6 DEF ChannelConnects, docVars
      <4> QED BY <3>1, <4>1, SameWay
    <3>7. ASSUME NEW b \in Peers \ {a}, ChannelFails(a, b) PROVE WayOf(p, q)'
      BY <1>1, <3>1, <3>7, FailsWay
    <3> QED BY <1>5, <3>2, <3>3, <3>4, <3>5, <3>6, <3>7 DEF Other
  <2> QED BY <1>2, <2>1, <2>2 DEF WayInv
<1>6. Next => \E a \in Peers : Turning(a) \/ Other(a)
  BY <1>1, StepKinds
<1> QED BY <1>3, <1>4, <1>5, <1>6

(* When nothing is under way, what is not there has died on the way.        *)
LEMMA QuietAgrees ==
  WayInv => DocumentsAgree
<1> SUFFICES ASSUME WayInv, Quiet, NEW e \in Edits, NEW q \in Peers, e \in has[e[1]],
                    Both(e[1], q), <<e[1], q>> \notin gaps
             PROVE  e \in Shown(has[q])
  BY DEF DocumentsAgree
<1>1. /\ RoomInv /\ HasInv /\ HasOK /\ PairInv /\ PipeInv
  BY DEF WayInv, CallInv, RoomInv, LinkInv, Base, ChanInv
<1>2. PICK p \in Peers : p = e[1]
  BY EditParts
<1>3. ASSUME NEW x \in Peers, NEW y \in Peers, NEW w
      PROVE  ~Under(x, y, w)
  <2>1. mail[y] = <<>>
    BY DEF Quiet
  <2>2. ASSUME pipe[x][y] # <<>> PROVE FALSE
    <3>1. link[x][y].chan \in up /\ link[y][x].chan = link[x][y].chan
      BY <1>1, <2>2 DEF PairInv, PipeInv
    <3>2. link[y][x].chan \in up /\ link[y][x].stage \in Live
      BY <1>1, <3>1 DEF PairInv
    <3>3. link[y][x].stage = "open"
      BY <3>2 DEF Quiet, Live
    <3> QED BY <2>2, <3>3 DEF Quiet
  <2> QED BY <2>1, <2>2, EmptySeq DEF Under, Mailed, Piping
<1>4. ~Asks(q, p)
  <2>1. mail[q] = <<>>
    BY DEF Quiet
  <2>2. link[q][p].open
    BY <1>1, <1>2, OpenAtRest DEF OpenIsThere, Both
  <2> QED BY <2>1, <2>2, EmptySeq DEF Asks, LeaveIn
<1>5. \A d \in has[p] : d[1] = p => d \in has[q]
  <2> SUFFICES ASSUME NEW d \in has[p], d[1] = p PROVE d \in has[q]
    OBVIOUS
  <2>1. Reaches(p, q, d)
    BY <1>2 DEF WayInv, WayOf
  <2> QED BY <1>3, <1>4, <2>1 DEF Reaches, OnWay
<1>6. e \in has[p] /\ e[1] = p /\ \A n \in 1..e[2] : <<p, n>> \in has[p]
  BY <1>1, <1>2 DEF HasInv, Kept
<1>7. \A n \in 1..e[2] : <<p, n>> \in has[q]
  BY <1>5, <1>6
<1> QED BY <1>5, <1>6, <1>7 DEF Shown

(* Whatever path the wires took, through glare, reconnections and the       *)
(* change from the hub to a channel and back: when it is quiet, what a      *)
(* client edited shows at every other that is connected, unless a channel   *)
(* has died with it (provider.ts, onSyncNeeded and applyRemote;             *)
(* webrtc-transport.ts, sendTo).                                            *)
THEOREM EditsArrive ==
  Spec => []DocumentsAgree
<1>1. WayInv => DocumentsAgree
  BY QuietAgrees
<1> QED BY <1>1, WayInit, WayStep, PTL DEF Spec
=============================================================================
