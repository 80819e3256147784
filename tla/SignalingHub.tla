---------------------------- MODULE SignalingHub ----------------------------
(***************************************************************************)
(* The WebRTC signaling hub of packages/collab-signaling (hub.ts) and the  *)
(* socket events its server wires to it (server.ts).  The hub keeps two    *)
(* maps that must agree -- connections to members, topics to rooms -- and  *)
(* tells the clients of a room who shares it ("joined", "peer", "leave").  *)
(* Handlers run to completion on one event loop; what interleaves is the   *)
(* order in which sockets open, send, drop, report errors and close.       *)
(*                                                                         *)
(* Time enters only through comparisons with a limit, so each member keeps *)
(* its idle time and the age of its rate window, saturated one tick past   *)
(* the limit they are compared with; the clock itself needs no bound.      *)
(***************************************************************************)
EXTENDS Naturals, FiniteSets

CONSTANTS Conns, Topics, PeerIds,     \* sockets, hashed topics, peer ids
          NoConn, NoTopic, NoPeer,    \* "absent", the empty string in hub.ts
          MaxConnections, MaxTopics, MaxPeersPerTopic,
          IdleTicks, JoinedIdleTicks, \* idleMs, joinedIdleMs
          RateTicks, MaxMessages      \* rateWindowMs, maxMessagesPerWindow

ASSUME HubAssumption ==
  /\ NoConn \notin Conns /\ NoTopic \notin Topics /\ NoPeer \notin PeerIds
  /\ {MaxConnections, MaxTopics, MaxPeersPerTopic} \subseteq Nat
  /\ {IdleTicks, JoinedIdleTicks, RateTicks, MaxMessages} \subseteq Nat

VARIABLES
  socket,   \* readyState of the WebSocket: open, closing, closed
  members,  \* the keys of hub.members
  seat,     \* the topic and the peer id of each Member
  meter,    \* idle time, age of the rate window, messages counted in it
  topics,   \* the keys of hub.topics
  rooms,    \* hub.topics: topic -> peer id -> connection
  told      \* the peers the client was told share its room (joined/peer/leave)

vars == <<socket, members, seat, meter, topics, rooms, told>>

Seat    == [topic : Topics \cup {NoTopic}, peer : PeerIds \cup {NoPeer}]
NoSeat  == [topic |-> NoTopic, peer |-> NoPeer]
IdleCap == 1 + IF IdleTicks > JoinedIdleTicks THEN IdleTicks ELSE JoinedIdleTicks
Meter   == [idle : 0..IdleCap, window : 0..RateTicks, count : 0..MaxMessages]
Fresh   == [idle |-> 0, window |-> 0, count |-> 0]

Seated(t) == {p \in PeerIds : rooms[t][p] # NoConn}

(* Definitions named Slip* are deliberate mistakes, used by no action: each *)
(* is a wrong version of the definition after it that a run must refute.    *)
SlipOthersAfterAdding(t, p) == Seated(t) \cup {p}

Others(t, p) == Seated(t) \ {p}

Init ==
  /\ socket = [c \in Conns |-> "closed"]
  /\ members = {}
  /\ seat = [c \in Conns |-> NoSeat]
  /\ meter = [c \in Conns |-> Fresh]
  /\ topics = {}
  /\ rooms = [t \in Topics |-> [p \in PeerIds |-> NoConn]]
  /\ told = [c \in Conns |-> {}]

-----------------------------------------------------------------------------
(* handleConnection.  A connection over the limit is closed and never       *)
(* becomes a member.  Ids are never reused by the server; a closed id is    *)
(* reused here for the next socket, which keeps reconnects unbounded.       *)
Connect(c) ==
  /\ socket[c] = "closed"
  /\ Cardinality(members) < MaxConnections
  /\ socket' = [socket EXCEPT ![c] = "open"]
  /\ members' = members \cup {c}
  /\ seat' = [seat EXCEPT ![c] = NoSeat]
  /\ meter' = [meter EXCEPT ![c] = Fresh]
  /\ told' = [told EXCEPT ![c] = {}]
  /\ UNCHANGED <<topics, rooms>>

RefuseConnection(c) ==
  /\ socket[c] = "closed"
  /\ Cardinality(members) >= MaxConnections
  /\ socket' = [socket EXCEPT ![c] = "closing"]
  /\ UNCHANGED <<members, seat, meter, topics, rooms, told>>

(* The seats that handleClose frees when it is called for each of S: the    *)
(* entry stored under the member's own topic and peer id, whoever holds it. *)
SlipNothingFreed(S, t, p) == FALSE

Freed(S, t, p) == \E c \in S \cap members : seat[c] = [topic |-> t, peer |-> p]

SlipTopicKept(S, t, left) == FALSE

Abandoned(S, t, left) ==
  /\ \E p \in PeerIds : Freed(S, t, p)
  /\ \A p \in PeerIds : left[t][p] = NoConn

(* handleClose and removeFromTopic: forget the members, free their seats,   *)
(* tell those who stay, drop the topics left empty.  A send to a socket     *)
(* that is not open is dropped (server.ts).                                 *)
HandleClose(S) ==
  LET left == [t \in Topics |-> [p \in PeerIds |->
                 IF Freed(S, t, p) THEN NoConn ELSE rooms[t][p]]]
  IN  /\ members' = members \ S
      /\ seat' = [c \in Conns |-> IF c \in S THEN NoSeat ELSE seat[c]]
      /\ meter' = [c \in Conns |-> IF c \in S THEN Fresh ELSE meter[c]]
      /\ rooms' = left
      /\ topics' = topics \ {t \in Topics : Abandoned(S, t, left)}
      /\ told' = [c \in Conns |->
                    IF socket[c] = "open"
                    THEN told[c] \ {p \in PeerIds :
                           \E t \in Topics, q \in PeerIds :
                              Freed(S, t, p) /\ left[t][q] = c}
                    ELSE told[c]]

CloseFromHub(S) ==
  /\ socket' = [c \in Conns |-> IF c \in S THEN "closing" ELSE socket[c]]
  /\ HandleClose(S)

-----------------------------------------------------------------------------
(* handleMessage.  Messages of a connection that is no longer a member are  *)
(* ignored; every other one refreshes lastSeen before it is looked at.      *)
Heard(c) == c \in members /\ socket[c] = "open"

CountOf(c) == IF meter[c].window >= RateTicks THEN 1 ELSE meter[c].count + 1

Counted(c) == [idle   |-> 0,
               window |-> IF meter[c].window >= RateTicks THEN 0 ELSE meter[c].window,
               count  |-> CountOf(c)]

SlipNoRateLimit(c) == Heard(c)

Metered(c) == Heard(c) /\ CountOf(c) <= MaxMessages

(* Invalid JSON, and the rate-exempt signals: a lone ICE candidate and an   *)
(* encrypted data-relay frame.                                              *)
UncountedMessage(c) ==
  /\ Heard(c)
  /\ meter' = [meter EXCEPT ![c].idle = 0]
  /\ UNCHANGED <<socket, members, seat, topics, rooms, told>>

(* ping, an unknown type, a counted signal (relayed or refused), a join     *)
(* whose topic or peer id is malformed.                                     *)
CountedMessage(c) ==
  /\ Metered(c)
  /\ meter' = [meter EXCEPT ![c] = Counted(c)]
  /\ UNCHANGED <<socket, members, seat, topics, rooms, told>>

RateExceeded(c) ==
  /\ Heard(c)
  /\ CountOf(c) > MaxMessages
  /\ CloseFromHub({c})

Oversize(c) == Heard(c) /\ CloseFromHub({c})

(* onJoin, in the order of its checks: already_joined, topic_limit,         *)
(* room_full, then the stale membership of the same peer id.                *)
SlipRoomOffByOne(c, t) ==
  /\ seat[c].topic = NoTopic
  /\ t \in topics \/ Cardinality(topics) < MaxTopics
  /\ Cardinality(Seated(t)) <= MaxPeersPerTopic

Admits(c, t) ==
  /\ seat[c].topic = NoTopic
  /\ t \in topics \/ Cardinality(topics) < MaxTopics
  /\ Cardinality(Seated(t)) < MaxPeersPerTopic

JoinRefused(c, t, p) ==
  /\ Metered(c)
  /\ ~Admits(c, t)
  /\ meter' = [meter EXCEPT ![c] = Counted(c)]
  /\ UNCHANGED <<socket, members, seat, topics, rooms, told>>

(* The joiner is told the keys of the room before it is added; the others   *)
(* are told of it after.                                                    *)
TakeSeat(c, t, p) ==
  /\ rooms' = [rooms EXCEPT ![t][p] = c]
  /\ topics' = topics \cup {t}
  /\ told' = [o \in Conns |->
       CASE o = c -> Others(t, p)
         [] o # c /\ socket[o] = "open" /\ (\E q \in Others(t, p) : rooms[t][q] = o)
              -> told[o] \cup {p}
         [] OTHER -> told[o]]

JoinFree(c, t, p) ==
  /\ Metered(c)
  /\ Admits(c, t)
  /\ rooms[t][p] = NoConn
  /\ TakeSeat(c, t, p)
  /\ seat' = [seat EXCEPT ![c] = [topic |-> t, peer |-> p]]
  /\ meter' = [meter EXCEPT ![c] = Counted(c)]
  /\ UNCHANGED <<socket, members>>

SlipStaleMemberKept(c, t, p) ==
  /\ Metered(c) /\ Admits(c, t) /\ rooms[t][p] # NoConn
  /\ TakeSeat(c, t, p)
  /\ seat' = [seat EXCEPT ![c] = [topic |-> t, peer |-> p]]
  /\ meter' = [meter EXCEPT ![c] = Counted(c)]
  /\ UNCHANGED <<socket, members>>

(* The room still lists this peer id for an older connection: that one is   *)
(* forgotten and closed (4000 "replaced").  The others hear "leave", then   *)
(* "peer".                                                                  *)
JoinReplaces(c, t, p) ==
  LET previous == rooms[t][p]
  IN  /\ Metered(c)
      /\ Admits(c, t)
      /\ previous # NoConn
      /\ TakeSeat(c, t, p)
      /\ seat' = [seat EXCEPT ![previous] = NoSeat,
                              ![c] = [topic |-> t, peer |-> p]]
      /\ meter' = [meter EXCEPT ![previous] = Fresh, ![c] = Counted(c)]
      /\ members' = members \ {previous}
      /\ socket' = [socket EXCEPT ![previous] =
                      IF @ = "open" THEN "closing" ELSE @]

Join(c, t, p) ==
  JoinRefused(c, t, p) \/ JoinFree(c, t, p) \/ JoinReplaces(c, t, p)

-----------------------------------------------------------------------------
(* What a socket does on its own: it starts to close, it reports an error,  *)
(* its close completes.  "error" and "close" both call handleClose.         *)
SocketDrops(c) ==
  /\ socket[c] = "open"
  /\ socket' = [socket EXCEPT ![c] = "closing"]
  /\ UNCHANGED <<members, seat, meter, topics, rooms, told>>

(* An error may come late, when the hub has already closed and forgotten c. *)
SocketError(c) == socket[c] # "closed" /\ CloseFromHub({c})

SocketCloses(c) ==
  /\ socket[c] = "closing"
  /\ socket' = [socket EXCEPT ![c] = "closed"]
  /\ HandleClose({c})

Older(m) == [m EXCEPT !.idle   = IF @ < IdleCap THEN @ + 1 ELSE @,
                      !.window = IF @ < RateTicks THEN @ + 1 ELSE @]

Tick ==
  /\ meter' = [c \in Conns |->
       IF c \in members THEN Older(meter[c]) ELSE meter[c]]
  /\ UNCHANGED <<socket, members, seat, topics, rooms, told>>

(* sweepIdle, called by the server's interval timer.                        *)
IdleLimit(c) == IF seat[c].topic # NoTopic THEN JoinedIdleTicks ELSE IdleTicks
SlipJoinedNeverExpire ==
  {c \in members : seat[c].topic = NoTopic /\ meter[c].idle > IdleTicks}

Expired == {c \in members : meter[c].idle > IdleLimit(c)}

SweepIdle ==
  /\ Expired # {}
  /\ CloseFromHub(Expired)

Next ==
  \/ \E c \in Conns :
       \/ Connect(c) \/ RefuseConnection(c)
       \/ UncountedMessage(c) \/ CountedMessage(c)
       \/ RateExceeded(c) \/ Oversize(c)
       \/ \E t \in Topics, p \in PeerIds : Join(c, t, p)
       \/ SocketDrops(c) \/ SocketError(c) \/ SocketCloses(c)
  \/ Tick
  \/ SweepIdle

(* Time passes and the sweep timer fires; nothing is assumed of clients.    *)
Fairness == WF_vars(Tick) /\ WF_vars(SweepIdle)

Spec == Init /\ [][Next]_vars
FairSpec == Spec /\ Fairness

-----------------------------------------------------------------------------
TypeOK ==
  /\ socket \in [Conns -> {"open", "closing", "closed"}]
  /\ members \in SUBSET Conns
  /\ seat \in [Conns -> Seat]
  /\ meter \in [Conns -> Meter]
  /\ topics \in SUBSET Topics
  /\ rooms \in [Topics -> [PeerIds -> Conns \cup {NoConn}]]
  /\ told \in [Conns -> SUBSET PeerIds]

(* The two maps of the hub agree: a seat is held by exactly the connection  *)
(* that believes it sits there, and only members sit (hub.ts members and    *)
(* topics, updated apart in onJoin, handleClose and removeFromTopic).       *)
SeatsAgree ==
  \A t \in Topics, p \in PeerIds, c \in Conns :
    rooms[t][p] = c <=> c \in members /\ seat[c] = [topic |-> t, peer |-> p]

(* No topic outlives its last peer and no peer sits in a dropped topic, so  *)
(* abandoned rooms never use up maxTopics.                                  *)
TopicsAreOccupied == \A t \in Topics : t \in topics <=> Seated(t) # {}

(* Whatever sockets dropped, were replaced or swept, a client with an open  *)
(* socket has been told exactly who shares its room.                        *)
RosterAccurate ==
  \A c \in members : socket[c] = "open" =>
    /\ seat[c].topic = NoTopic => told[c] = {}
    /\ \A t \in Topics, p \in PeerIds :
          rooms[t][p] = c => told[c] = Seated(t) \ {p}

(* The limits of SignalingLimits hold of the maps they are meant to bound.  *)
WithinLimits ==
  /\ Cardinality(members) <= MaxConnections
  /\ Cardinality(topics) <= MaxTopics
  /\ \A t \in Topics : Cardinality(Seated(t)) <= MaxPeersPerTopic

(* A late close, error or sweep of one connection never takes the seat of   *)
(* another: a seat changes hands only when its holder has left the hub.     *)
SeatKeptWhileMember ==
  [][\A t \in Topics, p \in PeerIds :
        rooms[t][p] \in members' => rooms'[t][p] = rooms[t][p]]_vars

(* A connection that falls silent does not keep its seat for ever: it is    *)
(* heard again or the sweep removes it (idleMs, joinedIdleMs).              *)
SilentSeatsAreFreed ==
  \A c \in Conns :
    (c \in members /\ meter[c].idle = 1) ~> (c \notin members \/ meter[c].idle = 0)

(* hub.ts on the reconnect race: the stale membership is replaced "so the   *)
(* host stays in the room".  Whoever has yet to join and uses a peer id the *)
(* room still lists is let in.                                              *)
ReconnectIsAdmitted ==
  \A c \in members, t \in Topics, p \in PeerIds :
    seat[c].topic = NoTopic /\ rooms[t][p] # NoConn => Admits(c, t)
=============================================================================
