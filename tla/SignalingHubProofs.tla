------------------------- MODULE SignalingHubProofs -------------------------
(***************************************************************************)
(* What the signaling hub guarantees for any number of sockets, topics and *)
(* peer ids: its two maps agree, no abandoned topic is kept, and every     *)
(* connected client knows its room.                                        *)
(***************************************************************************)
EXTENDS SignalingHub, FiniteSetTheorems, TLAPS

(* A member is a connection whose socket has not finished closing: without  *)
(* it a reused id could be connected while it still holds a seat.           *)
MembersHaveSockets == \A c \in members : socket[c] # "closed"

HubInv == /\ TypeOK
          /\ MembersHaveSockets
          /\ SeatsAgree
          /\ TopicsAreOccupied
          /\ RosterAccurate

-----------------------------------------------------------------------------
(* Types.                                                                   *)

(* handleClose keeps the types of the maps it updates.                      *)
LEMMA HandleCloseTypes ==
  ASSUME TypeOK, NEW S \in SUBSET Conns, HandleClose(S)
  PROVE  /\ members' \in SUBSET Conns
         /\ seat' \in [Conns -> Seat]
         /\ meter' \in [Conns -> Meter]
         /\ topics' \in SUBSET Topics
         /\ rooms' \in [Topics -> [PeerIds -> Conns \cup {NoConn}]]
         /\ told' \in [Conns -> SUBSET PeerIds]
<1>1. NoSeat \in Seat BY DEF NoSeat, Seat
<1>2. Fresh \in Meter BY HubAssumption DEF Fresh, Meter, IdleCap
<1>. QED BY <1>1, <1>2 DEF TypeOK, HandleClose

(* A counted message leaves the meter within the rate limit.                *)
LEMMA CountedTypes ==
  ASSUME TypeOK, NEW c \in Conns, Metered(c)
  PROVE  Counted(c) \in Meter
BY HubAssumption DEF TypeOK, Metered, Counted, CountOf, Meter, IdleCap

(* An idle tick leaves the meter within its saturation.                     *)
LEMMA OlderTypes ==
  ASSUME NEW m \in Meter
  PROVE  Older(m) \in Meter
<1>1. IdleCap \in Nat /\ RateTicks \in Nat BY HubAssumption DEF IdleCap
<1>2. /\ m.idle \in 0..IdleCap /\ m.window \in 0..RateTicks
      /\ m.count \in 0..MaxMessages
      /\ m = [idle |-> m.idle, window |-> m.window, count |-> m.count]
  BY DEF Meter
<1>3. (IF m.idle < IdleCap THEN m.idle + 1 ELSE m.idle) \in 0..IdleCap
  BY <1>1, <1>2
<1>4. (IF m.window < RateTicks THEN m.window + 1 ELSE m.window) \in 0..RateTicks
  BY <1>1, <1>2
<1>. QED BY <1>2, <1>3, <1>4 DEF Older, Meter

(* Taking a seat keeps the types of the room and of what clients know.      *)
LEMMA TakeSeatTypes ==
  ASSUME TypeOK, NEW c \in Conns, NEW t \in Topics, NEW p \in PeerIds,
         TakeSeat(c, t, p)
  PROVE  /\ topics' \in SUBSET Topics
         /\ rooms' \in [Topics -> [PeerIds -> Conns \cup {NoConn}]]
         /\ told' \in [Conns -> SUBSET PeerIds]
BY DEF TypeOK, TakeSeat, Others, Seated

(* Every variable keeps its type.                                           *)
THEOREM HubTypes == Spec => []TypeOK
<1>1. Init => TypeOK
  BY HubAssumption DEF Init, TypeOK, NoSeat, Seat, Fresh, Meter, IdleCap
<1>2. TypeOK /\ [Next]_vars => TypeOK'
  <2> SUFFICES ASSUME TypeOK, [Next]_vars PROVE TypeOK' OBVIOUS
  <2>0. NoSeat \in Seat /\ Fresh \in Meter
    BY HubAssumption DEF NoSeat, Seat, Fresh, Meter, IdleCap
  <2>1. ASSUME NEW c \in Conns, Connect(c) PROVE TypeOK'
    BY <2>0, <2>1 DEF TypeOK, Connect
  <2>2. ASSUME NEW c \in Conns, RefuseConnection(c) PROVE TypeOK'
    BY <2>2 DEF TypeOK, RefuseConnection
  <2>3. ASSUME NEW c \in Conns, UncountedMessage(c) PROVE TypeOK'
    BY <2>3, HubAssumption DEF TypeOK, UncountedMessage, Heard, Meter, IdleCap
  <2>4. ASSUME NEW c \in Conns, CountedMessage(c) PROVE TypeOK'
    BY <2>4, CountedTypes DEF TypeOK, CountedMessage
  <2>5. ASSUME NEW S \in SUBSET Conns, CloseFromHub(S) PROVE TypeOK'
    BY <2>5, HandleCloseTypes DEF TypeOK, CloseFromHub
  <2>6. ASSUME NEW c \in Conns, SocketCloses(c) PROVE TypeOK'
    BY <2>6, HandleCloseTypes DEF TypeOK, SocketCloses
  <2>7. ASSUME NEW c \in Conns, SocketDrops(c) PROVE TypeOK'
    BY <2>7 DEF TypeOK, SocketDrops
  <2>8. ASSUME NEW c \in Conns, NEW t \in Topics, NEW p \in PeerIds, Join(c, t, p)
        PROVE TypeOK'
    <3>0. [topic |-> t, peer |-> p] \in Seat BY DEF Seat
    <3>1. CASE JoinRefused(c, t, p)
      BY <3>1, CountedTypes DEF TypeOK, JoinRefused
    <3>2. CASE JoinFree(c, t, p)
      BY <3>0, <3>2, CountedTypes, TakeSeatTypes DEF TypeOK, JoinFree
    <3>3. CASE JoinReplaces(c, t, p)
      BY <2>0, <3>0, <3>3, CountedTypes, TakeSeatTypes DEF TypeOK, JoinReplaces
    <3>. QED BY <2>8, <3>1, <3>2, <3>3 DEF Join
  <2>9. ASSUME Tick PROVE TypeOK'
    BY <2>9, OlderTypes DEF TypeOK, Tick
  <2>10. Expired \in SUBSET Conns BY DEF TypeOK, Expired
  <2>11. CASE UNCHANGED vars BY <2>11 DEF TypeOK, vars
  <2>. QED
    BY <2>1, <2>2, <2>3, <2>4, <2>5, <2>6, <2>7, <2>8, <2>9, <2>10, <2>11
       DEF Next, RateExceeded, Oversize, SocketError, SweepIdle
<1>. QED BY <1>1, <1>2, PTL DEF Spec

-----------------------------------------------------------------------------
(* The two maps and the rosters.                                            *)

(* A step that leaves the maps alone and opens no socket.                   *)
LEMMA QuietStep ==
  ASSUME HubInv, UNCHANGED <<members, seat, topics, rooms, told>>,
         \A c \in Conns : /\ socket'[c] = "open" => socket[c] = "open"
                          /\ c \in members => socket'[c] # "closed"
  PROVE  /\ MembersHaveSockets' /\ SeatsAgree'
         /\ TopicsAreOccupied' /\ RosterAccurate'
<1>1. MembersHaveSockets'
  BY DEF HubInv, TypeOK, MembersHaveSockets
<1>2. \A t \in Topics : Seated(t)' = Seated(t) BY DEF Seated
<1>3. SeatsAgree' /\ TopicsAreOccupied'
  BY <1>2 DEF HubInv, SeatsAgree, TopicsAreOccupied
<1>4. RosterAccurate'
  BY <1>2 DEF HubInv, TypeOK, RosterAccurate
<1>. QED BY <1>1, <1>3, <1>4

(* The seats freed by handleClose are those of the members that leave.      *)
LEMMA FreedSeats ==
  ASSUME HubInv, NEW S \in SUBSET Conns, HandleClose(S)
  PROVE  /\ \A t \in Topics, p \in PeerIds :
              /\ Freed(S, t, p) <=> rooms[t][p] \in S
              /\ rooms'[t][p] = IF Freed(S, t, p) THEN NoConn ELSE rooms[t][p]
         /\ \A t \in Topics : Seated(t)' = {p \in Seated(t) : ~Freed(S, t, p)}
<1>1. \A t \in Topics, p \in PeerIds : Freed(S, t, p) <=> rooms[t][p] \in S
  BY DEF HubInv, TypeOK, SeatsAgree, Freed
<1>2. \A t \in Topics, p \in PeerIds :
        rooms'[t][p] = IF Freed(S, t, p) THEN NoConn ELSE rooms[t][p]
  BY DEF HandleClose
<1>. QED BY <1>1, <1>2 DEF Seated

LEMMA CloseStep ==
  ASSUME HubInv, NEW S \in SUBSET Conns, HandleClose(S),
         \A c \in Conns \ S : socket'[c] = socket[c]
  PROVE  /\ MembersHaveSockets' /\ SeatsAgree'
         /\ TopicsAreOccupied' /\ RosterAccurate'
<1>1. MembersHaveSockets'
  BY DEF HubInv, TypeOK, MembersHaveSockets, HandleClose
<1>3. SeatsAgree'
  <2> SUFFICES ASSUME NEW t \in Topics, NEW p \in PeerIds, NEW c \in Conns
               PROVE  rooms'[t][p] = c <=>
                        c \in members' /\ seat'[c] = [topic |-> t, peer |-> p]
    BY DEF SeatsAgree
  <2>1. members' = members \ S /\ (c \notin S => seat'[c] = seat[c])
    BY DEF HandleClose
  <2>2. rooms[t][p] = c <=> c \in members /\ seat[c] = [topic |-> t, peer |-> p]
    BY DEF HubInv, SeatsAgree
  <2>3. rooms'[t][p] = c <=> rooms[t][p] = c /\ c \notin S
    BY FreedSeats, HubAssumption
  <2>. QED BY <2>1, <2>2, <2>3
<1>4. TopicsAreOccupied'
  <2> SUFFICES ASSUME NEW t \in Topics
               PROVE  t \in topics' <=> Seated(t)' # {}
    BY DEF TopicsAreOccupied
  <2> DEFINE left == [u \in Topics |-> [q \in PeerIds |->
                        IF Freed(S, u, q) THEN NoConn ELSE rooms[u][q]]]
  <2>1. topics' = topics \ {u \in Topics : Abandoned(S, u, left)}
    BY DEF HandleClose
  <2>2. Abandoned(S, t, left) <=>
          (\E p \in PeerIds : Freed(S, t, p)) /\ Seated(t)' = {}
    BY FreedSeats DEF Abandoned, Seated
  <2>3. t \in topics <=> Seated(t) # {} BY DEF HubInv, TopicsAreOccupied
  <2>4. Seated(t)' = {p \in Seated(t) : ~Freed(S, t, p)} BY FreedSeats
  <2>5. \A p \in PeerIds : Freed(S, t, p) => p \in Seated(t)
    BY FreedSeats, HubAssumption DEF Seated
  <2>. QED BY <2>1, <2>2, <2>3, <2>4, <2>5 DEF Seated
<1>5. RosterAccurate'
  <2> SUFFICES ASSUME NEW c \in members', socket'[c] = "open"
               PROVE  /\ seat'[c].topic = NoTopic => told'[c] = {}
                      /\ \A t \in Topics, p \in PeerIds :
                           rooms'[t][p] = c => told'[c] = Seated(t)' \ {p}
    BY DEF RosterAccurate
  <2>1. c \in members /\ c \in Conns /\ c \notin S /\ seat'[c] = seat[c]
        /\ socket[c] = "open"
    BY DEF HubInv, TypeOK, HandleClose
  <2>2. told'[c] = told[c] \ {p \in PeerIds :
                      \E t \in Topics, q \in PeerIds :
                         Freed(S, t, p) /\ rooms'[t][q] = c}
    BY <2>1 DEF HandleClose
  <2>3. seat'[c].topic = NoTopic => told'[c] = {}
    BY <2>1, <2>2 DEF HubInv, RosterAccurate
  <2>4. ASSUME NEW t \in Topics, NEW p \in PeerIds, rooms'[t][p] = c
        PROVE  told'[c] = Seated(t)' \ {p}
    <3>1. rooms[t][p] = c BY <2>1, <2>4, FreedSeats, HubAssumption
    <3>2. told[c] = Seated(t) \ {p}
      BY <2>1, <3>1 DEF HubInv, RosterAccurate
    <3>3. seat'[c] = [topic |-> t, peer |-> p]
      BY <1>3, <2>1, <2>4 DEF SeatsAgree
    <3>4. \A u \in Topics, q \in PeerIds : rooms'[u][q] = c => u = t
      <4> TAKE u \in Topics, q \in PeerIds
      <4> HAVE rooms'[u][q] = c
      <4>1. seat'[c] = [topic |-> u, peer |-> q] BY <1>3, <2>1 DEF SeatsAgree
      <4>. QED BY <3>3, <4>1
    <3>5. told'[c] = told[c] \ {q \in PeerIds : Freed(S, t, q)}
      BY <2>2, <2>4, <3>4
    <3>6. Seated(t)' = {q \in Seated(t) : ~Freed(S, t, q)} BY FreedSeats
    <3>. QED BY <3>2, <3>5, <3>6 DEF Seated
  <2>. QED BY <2>3, <2>4
<1>. QED BY <1>1, <1>3, <1>4, <1>5

(* Both ways of joining a room: the seat is taken from its previous holder, *)
(* if it has one, who leaves the hub.                                       *)
LEMMA JoinStep ==
  ASSUME HubInv, NEW c \in Conns, NEW t \in Topics, NEW p \in PeerIds,
         Heard(c), seat[c].topic = NoTopic, TakeSeat(c, t, p),
         members' = members \ {rooms[t][p]},
         \A o \in Conns : seat'[o] = IF o = c THEN [topic |-> t, peer |-> p]
                                     ELSE IF o = rooms[t][p] THEN NoSeat
                                     ELSE seat[o],
         \A o \in Conns \ {rooms[t][p]} : socket'[o] = socket[o]
  PROVE  /\ MembersHaveSockets' /\ SeatsAgree'
         /\ TopicsAreOccupied' /\ RosterAccurate'
<1>1. c \in members /\ c # rooms[t][p] /\ socket[c] = "open"
  BY HubAssumption DEF HubInv, SeatsAgree, Heard
<1>2. MembersHaveSockets'
  BY DEF HubInv, TypeOK, MembersHaveSockets
<1>3. /\ rooms'[t][p] = c
      /\ \A u \in Topics, q \in PeerIds :
           u # t \/ q # p => rooms'[u][q] = rooms[u][q]
  BY DEF HubInv, TypeOK, TakeSeat
<1>4. SeatsAgree'
  <2> SUFFICES ASSUME NEW u \in Topics, NEW q \in PeerIds, NEW o \in Conns
               PROVE  rooms'[u][q] = o <=>
                        o \in members' /\ seat'[o] = [topic |-> u, peer |-> q]
    BY DEF SeatsAgree
  <2>1. rooms[u][q] = o <=> o \in members /\ seat[o] = [topic |-> u, peer |-> q]
    BY DEF HubInv, SeatsAgree
  <2>2. rooms[t][p] = o <=> o \in members /\ seat[o] = [topic |-> t, peer |-> p]
    BY DEF HubInv, SeatsAgree
  <2>3. CASE u = t /\ q = p
    BY <1>1, <1>3, <2>2, <2>3, HubAssumption DEF NoSeat
  <2>4. CASE u # t \/ q # p
    <3>1. rooms'[u][q] = rooms[u][q] BY <1>3, <2>4
    <3>2. CASE o = c
      BY <2>1, <2>4, <3>1, <3>2, HubAssumption
    <3>3. CASE o # c /\ o = rooms[t][p]
      BY <2>1, <2>2, <2>4, <3>1, <3>3
    <3>4. CASE o # c /\ o # rooms[t][p]
      BY <2>1, <3>1, <3>4
    <3>. QED BY <3>2, <3>3, <3>4
  <2>. QED BY <2>3, <2>4
<1>5. /\ Seated(t)' = Seated(t) \cup {p}
      /\ \A u \in Topics : u # t => Seated(u)' = Seated(u)
  BY <1>3, HubAssumption DEF Seated
<1>6. TopicsAreOccupied'
  <2>1. topics' = topics \cup {t} BY DEF TakeSeat
  <2>. QED BY <1>5, <2>1 DEF HubInv, TopicsAreOccupied
<1>7. RosterAccurate'
  <2> SUFFICES ASSUME NEW o \in members', socket'[o] = "open"
               PROVE  /\ seat'[o].topic = NoTopic => told'[o] = {}
                      /\ \A u \in Topics, q \in PeerIds :
                           rooms'[u][q] = o => told'[o] = Seated(u)' \ {q}
    BY DEF RosterAccurate
  <2>1. CASE o = c
    <3>1. told'[o] = Seated(t) \ {p} BY <2>1 DEF TakeSeat, Others
    <3>2. seat'[o] = [topic |-> t, peer |-> p] BY <2>1
    <3>3. \A u \in Topics, q \in PeerIds : rooms'[u][q] = o => u = t /\ q = p
      <4> TAKE u \in Topics, q \in PeerIds
      <4> HAVE rooms'[u][q] = o
      <4>1. seat'[o] = [topic |-> u, peer |-> q] BY <1>4, <2>1 DEF SeatsAgree
      <4>. QED BY <3>2, <4>1
    <3>. QED BY <1>5, <3>1, <3>2, <3>3, HubAssumption
  <2>2. CASE o # c
    <3>1. o \in members /\ o \in Conns /\ o # rooms[t][p]
      BY DEF HubInv, TypeOK
    <3>2. socket[o] = "open" /\ seat'[o] = seat[o] BY <2>2, <3>1
    <3>3. told'[o] = IF \E q \in Others(t, p) : rooms[t][q] = o
                     THEN told[o] \cup {p} ELSE told[o]
      BY <2>2, <3>1, <3>2 DEF TakeSeat
    <3>4. ASSUME seat'[o].topic = NoTopic PROVE told'[o] = {}
      <4>1. \A q \in PeerIds : rooms[t][q] # o
        <5> SUFFICES ASSUME NEW q \in PeerIds, rooms[t][q] = o PROVE FALSE
          OBVIOUS
        <5>1. seat[o] = [topic |-> t, peer |-> q]
          BY <3>1 DEF HubInv, SeatsAgree
        <5>. QED BY <3>2, <3>4, <5>1, HubAssumption
      <4>2. told[o] = {} BY <3>1, <3>2, <3>4 DEF HubInv, RosterAccurate
      <4>. QED BY <3>3, <4>1, <4>2 DEF Others, Seated
    <3>5. ASSUME NEW u \in Topics, NEW q \in PeerIds, rooms'[u][q] = o
          PROVE  told'[o] = Seated(u)' \ {q}
      <4>1. (u # t \/ q # p) /\ rooms[u][q] = o BY <1>3, <2>2, <3>5
      <4>2. told[o] = Seated(u) \ {q}
        BY <3>1, <3>2, <4>1 DEF HubInv, RosterAccurate
      <4>3. seat[o] = [topic |-> u, peer |-> q]
        BY <3>1, <4>1 DEF HubInv, SeatsAgree
      <4>4. CASE u = t
        <5>1. q \in Others(t, p)
          BY <3>1, <4>1, <4>4, HubAssumption DEF Others, Seated
        <5>. QED BY <1>5, <3>3, <4>1, <4>2, <4>4, <5>1
      <4>5. CASE u # t
        <5>1. \A r \in PeerIds : rooms[t][r] # o
          <6> SUFFICES ASSUME NEW r \in PeerIds, rooms[t][r] = o PROVE FALSE
            OBVIOUS
          <6>1. seat[o] = [topic |-> t, peer |-> r]
            BY <3>1 DEF HubInv, SeatsAgree
          <6>. QED BY <4>3, <4>5, <6>1
        <5>. QED BY <1>5, <3>3, <4>2, <4>5, <5>1 DEF Others, Seated
      <4>. QED BY <4>4, <4>5
    <3>. QED BY <3>4, <3>5
  <2>. QED BY <2>1, <2>2
<1>. QED BY <1>2, <1>4, <1>6, <1>7

(* How Next is built: every step is quiet, closes connections or seats one. *)
LEMMA HubStep ==
  ASSUME HubInv, [Next]_vars
  PROVE  /\ MembersHaveSockets' /\ SeatsAgree'
         /\ TopicsAreOccupied' /\ RosterAccurate'
<1> USE DEF HubInv
<1>1. ASSUME NEW c \in Conns, Connect(c)
      PROVE  /\ MembersHaveSockets' /\ SeatsAgree'
             /\ TopicsAreOccupied' /\ RosterAccurate'
  <2>1. c \notin members /\ c \in Conns
    BY <1>1 DEF Connect, MembersHaveSockets
  <2>2. \A t \in Topics, p \in PeerIds : rooms[t][p] # c
    BY <2>1 DEF SeatsAgree
  <2>3. MembersHaveSockets'
    BY <1>1, <2>1 DEF Connect, MembersHaveSockets, TypeOK
  <2>4. seat'[c] = NoSeat /\ told'[c] = {} /\ rooms' = rooms
        /\ \A o \in Conns : o # c => /\ seat'[o] = seat[o] /\ told'[o] = told[o]
                                    /\ socket'[o] = socket[o]
                                    /\ (o \in members' <=> o \in members)
    BY <1>1, <2>1 DEF Connect, TypeOK
  <2>5. SeatsAgree'
    <3> SUFFICES ASSUME NEW t \in Topics, NEW p \in PeerIds, NEW o \in Conns
                 PROVE  rooms'[t][p] = o <=>
                          o \in members' /\ seat'[o] = [topic |-> t, peer |-> p]
      BY DEF SeatsAgree
    <3>1. CASE o = c BY <2>2, <2>4, <3>1, HubAssumption DEF NoSeat
    <3>2. CASE o # c BY <2>4, <3>2 DEF SeatsAgree
    <3>. QED BY <3>1, <3>2
  <2>6. \A t \in Topics : Seated(t)' = Seated(t) BY <2>4 DEF Seated
  <2>7. TopicsAreOccupied'
    BY <1>1, <2>6 DEF TopicsAreOccupied, Connect
  <2>8. RosterAccurate'
    BY <1>1, <2>2, <2>4, <2>6 DEF RosterAccurate, Connect, TypeOK
  <2>. QED BY <2>3, <2>5, <2>7, <2>8
<1>2. ASSUME NEW S \in SUBSET Conns, CloseFromHub(S)
      PROVE  /\ MembersHaveSockets' /\ SeatsAgree'
             /\ TopicsAreOccupied' /\ RosterAccurate'
  <2>1. \A c \in Conns \ S : socket'[c] = socket[c]
    BY <1>2 DEF CloseFromHub
  <2>. QED BY <1>2, <2>1, CloseStep DEF CloseFromHub
<1>3. ASSUME NEW c \in Conns, SocketCloses(c)
      PROVE  /\ MembersHaveSockets' /\ SeatsAgree'
             /\ TopicsAreOccupied' /\ RosterAccurate'
  <2>1. \A o \in Conns \ {c} : socket'[o] = socket[o]
    BY <1>3 DEF SocketCloses, TypeOK
  <2>. QED BY <1>3, <2>1, CloseStep DEF SocketCloses
<1>4. ASSUME NEW c \in Conns,
             \/ RefuseConnection(c) \/ UncountedMessage(c) \/ CountedMessage(c)
             \/ SocketDrops(c)
             \/ \E t \in Topics, p \in PeerIds : JoinRefused(c, t, p)
      PROVE  /\ MembersHaveSockets' /\ SeatsAgree'
             /\ TopicsAreOccupied' /\ RosterAccurate'
  <2>1. UNCHANGED <<members, seat, topics, rooms, told>>
    BY <1>4 DEF RefuseConnection, UncountedMessage, CountedMessage, SocketDrops,
                JoinRefused
  <2>2. \A o \in Conns : /\ socket'[o] = "open" => socket[o] = "open"
                         /\ o \in members => socket'[o] # "closed"
    BY <1>4 DEF RefuseConnection, UncountedMessage, CountedMessage, SocketDrops,
                JoinRefused, TypeOK, MembersHaveSockets
  <2>. QED BY <2>1, <2>2, QuietStep
<1>5. ASSUME Tick \/ UNCHANGED vars
      PROVE  /\ MembersHaveSockets' /\ SeatsAgree'
             /\ TopicsAreOccupied' /\ RosterAccurate'
  BY <1>5, QuietStep DEF Tick, vars, MembersHaveSockets, TypeOK
<1>6. ASSUME NEW c \in Conns, NEW t \in Topics, NEW p \in PeerIds, JoinFree(c, t, p)
      PROVE  /\ MembersHaveSockets' /\ SeatsAgree'
             /\ TopicsAreOccupied' /\ RosterAccurate'
  <2>1. \A o \in Conns : o # rooms[t][p] BY <1>6, HubAssumption DEF JoinFree
  <2>2. members' = members \ {rooms[t][p]}
    BY <1>6, <2>1 DEF JoinFree, TypeOK
  <2>3. \A o \in Conns : seat'[o] = IF o = c THEN [topic |-> t, peer |-> p]
                                    ELSE seat[o]
    BY <1>6 DEF JoinFree, TypeOK
  <2>4. socket' = socket BY <1>6 DEF JoinFree
  <2>. QED BY <1>6, <2>1, <2>2, <2>3, <2>4, JoinStep DEF JoinFree, Admits, Metered
<1>7. ASSUME NEW c \in Conns, NEW t \in Topics, NEW p \in PeerIds,
             JoinReplaces(c, t, p)
      PROVE  /\ MembersHaveSockets' /\ SeatsAgree'
             /\ TopicsAreOccupied' /\ RosterAccurate'
  <2>1. rooms[t][p] \in Conns BY <1>7 DEF JoinReplaces, TypeOK
  <2>2. members' = members \ {rooms[t][p]} BY <1>7 DEF JoinReplaces
  <2>3. \A o \in Conns : seat'[o] = IF o = c THEN [topic |-> t, peer |-> p]
                                    ELSE IF o = rooms[t][p] THEN NoSeat
                                    ELSE seat[o]
    BY <1>7, <2>1 DEF JoinReplaces, TypeOK
  <2>4. \A o \in Conns \ {rooms[t][p]} : socket'[o] = socket[o]
    BY <1>7 DEF JoinReplaces, TypeOK
  <2>. QED BY <1>7, <2>2, <2>3, <2>4, JoinStep DEF JoinReplaces, Admits, Metered
<1>8. Expired \in SUBSET Conns BY DEF TypeOK, Expired
<1>. QED
  BY <1>1, <1>2, <1>3, <1>4, <1>5, <1>6, <1>7, <1>8
     DEF Next, Join, RateExceeded, Oversize, SocketError, SweepIdle

(* The invariant of the hub.                                                *)
THEOREM HubInvariant == Spec => []HubInv
<1>1. Init => HubInv
  <2> SUFFICES ASSUME Init PROVE HubInv OBVIOUS
  <2>1. TypeOK
    BY HubAssumption DEF Init, TypeOK, NoSeat, Seat, Fresh, Meter, IdleCap
  <2>2. \A t \in Topics : Seated(t) = {} BY DEF Init, Seated
  <2>. QED
    BY <2>1, <2>2, HubAssumption
       DEF Init, HubInv, MembersHaveSockets, SeatsAgree, TopicsAreOccupied,
           RosterAccurate
<1>2. TypeOK' /\ HubInv /\ [Next]_vars => HubInv'
  BY HubStep DEF HubInv
<1>3. Spec => []TypeOK BY HubTypes
<1>. QED BY <1>1, <1>2, <1>3, PTL DEF Spec

(* hub.members and hub.topics agree in every reachable state.               *)
THEOREM HubSeatsAgree == Spec => []SeatsAgree
<1>1. HubInv => SeatsAgree BY DEF HubInv
<1>. QED BY <1>1, HubInvariant, PTL

(* No empty topic is kept and no occupied one is forgotten.                 *)
THEOREM HubTopicsAreOccupied == Spec => []TopicsAreOccupied
<1>1. HubInv => TopicsAreOccupied BY DEF HubInv
<1>. QED BY <1>1, HubInvariant, PTL

(* Every client with an open socket has been told exactly who shares its    *)
(* room.                                                                    *)
THEOREM HubRosterAccurate == Spec => []RosterAccurate
<1>1. HubInv => RosterAccurate BY DEF HubInv
<1>. QED BY <1>1, HubInvariant, PTL

-----------------------------------------------------------------------------
(* Limits.                                                                  *)

LimitInv == /\ IsFiniteSet(members) /\ IsFiniteSet(topics)
            /\ \A t \in Topics : IsFiniteSet(Seated(t))
            /\ WithinLimits

(* Losing members, topics and seats keeps the limits.                       *)
LEMMA FewerWithinLimits ==
  ASSUME HubInv, LimitInv, members' \subseteq members, topics' \subseteq topics,
         \A t \in Topics : Seated(t)' \subseteq Seated(t)
  PROVE  LimitInv'
<1>1. IsFiniteSet(members') /\ Cardinality(members') <= Cardinality(members)
      /\ Cardinality(members') \in Nat /\ Cardinality(members) \in Nat
  BY FS_Subset, FS_CardinalityType DEF LimitInv
<1>2. IsFiniteSet(topics') /\ Cardinality(topics') <= Cardinality(topics)
      /\ Cardinality(topics') \in Nat /\ Cardinality(topics) \in Nat
  BY FS_Subset, FS_CardinalityType DEF LimitInv
<1>3. ASSUME NEW t \in Topics
      PROVE  /\ IsFiniteSet(Seated(t)')
             /\ Cardinality(Seated(t)') <= MaxPeersPerTopic
  <2>1. IsFiniteSet(Seated(t)')
        /\ Cardinality(Seated(t)') <= Cardinality(Seated(t))
        /\ Cardinality(Seated(t)') \in Nat /\ Cardinality(Seated(t)) \in Nat
    BY FS_Subset, FS_CardinalityType DEF LimitInv
  <2>. QED BY <2>1, HubAssumption DEF LimitInv, WithinLimits
<1>4. IsFiniteSet(members') /\ IsFiniteSet(topics')
      /\ Cardinality(members') <= MaxConnections
      /\ Cardinality(topics') <= MaxTopics
  BY <1>1, <1>2, HubAssumption DEF LimitInv, WithinLimits
<1>. QED BY <1>3, <1>4 DEF LimitInv, WithinLimits

(* A set with room for one more takes one more.                             *)
LEMMA RoomForOne ==
  ASSUME NEW S, NEW x, NEW n \in Nat, IsFiniteSet(S), Cardinality(S) <= n,
         x \in S \/ Cardinality(S) < n
  PROVE  IsFiniteSet(S \cup {x}) /\ Cardinality(S \cup {x}) <= n
<1>1. Cardinality(S) \in Nat BY FS_CardinalityType
<1>2. CASE x \in S
  <2>1. S \cup {x} = S BY <1>2
  <2>. QED BY <2>1
<1>3. CASE x \notin S
  <2>1. IsFiniteSet(S \cup {x}) /\ Cardinality(S \cup {x}) = Cardinality(S) + 1
    BY <1>3, FS_AddElement
  <2>. QED BY <1>1, <1>3, <2>1
<1>. QED BY <1>2, <1>3

(* A joiner that is admitted fits.                                          *)
LEMMA JoinWithinLimits ==
  ASSUME HubInv, LimitInv, NEW c \in Conns, NEW t \in Topics, NEW p \in PeerIds,
         Admits(c, t), TakeSeat(c, t, p), members' \subseteq members
  PROVE  LimitInv'
<1>1. MaxTopics \in Nat /\ MaxPeersPerTopic \in Nat /\ MaxConnections \in Nat
  BY HubAssumption
<1>2. IsFiniteSet(topics') /\ Cardinality(topics') <= MaxTopics
  BY <1>1, RoomForOne DEF LimitInv, WithinLimits, Admits, TakeSeat
<1>3. Seated(t)' = Seated(t) \cup {p}
      /\ \A u \in Topics : u # t => Seated(u)' = Seated(u)
  BY HubAssumption DEF Seated, TakeSeat, HubInv, TypeOK
<1>4. Cardinality(Seated(t)) < MaxPeersPerTopic
      /\ IsFiniteSet(Seated(t)) /\ Cardinality(Seated(t)) <= MaxPeersPerTopic
  BY DEF Admits, LimitInv, WithinLimits
<1>5. IsFiniteSet(Seated(t) \cup {p})
      /\ Cardinality(Seated(t) \cup {p}) <= MaxPeersPerTopic
  BY <1>1, <1>4, RoomForOne
<1>6. \A u \in Topics : IsFiniteSet(Seated(u)')
                        /\ Cardinality(Seated(u)') <= MaxPeersPerTopic
  BY <1>3, <1>5 DEF LimitInv, WithinLimits
<1>7. IsFiniteSet(members') /\ Cardinality(members') <= MaxConnections
  <2>1. IsFiniteSet(members') /\ Cardinality(members') <= Cardinality(members)
        /\ Cardinality(members') \in Nat /\ Cardinality(members) \in Nat
    BY FS_Subset, FS_CardinalityType DEF LimitInv
  <2>. QED BY <1>1, <2>1 DEF LimitInv, WithinLimits
<1>. QED BY <1>2, <1>6, <1>7 DEF LimitInv, WithinLimits

(* The limits bound the maps, also when a stale membership is replaced.     *)
THEOREM HubWithinLimits == Spec => []WithinLimits
<1>1. Init => LimitInv
  <2> SUFFICES ASSUME Init PROVE LimitInv OBVIOUS
  <2>1. members = {} /\ topics = {} /\ \A t \in Topics : Seated(t) = {}
    BY DEF Init, Seated
  <2>. QED
    BY <2>1, FS_EmptySet, HubAssumption DEF LimitInv, WithinLimits
<1>2. HubInv /\ LimitInv /\ [Next]_vars => LimitInv'
  <2> SUFFICES ASSUME HubInv, LimitInv, [Next]_vars PROVE LimitInv' OBVIOUS
  <2>1. ASSUME NEW c \in Conns, Connect(c) PROVE LimitInv'
    <3>1. IsFiniteSet(members') /\ Cardinality(members') <= MaxConnections
      BY <2>1, RoomForOne, HubAssumption DEF Connect, LimitInv, WithinLimits
    <3>2. topics' = topics /\ \A t \in Topics : Seated(t)' = Seated(t)
      BY <2>1 DEF Connect, Seated
    <3>. QED BY <3>1, <3>2 DEF LimitInv, WithinLimits
  <2>2. ASSUME NEW S \in SUBSET Conns, HandleClose(S) PROVE LimitInv'
    <3>1. members' \subseteq members /\ topics' \subseteq topics
      BY <2>2 DEF HandleClose
    <3>2. \A t \in Topics : Seated(t)' \subseteq Seated(t)
      BY <2>2, FreedSeats
    <3>. QED BY <3>1, <3>2, FewerWithinLimits
  <2>3. ASSUME UNCHANGED <<members, topics, rooms>> PROVE LimitInv'
    BY <2>3, FewerWithinLimits DEF Seated
  <2>4. ASSUME NEW c \in Conns, NEW t \in Topics, NEW p \in PeerIds, Join(c, t, p)
        PROVE LimitInv'
    <3>1. CASE JoinRefused(c, t, p) BY <2>3, <3>1 DEF JoinRefused
    <3>2. CASE JoinFree(c, t, p)
      BY <3>2, JoinWithinLimits DEF JoinFree
    <3>3. CASE JoinReplaces(c, t, p)
      BY <3>3, JoinWithinLimits DEF JoinReplaces
    <3>. QED BY <2>4, <3>1, <3>2, <3>3 DEF Join
  <2>5. Expired \in SUBSET Conns BY DEF HubInv, TypeOK, Expired
  <2>. QED
    BY <2>1, <2>2, <2>3, <2>4, <2>5
       DEF Next, vars, RefuseConnection, UncountedMessage, CountedMessage,
           RateExceeded, Oversize, SocketDrops, SocketError, SocketCloses, Tick,
           SweepIdle, CloseFromHub
<1>3. LimitInv => WithinLimits BY DEF LimitInv
<1>. QED BY <1>1, <1>2, <1>3, HubInvariant, PTL DEF Spec

-----------------------------------------------------------------------------
(* Seats.                                                                   *)

(* A late close, error, sweep or join of one connection never takes the     *)
(* seat of another that stays a member.                                     *)
THEOREM HubSeatKept == Spec => SeatKeptWhileMember
<1> DEFINE Kept == \A t \in Topics, p \in PeerIds :
                     rooms[t][p] \in members' => rooms'[t][p] = rooms[t][p]
<1>1. HubInv /\ HubInv' /\ [Next]_vars => [Kept]_vars
  <2> SUFFICES ASSUME HubInv, HubInv', [Next]_vars,
                      NEW t \in Topics, NEW p \in PeerIds, rooms[t][p] \in members'
               PROVE  rooms'[t][p] = rooms[t][p]
    OBVIOUS
  <2> DEFINE c == rooms[t][p]
  <2>1. c \in Conns BY DEF HubInv, TypeOK
  <2>2. c \in members /\ seat[c] = [topic |-> t, peer |-> p]
    BY <2>1 DEF HubInv, SeatsAgree
  <2>3. SUFFICES seat'[c] = seat[c]
    BY <2>1, <2>2, <2>3 DEF HubInv, SeatsAgree
  <2>4. ASSUME NEW d \in Conns, Connect(d) PROVE seat'[c] = seat[c]
    BY <2>1, <2>2, <2>4 DEF Connect, HubInv, TypeOK, MembersHaveSockets
  <2>5. ASSUME NEW S \in SUBSET Conns, HandleClose(S) PROVE seat'[c] = seat[c]
    BY <2>1, <2>5 DEF HandleClose
  <2>6. ASSUME NEW d \in Conns, NEW u \in Topics, NEW q \in PeerIds, Join(d, u, q)
        PROVE seat'[c] = seat[c]
    <3>1. ASSUME Admits(d, u) PROVE d # c
      BY <2>2, <3>1, HubAssumption DEF Admits
    <3>. QED
      BY <2>1, <2>6, <3>1
         DEF Join, JoinRefused, JoinFree, JoinReplaces, HubInv, TypeOK
  <2>7. Expired \in SUBSET Conns BY DEF HubInv, TypeOK, Expired
  <2>. QED
    BY <2>4, <2>5, <2>6, <2>7
       DEF Next, vars, RefuseConnection, UncountedMessage, CountedMessage,
           RateExceeded, Oversize, SocketDrops, SocketError, SocketCloses, Tick,
           SweepIdle, CloseFromHub
<1>. QED BY <1>1, HubInvariant, PTL DEF Spec, SeatKeptWhileMember
=============================================================================
