------------------------------ MODULE PeerLink ------------------------------
(***************************************************************************)
(* Two clients of a room that reach each other through the signaling hub   *)
(* and, once it opens, through a data channel (packages/collab-webrtc:     *)
(* webrtc-transport.ts and, on top of it, provider.ts; the automatic       *)
(* reconnection of collab-session.ts).  Every wire goes over the channel   *)
(* if it is open and is relayed by the hub if it is not, so the same two   *)
(* documents are kept equal over a path that changes under way.            *)
(*                                                                         *)
(* The hub (SignalingHub) forwards at once, and a task the provider queues *)
(* runs at once.  ICE is what connects a channel, or does not.  Wires of   *)
(* presence, and the framing of long wires, are left out.                  *)
(***************************************************************************)
EXTENDS Integers, Sequences, FiniteSets

CONSTANTS
    Peers,       \* participant ids
    Writers,     \* those of them who edit
    MaxEdits,    \* bound on the edits each of these makes
    MaxRetries,  \* MAX_OFFER_RETRIES
    MaxOffers,   \* bound on the offers after which a peer still offers again
    MaxTries,    \* MAX_SIGNALING_AUTO_RECONNECTS
    MaxTrouble   \* bound on the sockets lost, channels that fail and clients that leave

ASSUME LinkAssumption ==
    /\ Peers \subseteq Nat /\ Writers \subseteq Peers
    /\ {MaxEdits, MaxRetries, MaxOffers, MaxTries, MaxTrouble} \subseteq Nat

VARIABLES
    net,      \* the socket of each peer; "off" when nothing tries to reconnect it
    tries,    \* signalingAutoReconnects
    room,     \* who is a member, as the hub sees it
    mail,     \* what the hub has sent each peer
    link,     \* what the transport of a peer knows of another
    made,     \* how many offers a peer has made another
    up,       \* the data channels that connect their two ends
    pipe,     \* the wires under way from a peer to another on their channel
    has,      \* the edits in each peer's document
    gaps,     \* <<p, q>>: a channel died with something of p's that q needs
    trouble   \* how much went wrong so far

docVars == <<has, gaps>>
vars == <<net, tries, room, mail, link, made, up, pipe, docVars, trouble>>

NoChan == <<>>

\* known: signalingRoster; open: openedPeers; the rest is the PeerEntry with its
\* channel, offerRetries and offerRetryTimers.  An entry is "offering" until its
\* offer is sent, "offered" until the answer comes, "answering" until the answer
\* is sent; then it is "paired", or "stuck" with the answer to another offer.
\* "zombie" is an entry made for an answer nobody waited for.
NoLink == [known |-> FALSE, open |-> FALSE, stage |-> "none", chan |-> NoChan,
           retries |-> 0, timer |-> FALSE]

Stages == {"none", "offering", "offered", "answering", "paired", "stuck", "zombie", "open"}

Silence == [q \in Peers |-> <<>>]

Init ==
    /\ net = [p \in Peers |-> "connecting"] /\ tries = [p \in Peers |-> 0]
    /\ room = {} /\ mail = Silence
    /\ link = [p \in Peers |-> [q \in Peers |-> NoLink]]
    /\ made = [p \in Peers |-> [q \in Peers |-> 0]]
    /\ up = {} /\ pipe = [p \in Peers |-> Silence]
    /\ has = [p \in Peers |-> {}] /\ gaps = {}
    /\ trouble = 0

-----------------------------------------------------------------------------
(* The documents.  An edit of an author whose earlier ones are missing is   *)
(* kept and does not show; the state vector counts what shows.              *)
Shown(edits) == {e \in edits : \A n \in 1..e[2] : <<e[1], n>> \in edits}

AsksFor(p) == [kind |-> "step1", edits |-> Shown(has[p])]
Answers(p, w) == [kind |-> "step2", edits |-> has[p] \ w.edits]
Update(e) == [kind |-> "update", edits |-> {e}]

\* What is missing where when a wire from p to q is lost: its edits, or the
\* answer it asks for.
Gap(p, q, w) == IF w.kind = "step1" THEN <<q, p>> ELSE <<p, q>>

-----------------------------------------------------------------------------
(* Pieces of the transport, on one link l.                                  *)
HasEntry(l) == l.stage # "none"

\* teardownPc
TornDown(l) ==
    IF HasEntry(l) THEN [l EXCEPT !.stage = "none", !.chan = NoChan, !.timer = FALSE] ELSE l

\* activateSignalRelay
Relayed(l) == IF l.known /\ l.stage # "open" THEN [l EXCEPT !.open = TRUE] ELSE l

\* forgetPeer
SlipStaysOpen(l) == TornDown(l)

Forgotten(l) == [TornDown(l) EXCEPT !.open = FALSE]

\* scheduleOfferRetry
SlipRetriesForever(l) == [l EXCEPT !.timer = l.known]

Armed(l) == [l EXCEPT !.timer = l.known /\ l.retries < MaxRetries]

\* The channel or its connection is gone: the relay takes over.
SlipClosedWithChannel(l) == Forgotten(l)

WithoutChannel(l) == IF l.known THEN Relayed(TornDown(l)) ELSE Forgotten(l)

\* createPeer as the one who offers
Offering(p, q, l) ==
    [l EXCEPT !.stage = "offering", !.chan = <<p, q, made[p][q] + 1>>]

\* The hub hands on what p sends q, if both are connected to it.
Forwards(p, q) == net[p] = "on" /\ net[q] = "on" /\ q \in room

(* p's links become "after": it asks every peer that has opened for what is *)
(* missing, then sends the wires in "out", each over the channel or through *)
(* the hub; sigs are its offers and answers.  box is mail without what p    *)
(* has just read.  A channel that p has torn down is gone at both ends.     *)
Lost(p, q, ws) == {Gap(p, q, ws[i]) : i \in DOMAIN ws}

Becomes(p, after, box, sigs, out) ==
    LET opens == {q \in Peers : after[q].open /\ ~link[p][q].open}
        torn  == {q \in Peers : link[p][q].chan # NoChan /\ after[q].chan # link[p][q].chan}
        over  == {q \in Peers : after[q].stage = "open"}
        wires == [q \in Peers |-> (IF q \in opens THEN <<AsksFor(p)>> ELSE <<>>) \o out[q]]
        Relays(q) == q \notin over /\ after[q].open /\ after[q].known /\ Forwards(p, q)
    IN  /\ link' = [link EXCEPT ![p] = after]
        /\ tries' = IF opens # {} THEN [tries EXCEPT ![p] = 0] ELSE tries
        /\ up' = up \ {link[p][q].chan : q \in torn}
        /\ mail' = [q \in Peers |->
              box[q] \o (IF Forwards(p, q) THEN sigs[q] ELSE <<>>)
                     \o (IF Relays(q) THEN [i \in DOMAIN wires[q] |->
                             [t |-> "wire", from |-> p, body |-> wires[q][i]]] ELSE <<>>)]
        /\ pipe' = IF torn = {} /\ over = {} THEN pipe
                   ELSE [r \in Peers |-> [s \in Peers |->
                      CASE (r = p /\ s \in torn) \/ (s = p /\ r \in torn) -> <<>>
                        [] r = p /\ s \in over /\ after[s].chan \in up -> pipe[p][s] \o wires[s]
                        [] OTHER -> pipe[r][s]]]
        /\ gaps' = ((gaps \cup UNION {Lost(p, q, pipe[p][q]) \cup Lost(q, p, pipe[q][p]) : q \in torn})
                        \ {<<q, p>> : q \in opens})
              \cup UNION {Lost(p, q, wires[q]) : q \in {r \in over : after[r].chan \notin up}}

\* The same when only the link to q changes.
Turns(p, q, l, box, sigs, out) ==
    Becomes(p, [link[p] EXCEPT ![q] = l], box, [Silence EXCEPT ![q] = sigs],
            [Silence EXCEPT ![q] = out])

-----------------------------------------------------------------------------
(* Editing: onDocUpdate broadcasts while the provider is connected.         *)
Edit(p) ==
    LET e == <<p, Cardinality({d \in has[p] : d[1] = p}) + 1>>
    IN  /\ p \in Writers /\ e[2] <= MaxEdits
        /\ has' = [has EXCEPT ![p] = @ \cup {e}]
        /\ Becomes(p, link[p], mail, Silence,
              [q \in Peers |-> IF net[p] # "off" /\ link[p][q].open
                               THEN <<Update(e)>> ELSE <<>>])
        /\ UNCHANGED <<net, room, made, trouble>>

\* onMessage of the provider: what p takes from a wire of q's, and its reply.
Reply(p, w) == IF w.kind = "step1" THEN <<Answers(p, w)>> ELSE <<>>

Takes(p, w) ==
    has' = IF w.kind = "step1" THEN has ELSE [has EXCEPT ![p] = @ \cup w.edits]

-----------------------------------------------------------------------------
(* onSocketMessage.  A peer heard of for the first time is reached through  *)
(* the hub at once (SIGNAL_RELAY_FALLBACK_MS is 0).                         *)
Box(p) == [mail EXCEPT ![p] = Tail(@)]

Hears(p, t) ==
    /\ net[p] = "on" /\ mail[p] # <<>> /\ Head(mail[p]).t = t
    /\ UNCHANGED <<net, room, trouble>>

SlipWaitsForChannel(l) == [l EXCEPT !.known = TRUE]

Known(l) == IF l.known THEN l ELSE Relayed([l EXCEPT !.known = TRUE])

OnJoined(p) ==
    /\ Hears(p, "joined")
    /\ LET there == Head(mail[p]).body
           New(q) == q \in there /\ ~HasEntry(link[p][q])
       IN  /\ Becomes(p, [q \in Peers |->
                    IF New(q) THEN Known(Offering(p, q, link[p][q]))
                    ELSE IF q \in there THEN Known(link[p][q]) ELSE link[p][q]],
                    Box(p), Silence, Silence)
           /\ made' = [made EXCEPT ![p] =
                    [q \in Peers |-> IF New(q) THEN @[q] + 1 ELSE @[q]]]
    /\ UNCHANGED has

OnPeer(p) ==
    /\ Hears(p, "peer")
    /\ LET q == Head(mail[p]).from IN Turns(p, q, Known(link[p][q]), Box(p), <<>>, <<>>)
    /\ UNCHANGED <<made, has>>

OnLeave(p) ==
    /\ Hears(p, "leave")
    /\ LET q == Head(mail[p]).from
       IN  Turns(p, q, Forgotten([link[p][q] EXCEPT !.known = FALSE]), Box(p), <<>>, <<>>)
    /\ UNCHANGED <<made, has>>

\* onSignal with a relayed wire
OnRelay(p) ==
    /\ Hears(p, "wire")
    /\ LET m == Head(mail[p])
       IN  /\ Turns(p, m.from, Relayed(Known(link[p][m.from])), Box(p), <<>>,
                    Reply(p, m.body))
           /\ Takes(p, m.body)
    /\ UNCHANGED made

\* onSignal with an offer: not while a channel is open, and when both have
\* offered only the smaller id's counts (shouldInitiateOffer).
Heeds(p, q, l) ==
    /\ l.stage # "open"
    /\ HasEntry(l) /\ l.chan # NoChan /\ l.chan[1] = p => ~(p < q)

OnOffer(p) ==
    /\ Hears(p, "offer")
    /\ LET m == Head(mail[p])
           l == Known(link[p][m.from])
       IN  Turns(p, m.from,
                 IF Heeds(p, m.from, l)
                 THEN [TornDown(l) EXCEPT !.stage = "answering", !.chan = m.body]
                 ELSE l,
                 Box(p), <<>>, <<>>)
    /\ UNCHANGED <<made, has>>

\* onSignal with an answer: it is set on whatever entry there is, and fails on
\* all but one that has offered.
OnAnswer(p) ==
    /\ Hears(p, "answer")
    /\ LET m == Head(mail[p])
           l == Known(link[p][m.from])
       IN  Turns(p, m.from,
                 [l EXCEPT !.stage =
                    CASE l.stage = "none" -> "zombie"
                      [] l.stage = "offered" -> IF l.chan = m.body THEN "paired" ELSE "stuck"
                      [] l.stage \notin {"none", "offered"} -> @],
                 Box(p), <<>>, <<>>)
    /\ UNCHANGED <<made, has>>

-----------------------------------------------------------------------------
(* The entry's own steps.  Descriptions are sent when they are ready.       *)
SendOffer(p, q) ==
    /\ link[p][q].stage = "offering"
    /\ Turns(p, q, Armed([link[p][q] EXCEPT !.stage = "offered"]), mail,
             <<[t |-> "offer", from |-> p, body |-> link[p][q].chan]>>, <<>>)
    /\ UNCHANGED <<net, room, made, has, trouble>>

SendAnswer(p, q) ==
    /\ link[p][q].stage = "answering"
    /\ Turns(p, q, [link[p][q] EXCEPT !.stage = "paired"], mail,
             <<[t |-> "answer", from |-> p, body |-> link[p][q].chan]>>, <<>>)
    /\ UNCHANGED <<net, room, made, has, trouble>>

RetryFires(p, q) ==
    /\ link[p][q].timer /\ made[p][q] < MaxOffers
    /\ LET l == [link[p][q] EXCEPT !.timer = FALSE]
           again == l.known /\ l.stage # "open"
       IN  /\ Turns(p, q, IF again
                          THEN Offering(p, q, TornDown([l EXCEPT !.retries = @ + 1]))
                          ELSE l, mail, <<>>, <<>>)
           /\ made' = [made EXCEPT ![p][q] = IF again THEN @ + 1 ELSE @]
    /\ UNCHANGED <<net, room, has, trouble>>

\* The channel's open event at one of its ends.
ChannelOpens(p, q) ==
    /\ link[p][q].stage = "paired" /\ link[p][q].chan \in up
    /\ Turns(p, q, [link[p][q] EXCEPT !.stage = "open", !.open = TRUE,
                                      !.timer = FALSE, !.retries = 0],
             mail, <<>>, <<>>)
    /\ UNCHANGED <<net, room, made, has, trouble>>

\* The channel's close event at an end that was open.
ChannelCloses(p, q) ==
    /\ link[p][q].stage = "open" /\ link[p][q].chan \notin up
    /\ Turns(p, q, WithoutChannel(link[p][q]), mail, <<>>, <<>>)
    /\ UNCHANGED <<net, room, made, has, trouble>>

\* connectionState is "failed": the one who offered offers again.
ConnectionFails(p, q) ==
    /\ link[p][q].stage \in {"paired", "stuck", "open"} /\ link[p][q].chan \notin up
    /\ LET l == link[p][q]
       IN  Turns(p, q, IF l.chan[1] = p /\ l.known THEN Armed(WithoutChannel(l))
                      ELSE WithoutChannel(l), mail, <<>>, <<>>)
    /\ UNCHANGED <<net, room, made, has, trouble>>

ReceiveOverChannel(p, q) ==
    /\ link[p][q].stage = "open" /\ link[p][q].chan \in up /\ pipe[q][p] # <<>>
    /\ LET w == Head(pipe[q][p])
           r == [i \in DOMAIN Reply(p, w) |-> Reply(p, w)[i]]
       IN  /\ pipe' = [pipe EXCEPT ![q][p] = Tail(@), ![p][q] = @ \o r]
           /\ Takes(p, w)
    /\ UNCHANGED <<net, tries, room, mail, link, made, up, gaps, trouble>>

-----------------------------------------------------------------------------
(* The network.                                                             *)
ChannelConnects(p, q) ==
    /\ link[p][q].stage = "paired" /\ link[q][p].stage = "paired"
    /\ link[p][q].chan = link[q][p].chan /\ link[p][q].chan \notin up
    /\ up' = up \cup {link[p][q].chan}
    /\ UNCHANGED <<net, tries, room, mail, link, made, pipe, docVars, trouble>>

Trouble == trouble < MaxTrouble /\ trouble' = trouble + 1

\* What is under way on the channel is lost; its ends hear of it later.
ChannelFails(p, q) ==
    /\ link[p][q].chan \in up /\ Trouble
    /\ up' = up \ {link[p][q].chan}
    /\ pipe' = [pipe EXCEPT ![p][q] = <<>>, ![q][p] = <<>>]
    /\ gaps' = gaps \cup Lost(p, q, pipe[p][q]) \cup Lost(q, p, pipe[q][p])
    /\ UNCHANGED <<net, tries, room, mail, link, made, has>>

\* transport.disconnect, and the socket is not listened to any more.
Disconnect(p) ==
    LET Mine(c) == \E q \in Peers : link[p][q].chan = c
    IN  /\ link' = [link EXCEPT ![p] = [q \in Peers |-> NoLink]]
        /\ up' = {c \in up : ~Mine(c)}
        /\ pipe' = [r \in Peers |-> [s \in Peers |->
              IF p \in {r, s} THEN <<>> ELSE pipe[r][s]]]
        /\ mail' = [mail EXCEPT ![p] = <<>>]
        /\ UNCHANGED <<room, made, docVars>>

\* The socket closes, or does not open: the session takes it up again while it
\* has tries left, and then no more.  (Its tries start again when a peer opens, so
\* there is no link left to take down when they end.)
SocketLost(p) ==
    /\ IF net[p] = "connecting" THEN UNCHANGED trouble ELSE net[p] = "on" /\ Trouble
    /\ IF tries[p] < MaxTries
       THEN /\ Disconnect(p)
            /\ net' = [net EXCEPT ![p] = "connecting"]
            /\ tries' = [tries EXCEPT ![p] = @ + 1]
       ELSE /\ net' = [net EXCEPT ![p] = "off"]
            /\ mail' = [mail EXCEPT ![p] = <<>>]
            /\ UNCHANGED <<tries, room, link, made, up, pipe, docVars>>

Leave(p) ==
    /\ net[p] # "off" /\ Trouble
    /\ Disconnect(p)
    /\ net' = [net EXCEPT ![p] = "off"]
    /\ UNCHANGED tries

\* The hub's answer to a join, and what it tells the others: they hear that a
\* member it still had has left.
Connect(p) ==
    /\ net[p] = "connecting"
    /\ net' = [net EXCEPT ![p] = "on"]
    /\ room' = room \cup {p}
    /\ mail' = [q \in Peers |->
          CASE q = p -> <<[t |-> "joined", from |-> p, body |-> room \ {p}]>>
            [] q # p /\ q \in room /\ net[q] = "on" ->
                  mail[q] \o (IF p \in room THEN <<[t |-> "leave", from |-> p]>> ELSE <<>>)
                          \o <<[t |-> "peer", from |-> p]>>
            [] q # p /\ ~(q \in room /\ net[q] = "on") -> mail[q]]
    /\ UNCHANGED <<tries, link, made, up, pipe, docVars, trouble>>

HubNotices(p) ==
    /\ p \in room /\ net[p] # "on"
    /\ room' = room \ {p}
    /\ mail' = [q \in Peers |->
          IF q \in room \ {p} /\ net[q] = "on"
          THEN Append(mail[q], [t |-> "leave", from |-> p]) ELSE mail[q]]
    /\ UNCHANGED <<net, tries, link, made, up, pipe, docVars, trouble>>

-----------------------------------------------------------------------------
Hear(p) == OnJoined(p) \/ OnPeer(p) \/ OnLeave(p) \/ OnRelay(p) \/ OnOffer(p) \/ OnAnswer(p)

Next ==
    \E p \in Peers :
        \/ Edit(p) \/ Hear(p) \/ SocketLost(p) \/ Leave(p) \/ Connect(p) \/ HubNotices(p)
        \/ \E q \in Peers \ {p} :
            \/ SendOffer(p, q) \/ SendAnswer(p, q) \/ RetryFires(p, q)
            \/ ChannelOpens(p, q) \/ ChannelCloses(p, q) \/ ConnectionFails(p, q)
            \/ ReceiveOverChannel(p, q) \/ ChannelConnects(p, q) \/ ChannelFails(p, q)

Spec == Init /\ [][Next]_vars

-----------------------------------------------------------------------------
Edits == Writers \X (1..MaxEdits)
Chans == {NoChan} \cup (Peers \X Peers \X Nat)

TypeOK ==
    /\ net \in [Peers -> {"connecting", "on", "off"}]
    /\ tries \in [Peers -> 0..MaxTries]
    /\ room \subseteq Peers
    /\ link \in [Peers -> [Peers -> [known : BOOLEAN, open : BOOLEAN, stage : Stages,
                                     chan : Chans, retries : 0..MaxRetries, timer : BOOLEAN]]]
    /\ made \in [Peers -> [Peers -> Nat]]
    /\ has \in [Peers -> SUBSET Edits]
    /\ gaps \subseteq Peers \X Peers
    /\ trouble \in 0..MaxTrouble

\* Nothing is under way: what happens next, if anything, is an edit or trouble,
\* or ICE at last connects or gives up.
Quiet ==
    /\ \A p \in Peers : net[p] # "connecting" /\ mail[p] = <<>> /\ (p \in room => net[p] = "on")
    /\ \A p, q \in Peers :
        /\ link[p][q].stage \notin {"offering", "answering"}
        /\ link[p][q].stage = "open" => link[p][q].chan \in up /\ pipe[q][p] = <<>>
        /\ link[p][q].stage = "paired" => link[p][q].chan \notin up
        /\ link[p][q].timer => made[p][q] = MaxOffers

Both(p, q) == p # q /\ net[p] = "on" /\ net[q] = "on"

\* Whatever path the wires took, through glare, reconnections and the change from
\* the hub to a channel and back: when it is quiet, what one peer edited shows at
\* the other -- unless a channel has died with it, or with what comes before it.
DocumentsAgree ==
    Quiet => \A e \in Edits : \A q \in Peers :
        e \in has[e[1]] /\ Both(e[1], q) /\ <<e[1], q>> \notin gaps => e \in Shown(has[q])

\* Peers in the room are open to each other when it is quiet, and who has left is
\* not: neither the relay nor the channel closing takes the other's place.
OpenIsThere ==
    Quiet => \A p, q \in Peers : p # q /\ net[p] = "on" =>
        (link[p][q].open <=> net[q] = "on")

\* A channel that closes does not make a peer look gone that the hub can reach: a
\* peer closes only when it leaves.
OpenStays ==
    [][\A p, q \in Peers :
         link[p][q].open /\ ~link'[p][q].open => ~link'[p][q].known]_vars

\* What "live edits converge between peers" asks, dead channels or not.
EditsConverge ==
    Quiet => \A e \in Edits : \A q \in Peers :
        e \in has[e[1]] /\ Both(e[1], q) => e \in Shown(has[q])

\* "Signaling unavailable: existing data channels go on."
ChannelsOutliveSignaling == [][\A p \in Peers : SocketLost(p) => up' = up]_vars
=============================================================================
