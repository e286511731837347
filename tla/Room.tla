-------------------------------- MODULE Room --------------------------------
(***************************************************************************)
(* The Durable Object that relays between one bridge and any number of web *)
(* clients of a token (worker/src/room.ts, worker/src/heartbeat.ts).       *)
(*                                                                         *)
(* A connection is a WebSocket accepted by fetch().  It is pending until   *)
(* its handshake is accepted, then open.  At most one bridge connection    *)
(* owns the slot `bridge'.  A second bridge that handshakes while the slot *)
(* is taken starts a challenge: the incumbent is probed with a ping, a     *)
(* budget timer is armed, and the challenger is parked until the probe is  *)
(* answered, the timer fires or one of the two disconnects.                *)
(*                                                                         *)
(* Every handler runs to completion on one JavaScript turn, so a handler   *)
(* is one action.  What is not atomic is everything between the handlers:  *)
(* frames still in flight, close events that arrive late or never, timers, *)
(* peers that die without a word.  Frames that change nothing (malformed   *)
(* JSON, a second handshake on an open connection, an inbound              *)
(* bridge_status or error) are left out; a frame or a close event on an    *)
(* untracked connection only closes a socket that is closed already.       *)
(***************************************************************************)
EXTENDS Integers, FiniteSets

CONSTANTS
    BridgeConns,    \* connections opened through the bridge entry
    WebConns,       \* connections opened through the web entry
    Foreign,        \* connections whose peer may speak another protocol version
    NoConn,         \* stands for null where a connection is expected
    Serial,         \* serial numbers of the nonces a party can mint
    PingInterval,   \* PING_INTERVAL_MS, in seconds
    PongTimeout,    \* PONG_TIMEOUT_MS, in seconds
    MaxMissed,      \* MAX_MISSED_PONGS
    MaxBacklog      \* bound: pings a live peer keeps without answering

Conns == BridgeConns \union WebConns

ASSUME ConnsAssumption ==
    /\ BridgeConns \intersect WebConns = {}
    /\ Foreign \subseteq Conns
    /\ NoConn \notin Conns

ASSUME NonceAssumption == Serial # {}

ASSUME TimingAssumption ==
    /\ PingInterval \in Nat \ {0}
    /\ PongTimeout \in Nat
    /\ MaxMissed \in Nat \ {0}
    /\ MaxBacklog \in Nat

VARIABLES
    sock,       \* the WebSocket: "new", "up", "closing" (close() called here), "closed"
    mute,       \* connections whose peer died without closing the socket
    webs,       \* keys of the connection map
    meta,       \* ConnMeta of each connection
    bridge,     \* the connection that owns the bridge slot
    challenge,  \* the challenge in flight
    lastStatus, \* reason of the last bridge_status broadcast, "none" before the first
    heard,      \* reason of the last bridge_status each web received
    asked,      \* nonces of the pings each peer received and has not answered
    silence     \* history: heartbeat ticks since the oldest unanswered heartbeat ping

vars == <<sock, mute, webs, meta, bridge, challenge, lastStatus, heard, asked, silence>>

-----------------------------------------------------------------------------
(* Nonces are UUIDs: a pair of the party that mints or is asked and a      *)
(* serial number nobody holds any more stands for a fresh one.             *)

NoNonce == <<NoConn, 0>>
NonceFor(c) == {c} \X Serial
Nonce == (Conns \X Serial) \union {NoNonce}

InUse == UNION {asked[c] \union {meta[c].ping, meta[c].chal} : c \in Conns}

Fresh(c) == CHOOSE n \in NonceFor(c) : n \notin InUse \/ NonceFor(c) \subseteq InUse

ConnMeta == [phase : {"pending", "open"}, timer : BOOLEAN, ping : Nonce,
             age : Nat, missed : 0..MaxMissed - 1, chal : Nonce]

NewMeta == [phase |-> "pending", timer |-> TRUE, ping |-> NoNonce,
            age |-> 0, missed |-> 0, chal |-> NoNonce]

NoMeta == [NewMeta EXCEPT !.timer = FALSE]

NoChallenge == [old |-> NoConn, new |-> NoConn, nonce |-> NoNonce]

Reasons == {"connected", "closed", "stale"}

-----------------------------------------------------------------------------
Open(c) == c \in webs /\ meta[c].phase = "open"

(* A frame sent to c arrives: its socket is up and its peer lives.          *)
Reaches(c) == sock[c] = "up" /\ c \notin mute

(* The peer of c can still have a frame dispatched.  A socket the room has  *)
(* closed delivers what was in flight until the close event.               *)
Delivers(c) == sock[c] \in {"up", "closing"} /\ c \notin mute

(* close() on every connection of S; closing twice is a no-op.              *)
Closed(S) == [c \in Conns |-> IF c \in S /\ sock[c] = "up" THEN "closing" ELSE sock[c]]

(* Pings reach the peers of `sent', a function from connections to nonces;  *)
(* a peer whose backlog is full never answers the new one.                  *)
Asked(sent) ==
    [c \in Conns |->
        IF c \in DOMAIN sent /\ Reaches(c) /\ Cardinality(asked[c]) < MaxBacklog
        THEN asked[c] \union {sent[c]} ELSE asked[c]]

(* broadcastBridgeStatus: remember the status, send it to the webs of S.    *)
Broadcast(reason, S) ==
    /\ lastStatus' = reason
    /\ heard' = [w \in Conns |-> IF w \in S /\ Reaches(w) THEN reason ELSE heard[w]]

NoBroadcast == UNCHANGED <<lastStatus, heard>>

OpenWebs == {w \in WebConns : Open(w)}

(* Mutant: a frame is relayed to connections that have not handshaked.      *)
RecipientsInAnyPhase(c) ==
    {d \in webs \ {c} : d \in BridgeConns <=> c \in WebConns}

(* forwardToOpposite: who receives a frame sent by c.                       *)
Recipients(c) ==
    {d \in webs \ {c} : meta[d].phase = "open" /\ (d \in BridgeConns <=> c \in WebConns)}

(* sendTerminalError, sendErrorAndClose: an error frame, then close().  The *)
(* entry stays in the map until the close event is dispatched.              *)
Terminate(c) == sock' = Closed({c})

Challenging == challenge # NoChallenge

(* What is kept here about connections whose entry is gone.                 *)
Forget(S) ==
    /\ asked' = [c \in Conns |-> IF c \in S THEN {} ELSE asked[c]]
    /\ silence' = [c \in Conns |-> IF c \in S THEN 0 ELSE silence[c]]

-----------------------------------------------------------------------------
Init ==
    /\ sock = [c \in Conns |-> "new"]
    /\ mute = {}
    /\ webs = {}
    /\ meta = [c \in Conns |-> NoMeta]
    /\ bridge = NoConn
    /\ challenge = NoChallenge
    /\ lastStatus = "none"
    /\ heard = [c \in Conns |-> "none"]
    /\ asked = [c \in Conns |-> {}]
    /\ silence = [c \in Conns |-> 0]

(* fetch: accept the upgrade, arm the handshake timer, track the entry.     *)
Upgrade(c) ==
    /\ sock[c] = "new"
    /\ sock' = [sock EXCEPT ![c] = "up"]
    /\ webs' = webs \union {c}
    /\ meta' = [meta EXCEPT ![c] = NewMeta]
    /\ UNCHANGED <<mute, bridge, challenge, lastStatus, heard, asked, silence>>

(* The handshake timer armed by fetch fires.                                *)
HandshakeTimeout(c) ==
    /\ meta[c].timer
    /\ meta' = [meta EXCEPT ![c].timer = FALSE]
    /\ Terminate(c)
    /\ UNCHANGED <<mute, webs, bridge, challenge, lastStatus, heard, asked, silence>>

(* A frame of another protocol version closes the connection in any phase.  *)
RejectVersion(c) ==
    /\ c \in Foreign
    /\ Delivers(c) /\ c \in webs
    /\ Terminate(c)
    /\ UNCHANGED <<mute, webs, meta, bridge, challenge, lastStatus, heard, asked, silence>>

(* While pending, a valid frame that is not a handshake of the entry's role *)
(* is refused with auth_failed.  The phase of a parked challenger is still  *)
(* pending.                                                                 *)
RejectFirstFrame(c) ==
    /\ Delivers(c) /\ c \in webs /\ meta[c].phase = "pending"
    /\ Terminate(c)
    /\ UNCHANGED <<mute, webs, meta, bridge, challenge, lastStatus, heard, asked, silence>>

-----------------------------------------------------------------------------
(* handleHandshake                                                          *)

Handshakes(c) == Delivers(c) /\ c \in webs /\ meta[c].phase = "pending"

Promoted(c) == [meta EXCEPT ![c].phase = "open", ![c].timer = FALSE]

(* The status replayed to a new web, "closed" before the first broadcast.   *)
Replayed == IF lastStatus = "none" THEN "closed" ELSE lastStatus

(* Mutant: a web is admitted without a replay.                              *)
AdmitWebUntold(w) ==
    /\ w \in WebConns /\ Handshakes(w)
    /\ meta' = Promoted(w)
    /\ UNCHANGED <<sock, mute, webs, bridge, challenge, lastStatus, heard, asked, silence>>

(* A web is admitted and told the last status.                              *)
AdmitWeb(w) ==
    /\ w \in WebConns /\ Handshakes(w)
    /\ meta' = Promoted(w)
    /\ heard' = IF Reaches(w) THEN [heard EXCEPT ![w] = Replayed] ELSE heard
    /\ UNCHANGED <<sock, mute, webs, bridge, challenge, lastStatus, asked, silence>>

(* A bridge that handshakes while a challenge is in flight is refused; so   *)
(* is the parked challenger when it sends its handshake again.              *)
RefuseBridge(b) ==
    /\ b \in BridgeConns /\ Handshakes(b)
    /\ Challenging
    /\ Terminate(b)
    /\ UNCHANGED <<mute, webs, meta, bridge, challenge, lastStatus, heard, asked, silence>>

TakeSlot(b) ==
    /\ meta' = Promoted(b)
    /\ bridge' = b
    /\ Broadcast("connected", OpenWebs)
    /\ UNCHANGED <<sock, mute, webs, challenge, asked, silence>>

(* Mutant: the owner of the slot is not looked at.                          *)
AdmitBridgeAnyway(b) ==
    /\ b \in BridgeConns /\ Handshakes(b)
    /\ ~Challenging
    /\ TakeSlot(b)

(* Mutant: a challenge in flight is not looked at.                          *)
AdmitBridgeDuringChallenge(b) ==
    /\ b \in BridgeConns /\ Handshakes(b)
    /\ bridge \in {NoConn, b}
    /\ TakeSlot(b)

(* The slot is free.                                                        *)
AdmitBridge(b) ==
    /\ b \in BridgeConns /\ Handshakes(b)
    /\ ~Challenging
    /\ bridge \in {NoConn, b}
    /\ TakeSlot(b)

(* The challenger's timer is taken over, the incumbent carries the nonce.   *)
Stamped(b, nonce) == [meta EXCEPT ![b].timer = FALSE, ![bridge].chal = nonce]

(* startChallenge: take over the challenger's timer, stamp the incumbent    *)
(* with a fresh nonce, arm the budget timer, send the probe best-effort.    *)
StartChallenge(b) ==
    /\ b \in BridgeConns /\ Handshakes(b)
    /\ ~Challenging
    /\ bridge \notin {NoConn, b}
    /\ LET nonce == Fresh(bridge) IN
        /\ meta' = Stamped(b, nonce)
        /\ challenge' = [old |-> bridge, new |-> b, nonce |-> nonce]
        /\ asked' = Asked([c \in {bridge} |-> nonce])
    /\ UNCHANGED <<sock, mute, webs, bridge, lastStatus, heard, silence>>

-----------------------------------------------------------------------------
(* resolveChallenge                                                         *)

(* Mutant: the nonce stays on the incumbent.                                *)
StillStamped == meta

Unstamped == [meta EXCEPT ![challenge.old].chal = NoNonce]

(* Mutant: the challenger is left waiting.                                  *)
KeepIncumbentOnly ==
    /\ challenge' = NoChallenge
    /\ meta' = Unstamped
    /\ UNCHANGED <<sock, webs, bridge, lastStatus, heard>>

(* The incumbent answered: it keeps the slot, the challenger is refused.    *)
KeepIncumbent ==
    /\ challenge' = NoChallenge
    /\ meta' = Unstamped
    /\ sock' = Closed({challenge.new} \intersect webs)
    /\ UNCHANGED <<webs, bridge, lastStatus, heard>>

(* The incumbent is dead: drop it, promote the challenger if it is tracked. *)
(* `sockets' is the state of the sockets once the incumbent's is closed.    *)
(* Every web that hears "stale" here hears "connected" right after it.      *)
ReplaceIncumbent(sockets, tellStale) ==
    LET left == webs \ {challenge.old}
        promote == challenge.new \in left
        freed == IF bridge = challenge.old THEN NoConn ELSE bridge
    IN
    /\ challenge' = NoChallenge
    /\ webs' = left
    /\ sock' = sockets
    /\ meta' = [c \in Conns |->
                   IF c = challenge.old THEN NoMeta
                   ELSE IF c = challenge.new /\ promote
                   THEN [meta[c] EXCEPT !.phase = "open", !.timer = FALSE]
                   ELSE meta[c]]
    /\ bridge' = IF promote THEN challenge.new ELSE freed
    /\ IF promote THEN Broadcast("connected", OpenWebs)
       ELSE IF tellStale /\ bridge = challenge.old THEN Broadcast("stale", OpenWebs)
       ELSE NoBroadcast
    /\ Forget({challenge.old})

(* The budget timer fires.                                                  *)
ChallengeTimeout ==
    /\ Challenging
    /\ ReplaceIncumbent(Closed({challenge.old}), TRUE)
    /\ UNCHANGED mute

-----------------------------------------------------------------------------
(* routeOpenMessage.  Of the frames that are relayed only pings leave a     *)
(* trace here: the peer that receives one will answer it.                   *)

(* A web pings through the relay.                                           *)
RelayPing(w) ==
    /\ w \in WebConns /\ Open(w) /\ Delivers(w)
    /\ asked' = Asked([c \in Recipients(w) |-> Fresh(w)])
    /\ UNCHANGED <<sock, mute, webs, meta, bridge, challenge, lastStatus, heard, silence>>

Pong(c, n) ==
    /\ Open(c) /\ Delivers(c)
    /\ n \in asked[c]
    /\ asked' = [asked EXCEPT ![c] = @ \ {n}]
    /\ UNCHANGED mute

(* Mutant: any pong of the incumbent passes for the answer.                 *)
AnswersAnything(c, n) == meta[c].chal # NoNonce /\ Challenging /\ challenge.old = c

AnswersChallenge(c, n) == meta[c].chal = n /\ Challenging /\ challenge.old = c

AnswersHeartbeat(c, n) == meta[c].ping = n

(* (a) the pong answers the challenge: the incumbent is alive.              *)
ChallengePong(c, n) ==
    /\ Pong(c, n)
    /\ AnswersChallenge(c, n)
    /\ KeepIncumbent
    /\ UNCHANGED silence

(* (b) the pong answers the heartbeat.                                      *)
HeartbeatPong(c, n) ==
    /\ Pong(c, n)
    /\ ~AnswersChallenge(c, n)
    /\ AnswersHeartbeat(c, n)
    /\ meta' = [meta EXCEPT ![c].ping = NoNonce, ![c].age = 0, ![c].missed = 0]
    /\ silence' = [silence EXCEPT ![c] = 0]
    /\ UNCHANGED <<sock, webs, bridge, challenge, lastStatus, heard>>

(* (c) any other pong is relayed and counts for nothing.                    *)
OtherPong(c, n) ==
    /\ Pong(c, n)
    /\ ~AnswersChallenge(c, n)
    /\ ~AnswersHeartbeat(c, n)
    /\ UNCHANGED <<sock, webs, meta, bridge, challenge, lastStatus, heard, silence>>

-----------------------------------------------------------------------------
(* tickHeartbeat, tickOneConnection: `age' counts the ticks since the       *)
(* pending ping was sent.                                                   *)

Expired(c) == meta[c].ping # NoNonce /\ (meta[c].age + 1) * PingInterval > PongTimeout

(* Mutant: one miss too many is granted.                                    *)
TimedOutLate(c) == Expired(c) /\ meta[c].missed + 1 > MaxMissed

TimedOut(c) == Expired(c) /\ meta[c].missed + 1 >= MaxMissed

Pinged(c) == (meta[c].ping = NoNonce \/ Expired(c)) /\ ~TimedOut(c)

Ticked(c) ==
    IF Pinged(c)
    THEN [meta[c] EXCEPT !.ping = Fresh(c), !.age = 0,
                         !.missed = IF Expired(c) THEN @ + 1 ELSE @]
    ELSE [meta[c] EXCEPT !.age = @ + 1]

OpenConns == {c \in webs : Open(c)}

ToPing == {c \in OpenConns : Pinged(c)}

(* A tick that drops the connections of `reaped' and probes the other open  *)
(* ones.                                                                    *)
TickReaping(reaped) ==
    /\ webs' = webs \ reaped
    /\ sock' = Closed(reaped)
    /\ meta' = [c \in Conns |-> IF c \in reaped THEN NoMeta
                                ELSE IF c \in OpenConns THEN Ticked(c) ELSE meta[c]]
    /\ asked' = [c \in Conns |-> IF c \in reaped THEN {}
                                 ELSE Asked([p \in ToPing |-> Fresh(p)])[c]]
    /\ silence' = [c \in Conns |->
                      IF c \in OpenConns \ reaped /\ meta[c].ping # NoNonce
                      THEN silence[c] + 1 ELSE 0]
    /\ IF bridge \in reaped
       THEN bridge' = NoConn /\ Broadcast("stale", OpenWebs)
       ELSE UNCHANGED bridge /\ NoBroadcast
    /\ UNCHANGED <<mute, challenge>>

(* One tick visits every open connection.  A ping to a socket that is no    *)
(* longer up, or whose peer is gone, may throw: the entry is then reaped    *)
(* as if it had timed out.                                                  *)
Tick ==
    /\ OpenConns # {}
    /\ \E throws \in SUBSET {c \in ToPing : ~Reaches(c)} :
          TickReaping({c \in OpenConns : TimedOut(c)} \union throws)

-----------------------------------------------------------------------------
(* webSocketClose, webSocketError -> handleDisconnect                       *)

Drop(c) ==
    /\ sock[c] \in {"up", "closing"}
    /\ UNCHANGED mute

Departed(c) == [sock EXCEPT ![c] = "closed"]

(* The close event of an entry the heartbeat or a challenge dropped before. *)
DisconnectUntracked(c) ==
    /\ Drop(c)
    /\ c \notin webs
    /\ sock' = Departed(c)
    /\ UNCHANGED <<webs, meta, bridge, challenge, lastStatus, heard, asked, silence>>

(* The challenger leaves: the challenge is cancelled.                       *)
DisconnectChallenger(c) ==
    /\ Drop(c) /\ c \in webs
    /\ Challenging /\ c = challenge.new
    /\ sock' = Departed(c)
    /\ webs' = webs \ {c}
    /\ meta' = [Unstamped EXCEPT ![c] = NoMeta]
    /\ challenge' = NoChallenge
    /\ Forget({c})
    /\ UNCHANGED <<bridge, lastStatus, heard>>

(* The incumbent leaves during the challenge: the challenger takes over at  *)
(* once, with no "stale" or "closed" in between.                            *)
DisconnectIncumbent(c) ==
    /\ Drop(c) /\ c \in webs
    /\ Challenging /\ c = challenge.old
    /\ ReplaceIncumbent(Departed(c), FALSE)

(* Any other connection leaves.                                             *)
DisconnectOther(c) ==
    /\ Drop(c) /\ c \in webs
    /\ ~(Challenging /\ c \in {challenge.new, challenge.old})
    /\ sock' = Departed(c)
    /\ webs' = webs \ {c}
    /\ meta' = [meta EXCEPT ![c] = NoMeta]
    /\ IF bridge = c
       THEN bridge' = NoConn /\ Broadcast("closed", OpenWebs \ {c})
       ELSE UNCHANGED bridge /\ NoBroadcast
    /\ Forget({c})
    /\ UNCHANGED challenge

-----------------------------------------------------------------------------
(* Environment: the peer of c dies and no event tells the room.             *)
FallSilent(c) ==
    /\ sock[c] = "up" /\ c \notin mute
    /\ mute' = mute \union {c}
    /\ asked' = [asked EXCEPT ![c] = {}]
    /\ UNCHANGED <<sock, webs, meta, bridge, challenge, lastStatus, heard, silence>>

Handshake(c) == AdmitWeb(c) \/ RefuseBridge(c) \/ AdmitBridge(c) \/ StartChallenge(c)

RecvPong(c) == \E n \in asked[c] : ChallengePong(c, n) \/ HeartbeatPong(c, n) \/ OtherPong(c, n)

Disconnect(c) ==
    \/ DisconnectUntracked(c) \/ DisconnectChallenger(c)
    \/ DisconnectIncumbent(c) \/ DisconnectOther(c)

Next ==
    \/ \E c \in Conns :
        \/ Upgrade(c) \/ HandshakeTimeout(c) \/ RejectVersion(c) \/ RejectFirstFrame(c)
        \/ Handshake(c) \/ RelayPing(c) \/ RecvPong(c)
        \/ Disconnect(c) \/ FallSilent(c)
    \/ ChallengeTimeout
    \/ Tick

(* Timers fire and the interval ticks.  Nothing else is promised: a peer    *)
(* may never speak, a close event may never be dispatched.                  *)
Fairness ==
    /\ \A c \in Conns : WF_vars(HandshakeTimeout(c))
    /\ WF_vars(ChallengeTimeout)
    /\ WF_vars(Tick)

Spec == Init /\ [][Next]_vars

FairSpec == Spec /\ Fairness
-----------------------------------------------------------------------------
(* Properties                                                               *)

(* Every variable has its type, and an untracked connection keeps nothing.  *)
TypeOK ==
    /\ sock \in [Conns -> {"new", "up", "closing", "closed"}]
    /\ mute \subseteq Conns
    /\ webs \subseteq Conns
    /\ meta \in [Conns -> ConnMeta]
    /\ bridge \in Conns \union {NoConn}
    /\ challenge \in [old : Conns \union {NoConn}, new : Conns \union {NoConn}, nonce : Nonce]
    /\ lastStatus \in Reasons \union {"none"}
    /\ heard \in [Conns -> Reasons \union {"none"}]
    /\ asked \in [Conns -> SUBSET Nonce]
    /\ silence \in [Conns -> Nat]

(* A frame of an open web is relayed to the owner of the slot and to no     *)
(* other bridge, and is dropped when there is none: forwardToOpposite       *)
(* selects by role and phase, not by the slot, so this needs every path     *)
(* that changes the slot to keep the two in step.                           *)
RelayToOwner ==
    \A w \in OpenWebs : Recipients(w) = {bridge} \ {NoConn}

(* There is at most one open bridge connection in the map, and it is the    *)
(* owner of the slot.                                                       *)
SlotIsOpenBridge ==
    {b \in BridgeConns : Open(b)} = {bridge} \ {NoConn}

(* A challenge probes the owner of the slot, or one that lost it meanwhile; *)
(* its challenger is tracked, pending and without a timer of its own; the   *)
(* nonce stamped on a tracked incumbent is the nonce of the challenge.      *)
ChallengeSound ==
    Challenging =>
        /\ bridge \in {challenge.old, NoConn}
        /\ challenge.new \in BridgeConns \intersect webs
        /\ meta[challenge.new].phase = "pending" /\ ~meta[challenge.new].timer
        /\ challenge.old \in webs => meta[challenge.old].chal = challenge.nonce

(* A challenge nonce is on record only for the incumbent of the challenge   *)
(* in flight: none is left behind to be answered in a later challenge.      *)
NoStrayChallengeNonce ==
    \A c \in webs : meta[c].chal # NoNonce => Challenging /\ challenge.old = c

(* The status the room last announced says "connected" exactly while a      *)
(* bridge owns the slot.                                                    *)
StatusTruthful == lastStatus = "connected" <=> bridge # NoConn

(* Every open web that can be reached has heard the status that is current, *)
(* whatever it missed before its handshake.                                 *)
WebsInformed ==
    \A w \in OpenWebs :
        Reaches(w) => heard[w] = Replayed

(* The status that was last announced is true, and every open web knows it.*)
StatusTold == StatusTruthful /\ WebsInformed

(* A pending connection whose socket is up has someone to decide its fate:  *)
(* its own handshake timer, or the challenge it is parked in.               *)
NobodyStranded ==
    \A c \in webs :
        meta[c].phase = "pending" /\ sock[c] = "up"
            => meta[c].timer \/ (Challenging /\ challenge.new = c)

(* A challenge is about the owner of the slot and has a fresh probe, it     *)
(* leaves no nonce behind, and no pending connection waits for nothing.     *)
ChallengeHandled == ChallengeSound /\ NoStrayChallengeNonce /\ NobodyStranded

(* An open connection that stays silent is dropped: its oldest unanswered   *)
(* heartbeat ping is never older than MaxMissed pong timeouts, each rounded *)
(* up to the next tick.                                                     *)
TicksPerMiss == PongTimeout \div PingInterval + 1

SilenceBounded ==
    \A c \in webs : silence[c] < MaxMissed * TicksPerMiss

-----------------------------------------------------------------------------
(* The slot passes from one bridge to another only as the outcome of the    *)
(* challenge between these two.                                             *)
SlotPassesByChallenge ==
    [][bridge # NoConn /\ bridge' \notin {bridge, NoConn}
         => challenge.old = bridge /\ challenge.new = bridge']_vars

(* An incumbent ends a challenge in its favour only by answering the probe  *)
(* of this very challenge: neither a pong to an earlier probe nor one to a  *)
(* heartbeat ping refuses the challenger.  When the incumbent's socket      *)
(* closes instead, the challenger owns the slot in the same step.           *)
ChallengeDecided ==
    [][/\ Challenging /\ ~Challenging' /\ bridge' # challenge.new /\ challenge.new \in webs'
            => challenge.nonce \in asked[challenge.old]
       /\ Challenging /\ challenge.old \in webs
            /\ sock'[challenge.old] = "closed" /\ sock[challenge.old] # "closed"
            => bridge' = challenge.new]_vars

-----------------------------------------------------------------------------
(* Every connection that is accepted gets a verdict, open or closed: the    *)
(* challenge that takes a challenger's timer away decides in its place.     *)
EveryoneGetsAVerdict ==
    \A c \in Conns : sock[c] = "up" /\ ~Open(c) ~> sock[c] # "up" \/ Open(c)

(* An open connection whose peer died without a close event is dropped; if  *)
(* it owned the slot the slot is free again or another's.                   *)
DeadPeerDropped ==
    \A c \in Conns : c \in mute /\ Open(c) ~> c \notin webs /\ bridge # c

(* No connection is forgotten by the room: neither one that waits for its  *)
(* verdict nor one whose peer is dead.                                      *)
EveryoneSettled == EveryoneGetsAVerdict /\ DeadPeerDropped

-----------------------------------------------------------------------------
(* The room implements the abstract slot: the parked challenger is the      *)
(* rival, a bridge connection whose entry is no longer tracked is gone.     *)
Slot == INSTANCE BridgeSlot WITH
            Bridges <- BridgeConns,
            None <- NoConn,
            owner <- bridge,
            rival <- challenge.new,
            gone <- {b \in BridgeConns : sock[b] # "new" /\ b \notin webs}

SlotImplemented == Slot!Spec

-----------------------------------------------------------------------------
(* What the code does not do.                                               *)

(* A parked challenger stays until the challenge is decided: "The           *)
(* challenger itself is parked [...] and will be promoted or terminated     *)
(* when the probe resolves" (room.ts, handleHandshake).                     *)
ParkedUntilDecided ==
    [][Challenging /\ sock[challenge.new] = "up" /\ sock'[challenge.new] = "closing"
         => ~Challenging']_vars
=============================================================================
