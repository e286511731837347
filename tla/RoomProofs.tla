----------------------------- MODULE RoomProofs -----------------------------
(***************************************************************************)
(* What the room guarantees for any number of connections and any timing   *)
(* constants.                                                              *)
(***************************************************************************)
EXTENDS Room, TLAPS

(* A minted nonce belongs to the party it is minted for.                    *)
LEMMA FreshIsNonce ==
    ASSUME NEW c \in Conns
    PROVE  Fresh(c) \in NonceFor(c) /\ Fresh(c) \in Nonce
<1>1. \E n \in NonceFor(c) : n \notin InUse \/ NonceFor(c) \subseteq InUse
  <2>1. CASE NonceFor(c) \subseteq InUse
    <3>1. PICK s \in Serial : TRUE
      BY NonceAssumption
    <3>2. <<c, s>> \in NonceFor(c)
      BY DEF NonceFor
    <3> QED
      BY <2>1, <3>2
  <2>2. CASE ~(NonceFor(c) \subseteq InUse)
    BY <2>2
  <2> QED
    BY <2>1, <2>2
<1>2. Fresh(c) \in NonceFor(c)
  BY <1>1 DEF Fresh
<1>3. NonceFor(c) \subseteq Nonce
  BY DEF NonceFor, Nonce
<1> QED
  BY <1>2, <1>3

(* Broadcasting a reason keeps the types of what it writes.                 *)
LEMMA BroadcastType ==
    ASSUME TypeOK, NEW reason \in Reasons, NEW S, Broadcast(reason, S)
    PROVE  lastStatus' \in Reasons \union {"none"} /\ heard' \in [Conns -> Reasons \union {"none"}]
BY DEF TypeOK, Broadcast

(* Forgetting connections keeps the types of the backlogs and silences.     *)
LEMMA ForgetType ==
    ASSUME TypeOK, NEW S, Forget(S)
    PROVE  asked' \in [Conns -> SUBSET Nonce] /\ silence' \in [Conns -> Nat]
BY DEF TypeOK, Forget

(* Closing sockets yields sockets.                                          *)
LEMMA ClosedType ==
    ASSUME TypeOK, NEW S
    PROVE  Closed(S) \in [Conns -> {"new", "up", "closing", "closed"}]
BY DEF TypeOK, Closed

(* The missing nonce is a nonce.                                            *)
LEMMA NoNonceType == NoNonce \in Nonce
BY DEF Nonce

(* The entry of a new and of an untracked connection is an entry.           *)
LEMMA NewMetaType == NewMeta \in ConnMeta /\ NoMeta \in ConnMeta
<1>1. 0 \in 0..MaxMissed - 1
  BY TimingAssumption
<1>2. NewMeta \in ConnMeta
  BY <1>1, NoNonceType DEF NewMeta, ConnMeta
<1>3. NoMeta \in ConnMeta
  BY <1>2 DEF NoMeta, ConnMeta
<1> QED
  BY <1>2, <1>3

(* Delivering pings keeps the type of the backlogs.                         *)
LEMMA AskedType ==
    ASSUME TypeOK, NEW sent, \A c \in DOMAIN sent : sent[c] \in Nonce
    PROVE  Asked(sent) \in [Conns -> SUBSET Nonce]
BY DEF TypeOK, Asked

(* What an entry may become without leaving its type.                       *)
LEMMA MetaUpdateType ==
    ASSUME NEW m \in ConnMeta
    PROVE  /\ [m EXCEPT !.timer = FALSE] \in ConnMeta
           /\ [m EXCEPT !.phase = "open", !.timer = FALSE] \in ConnMeta
           /\ \A n \in Nonce : [m EXCEPT !.chal = n] \in ConnMeta
           /\ [m EXCEPT !.ping = NoNonce, !.age = 0, !.missed = 0] \in ConnMeta
<1>1. 0 \in 0..MaxMissed - 1
  BY TimingAssumption
<1>2. [m EXCEPT !.timer = FALSE] \in ConnMeta
  BY DEF ConnMeta
<1>3. [m EXCEPT !.phase = "open", !.timer = FALSE] \in ConnMeta
  BY DEF ConnMeta
<1>4. ASSUME NEW n \in Nonce
      PROVE  [m EXCEPT !.chal = n] \in ConnMeta
  BY DEF ConnMeta
<1>5. [m EXCEPT !.ping = NoNonce, !.age = 0, !.missed = 0] \in ConnMeta
  BY <1>1, NoNonceType DEF ConnMeta
<1> QED
  BY <1>2, <1>3, <1>4, <1>5

(* A connection that a tick does not time out stays within its misses.      *)
LEMMA TickedType ==
    ASSUME TypeOK, NEW c \in Conns, ~TimedOut(c)
    PROVE  Ticked(c) \in ConnMeta
<1>1. Fresh(c) \in Nonce
  BY FreshIsNonce
<1>2. meta[c] \in ConnMeta
  BY DEF TypeOK
<1>3. CASE Pinged(c)
  <2>1. Expired(c) => meta[c].missed + 1 \in 0..MaxMissed - 1
    BY <1>2, TimingAssumption DEF TimedOut, ConnMeta
  <2> QED
    BY <1>1, <1>2, <1>3, <2>1 DEF Ticked, ConnMeta
<1>4. CASE ~Pinged(c)
  BY <1>2, <1>4 DEF Ticked, ConnMeta
<1> QED
  BY <1>3, <1>4

(* Replacing the incumbent keeps the types.                                 *)
LEMMA ReplaceIncumbentType ==
    ASSUME TypeOK, NEW sockets \in [Conns -> {"new", "up", "closing", "closed"}],
           NEW tellStale \in BOOLEAN, ReplaceIncumbent(sockets, tellStale), mute' = mute
    PROVE  TypeOK'
<1>1. /\ sock' \in [Conns -> {"new", "up", "closing", "closed"}]
      /\ mute' \subseteq Conns
      /\ webs' \subseteq Conns
  BY DEF TypeOK, ReplaceIncumbent
<1>2. meta' \in [Conns -> ConnMeta]
  BY MetaUpdateType, NewMetaType DEF TypeOK, ReplaceIncumbent
<1>3. bridge' \in Conns \union {NoConn}
  BY DEF TypeOK, ReplaceIncumbent
<1>4. challenge' \in [old : Conns \union {NoConn}, new : Conns \union {NoConn}, nonce : Nonce]
  BY NoNonceType DEF ReplaceIncumbent, NoChallenge
<1>5. lastStatus' \in Reasons \union {"none"} /\ heard' \in [Conns -> Reasons \union {"none"}]
  BY BroadcastType DEF TypeOK, ReplaceIncumbent, NoBroadcast, Reasons
<1>6. asked' \in [Conns -> SUBSET Nonce] /\ silence' \in [Conns -> Nat]
  BY ForgetType DEF ReplaceIncumbent
<1> QED
  BY <1>1, <1>2, <1>3, <1>4, <1>5, <1>6 DEF TypeOK

(* A tick keeps the types when it drops at least what has timed out.        *)
LEMMA TickReapingType ==
    ASSUME TypeOK, NEW reaped, {c \in OpenConns : TimedOut(c)} \subseteq reaped,
           TickReaping(reaped)
    PROVE  TypeOK'
<1>1. sock' \in [Conns -> {"new", "up", "closing", "closed"}]
  BY ClosedType DEF TickReaping
<1>2. meta' \in [Conns -> ConnMeta]
  <2> SUFFICES ASSUME NEW c \in Conns
               PROVE  (IF c \in reaped THEN NoMeta
                       ELSE IF c \in OpenConns THEN Ticked(c) ELSE meta[c]) \in ConnMeta
    BY DEF TickReaping
  <2>1. CASE c \in OpenConns \ reaped
    BY <2>1, TickedType
  <2>2. CASE c \notin OpenConns \ reaped
    BY <2>2, NewMetaType DEF TypeOK
  <2> QED
    BY <2>1, <2>2
<1>3. asked' \in [Conns -> SUBSET Nonce]
  <2>1. \A p \in ToPing : Fresh(p) \in Nonce
    BY FreshIsNonce DEF ToPing, OpenConns, TypeOK
  <2>2. Asked([p \in ToPing |-> Fresh(p)]) \in [Conns -> SUBSET Nonce]
    BY <2>1, AskedType
  <2> QED
    BY <2>2 DEF TickReaping
<1>4. silence' \in [Conns -> Nat]
  BY DEF TypeOK, TickReaping
<1>5. /\ bridge' \in Conns \union {NoConn}
      /\ lastStatus' \in Reasons \union {"none"}
      /\ heard' \in [Conns -> Reasons \union {"none"}]
  BY BroadcastType DEF TypeOK, TickReaping, NoBroadcast, Reasons
<1> QED
  BY <1>1, <1>2, <1>3, <1>4, <1>5 DEF TypeOK, TickReaping

(* Every variable of the room keeps its type.                               *)
THEOREM TypeCorrect == Spec => []TypeOK
<1>1. Init => TypeOK
  BY NewMetaType, NoNonceType DEF Init, TypeOK, NoChallenge
<1>2. TypeOK /\ [Next]_vars => TypeOK'
  <2> SUFFICES ASSUME TypeOK, [Next]_vars
               PROVE  TypeOK'
    OBVIOUS
  <2>1. ASSUME NEW c \in Conns, Upgrade(c)
        PROVE  TypeOK'
    BY <2>1, NewMetaType DEF TypeOK, Upgrade
  <2>2. ASSUME NEW c \in Conns, HandshakeTimeout(c)
        PROVE  TypeOK'
    BY <2>2, MetaUpdateType, ClosedType DEF TypeOK, HandshakeTimeout, Terminate
  <2>3. ASSUME NEW c \in Conns, RejectVersion(c) \/ RejectFirstFrame(c)
        PROVE  TypeOK'
    BY <2>3, ClosedType DEF TypeOK, RejectVersion, RejectFirstFrame, Terminate
  <2>4. ASSUME NEW c \in Conns, AdmitWeb(c)
        PROVE  TypeOK'
    BY <2>4, MetaUpdateType DEF TypeOK, AdmitWeb, Promoted, Replayed, Reasons
  <2>5. ASSUME NEW c \in Conns, RefuseBridge(c)
        PROVE  TypeOK'
    BY <2>5, ClosedType DEF TypeOK, RefuseBridge, Terminate
  <2>6. ASSUME NEW c \in Conns, AdmitBridge(c)
        PROVE  TypeOK'
    BY <2>6, MetaUpdateType, BroadcastType DEF TypeOK, AdmitBridge, TakeSlot, Promoted, Reasons
  <2>7. ASSUME NEW c \in Conns, StartChallenge(c)
        PROVE  TypeOK'
    <3>1. bridge \in Conns
      BY <2>7 DEF StartChallenge, TypeOK
    <3> DEFINE nonce == Fresh(bridge)
    <3>2. nonce \in Nonce
      BY <3>1, FreshIsNonce
    <3>3. meta' \in [Conns -> ConnMeta]
      BY <2>7, <3>1, <3>2, MetaUpdateType DEF TypeOK, StartChallenge, Stamped
    <3>4. asked' \in [Conns -> SUBSET Nonce]
      BY <2>7, <3>2, AskedType DEF StartChallenge
    <3>5. challenge' \in [old : Conns \union {NoConn}, new : Conns \union {NoConn}, nonce : Nonce]
      BY <2>7, <3>1, <3>2 DEF StartChallenge
    <3> QED
      BY <2>7, <3>3, <3>4, <3>5 DEF TypeOK, StartChallenge
  <2>8. ASSUME ChallengeTimeout
        PROVE  TypeOK'
    BY <2>8, ClosedType, ReplaceIncumbentType DEF ChallengeTimeout
  <2>9. ASSUME NEW c \in Conns, RelayPing(c)
        PROVE  TypeOK'
    <3>1. Asked([d \in Recipients(c) |-> Fresh(c)]) \in [Conns -> SUBSET Nonce]
      BY FreshIsNonce, AskedType
    <3> QED
      BY <2>9, <3>1 DEF TypeOK, RelayPing
  <2>10. ASSUME NEW c \in Conns, NEW n \in asked[c], ChallengePong(c, n)
         PROVE  TypeOK'
    BY <2>10, ClosedType, MetaUpdateType, NoNonceType
       DEF TypeOK, ChallengePong, Pong, KeepIncumbent, Unstamped, NoChallenge, Open, AnswersChallenge
  <2>11. ASSUME NEW c \in Conns, NEW n \in asked[c], HeartbeatPong(c, n)
         PROVE  TypeOK'
    BY <2>11, MetaUpdateType DEF TypeOK, HeartbeatPong, Pong
  <2>12. ASSUME NEW c \in Conns, NEW n \in asked[c], OtherPong(c, n)
         PROVE  TypeOK'
    BY <2>12 DEF TypeOK, OtherPong, Pong
  <2>13. ASSUME NEW c \in Conns, DisconnectUntracked(c)
         PROVE  TypeOK'
    BY <2>13 DEF TypeOK, DisconnectUntracked, Drop, Departed
  <2>14. ASSUME NEW c \in Conns, DisconnectChallenger(c)
         PROVE  TypeOK'
    BY <2>14, ForgetType, MetaUpdateType, NewMetaType, NoNonceType
       DEF TypeOK, DisconnectChallenger, Drop, Departed, Unstamped, NoChallenge
  <2>15. ASSUME NEW c \in Conns, DisconnectIncumbent(c)
         PROVE  TypeOK'
    <3>1. Departed(c) \in [Conns -> {"new", "up", "closing", "closed"}]
      BY DEF TypeOK, Departed
    <3> QED
      BY <2>15, <3>1, ReplaceIncumbentType DEF DisconnectIncumbent, Drop
  <2>16. ASSUME NEW c \in Conns, DisconnectOther(c)
         PROVE  TypeOK'
    BY <2>16, ForgetType, BroadcastType, NewMetaType
       DEF TypeOK, DisconnectOther, Drop, Departed, Reasons, NoBroadcast
  <2>17. ASSUME NEW c \in Conns, FallSilent(c)
         PROVE  TypeOK'
    BY <2>17 DEF TypeOK, FallSilent
  <2>18. ASSUME Tick
         PROVE  TypeOK'
    <3>1. PICK throws \in SUBSET {c \in ToPing : ~Reaches(c)} :
                  TickReaping({c \in OpenConns : TimedOut(c)} \union throws)
      BY <2>18 DEF Tick
    <3> QED
      BY <3>1, TickReapingType
  <2>19. CASE UNCHANGED vars
    BY <2>19 DEF TypeOK, vars
  <2> QED
    BY <2>1, <2>2, <2>3, <2>4, <2>5, <2>6, <2>7, <2>8, <2>9, <2>10, <2>11, <2>12, <2>13,
       <2>14, <2>15, <2>16, <2>17, <2>18, <2>19
       DEF Next, Handshake, RecvPong, Disconnect
<1> QED
  BY <1>1, <1>2, PTL DEF Spec

-----------------------------------------------------------------------------
(* The inductive invariant.  SlotIsOpenBridge and ChallengeSound are not    *)
(* inductive by themselves: they need that an untracked connection keeps no *)
(* entry, that a tracked incumbent still owns the slot, and that an         *)
(* incumbent that lost it cannot be accepted again.                         *)

SlotInStep ==
    /\ bridge \in BridgeConns \union {NoConn}
    /\ \A b \in BridgeConns : Open(b) <=> bridge = b

EntriesInStep ==
    \A c \in Conns :
        /\ c \notin webs => meta[c] = NoMeta
        /\ sock[c] = "new" => c \notin webs

ChallengeInStep ==
    Challenging =>
        /\ challenge.old \in BridgeConns
        /\ sock[challenge.old] # "new"
        /\ challenge.old \in webs <=> bridge = challenge.old
        /\ bridge \in {challenge.old, NoConn}
        /\ challenge.new \in BridgeConns \intersect webs
        /\ challenge.new # challenge.old
        /\ meta[challenge.new].phase = "pending" /\ ~meta[challenge.new].timer
        /\ challenge.old \in webs => meta[challenge.old].chal = challenge.nonce

RoomInv ==
    /\ TypeOK
    /\ SlotInStep
    /\ EntriesInStep
    /\ ChallengeInStep
    /\ StatusTruthful
    /\ NobodyStranded
    /\ NoStrayChallengeNonce
    /\ WebsInformed

(* What the entries of untracked and of new connections say.                *)
LEMMA NoMetaFields ==
    /\ NoMeta.phase = "pending" /\ ~NoMeta.timer
    /\ NoMeta.chal = NoNonce
    /\ NewMeta.phase = "pending" /\ NewMeta.timer
    /\ NewMeta.chal = NoNonce
BY DEF NoMeta, NewMeta

(* A tick leaves phase, handshake timer and challenge nonce alone.          *)
LEMMA TickedFields ==
    ASSUME NEW c \in Conns, meta[c] \in ConnMeta
    PROVE  /\ Ticked(c).phase = meta[c].phase
           /\ Ticked(c).timer = meta[c].timer
           /\ Ticked(c).chal = meta[c].chal
BY DEF Ticked, ConnMeta

(* A step that leaves the slot, the challenge and the map of connections    *)
(* alone, that only closes sockets and clears timers of what it closes, and *)
(* that touches of the entries only what the heartbeat needs.               *)
Quiet ==
    /\ UNCHANGED <<webs, bridge, challenge, lastStatus, heard>>
    /\ \A c \in Conns :
        /\ meta'[c].phase = meta[c].phase /\ meta'[c].chal = meta[c].chal
        /\ meta'[c].timer => meta[c].timer
        /\ sock'[c] = "up" => meta'[c].timer = meta[c].timer
        /\ c \notin webs => meta'[c] = meta[c]
        /\ sock'[c] = sock[c] \/ (sock[c] # "new" /\ sock'[c] \notin {"new", "up"})
    /\ mute \subseteq mute'

(* A quiet step keeps every part of the invariant.                          *)
LEMMA QuietKeeps ==
    ASSUME RoomInv, TypeOK', Quiet
    PROVE  RoomInv'
<1> USE DEF Quiet
<1>1. \A c \in Conns : Open(c)' <=> Open(c)
  BY DEF Open
<1>2. SlotInStep'
  BY <1>1 DEF RoomInv, SlotInStep, Conns
<1>3. EntriesInStep'
  BY DEF RoomInv, EntriesInStep
<1>4. ChallengeInStep'
  BY DEF RoomInv, ChallengeInStep, Challenging, Conns
<1>5. StatusTruthful'
  BY DEF RoomInv, StatusTruthful
<1>6. NobodyStranded'
  BY DEF RoomInv, TypeOK, NobodyStranded, Challenging
<1>7. NoStrayChallengeNonce'
  BY DEF RoomInv, TypeOK, NoStrayChallengeNonce, Challenging
<1>8. WebsInformed'
  BY <1>1 DEF RoomInv, WebsInformed, OpenWebs, Reaches, Replayed, Conns
<1> QED
  BY <1>2, <1>3, <1>4, <1>5, <1>6, <1>7, <1>8 DEF RoomInv

(* The handlers that only refuse, relay or record a pong are quiet.         *)
LEMMA QuietSteps ==
    ASSUME RoomInv, NEW c \in Conns
    PROVE  /\ HandshakeTimeout(c) => Quiet
           /\ RejectVersion(c) \/ RejectFirstFrame(c) \/ RefuseBridge(c) => Quiet
           /\ RelayPing(c) => Quiet
           /\ \A n \in asked[c] : HeartbeatPong(c, n) \/ OtherPong(c, n) => Quiet
           /\ DisconnectUntracked(c) => Quiet
           /\ FallSilent(c) => Quiet
<1> USE DEF Quiet, RoomInv, TypeOK
<1>1. HandshakeTimeout(c) => Quiet
  <2> SUFFICES ASSUME HandshakeTimeout(c)
               PROVE  Quiet
    OBVIOUS
  <2>1. c \in webs /\ sock[c] # "new"
    BY NoMetaFields DEF EntriesInStep, HandshakeTimeout
  <2>2. \A d \in Conns \ {c} : meta'[d] = meta[d] /\ sock'[d] = sock[d]
    BY DEF HandshakeTimeout, Terminate, Closed
  <2>3. /\ meta'[c].phase = meta[c].phase /\ meta'[c].chal = meta[c].chal
        /\ ~meta'[c].timer /\ sock'[c] # "up"
        /\ sock'[c] = sock[c] \/ sock'[c] = "closing"
    BY DEF HandshakeTimeout, Terminate, Closed, ConnMeta
  <2> QED
    BY <2>1, <2>2, <2>3 DEF HandshakeTimeout
<1>2. RejectVersion(c) \/ RejectFirstFrame(c) \/ RefuseBridge(c) => Quiet
  BY DEF RejectVersion, RejectFirstFrame, RefuseBridge, Terminate, Closed
<1>3. RelayPing(c) => Quiet
  BY DEF RelayPing
<1>4. ASSUME NEW n \in asked[c]
      PROVE  HeartbeatPong(c, n) \/ OtherPong(c, n) => Quiet
  BY DEF HeartbeatPong, OtherPong, Pong, Open, ConnMeta
<1>5. DisconnectUntracked(c) => Quiet
  BY DEF DisconnectUntracked, Drop, Departed
<1>6. FallSilent(c) => Quiet
  BY DEF FallSilent
<1> QED
  BY <1>1, <1>2, <1>3, <1>4, <1>5, <1>6

(* fetch() keeps the invariant: the new entry is pending and has its timer. *)
LEMMA UpgradeKeeps ==
    ASSUME ConnsAssumption, RoomInv, TypeOK', NEW c \in Conns, Upgrade(c)
    PROVE  RoomInv'
<1>1. SlotInStep'
  BY NoMetaFields DEF RoomInv, SlotInStep, EntriesInStep, Open, Upgrade
<1>2. EntriesInStep'
  BY NoMetaFields DEF RoomInv, TypeOK, SlotInStep, EntriesInStep, Open, Upgrade
<1>3. ChallengeInStep'
  BY DEF RoomInv, TypeOK, EntriesInStep, ChallengeInStep, Challenging, Upgrade
<1>4. StatusTruthful'
  BY DEF RoomInv, EntriesInStep, ChallengeInStep, StatusTruthful, Upgrade
<1>5. NobodyStranded'
  BY NoMetaFields DEF RoomInv, TypeOK, NobodyStranded, Challenging, Upgrade
<1>6. NoStrayChallengeNonce'
  BY NoMetaFields DEF RoomInv, TypeOK, NoStrayChallengeNonce, Challenging, Upgrade
<1>7. WebsInformed'
  BY NoMetaFields DEF RoomInv, EntriesInStep, Open, WebsInformed, OpenWebs, Reaches, Replayed, Upgrade
<1> QED
  BY <1>1, <1>2, <1>3, <1>4, <1>5, <1>6, <1>7 DEF RoomInv

(* Admitting a web keeps the invariant: the replay informs it.              *)
LEMMA AdmitWebKeeps ==
    ASSUME ConnsAssumption, RoomInv, TypeOK', NEW c \in Conns, AdmitWeb(c)
    PROVE  RoomInv'
<1>1. SlotInStep'
  BY DEF RoomInv, TypeOK, SlotInStep, Open, AdmitWeb, Promoted
<1>2. EntriesInStep'
  BY DEF RoomInv, TypeOK, SlotInStep, EntriesInStep, Open, AdmitWeb, Handshakes, Promoted
<1>3. ChallengeInStep'
  BY DEF RoomInv, TypeOK, EntriesInStep, ChallengeInStep, Challenging, NoChallenge, AdmitWeb, Promoted
<1>4. StatusTruthful'
  BY DEF RoomInv, TypeOK, ChallengeInStep, StatusTruthful, AdmitWeb, Handshakes, Replayed
<1>5. NobodyStranded'
  BY DEF RoomInv, TypeOK, NobodyStranded, Challenging, AdmitWeb, Promoted
<1>6. NoStrayChallengeNonce'
  BY DEF RoomInv, TypeOK, NoStrayChallengeNonce, Challenging, AdmitWeb, Promoted
<1>7. WebsInformed'
  BY DEF RoomInv, TypeOK, Open, WebsInformed, OpenWebs, Reaches, Replayed, AdmitWeb, Handshakes, Promoted
<1> QED
  BY <1>1, <1>2, <1>3, <1>4, <1>5, <1>6, <1>7 DEF RoomInv

(* Admitting a bridge to the free slot keeps the invariant.                 *)
LEMMA AdmitBridgeKeeps ==
    ASSUME ConnsAssumption, RoomInv, TypeOK', NEW c \in Conns, AdmitBridge(c)
    PROVE  RoomInv'
<1>1. SlotInStep'
  BY DEF RoomInv, TypeOK, SlotInStep, Open, AdmitBridge, Handshakes, TakeSlot, Promoted
<1>2. EntriesInStep'
  BY DEF RoomInv, TypeOK, SlotInStep, EntriesInStep, Open, AdmitBridge, Handshakes, TakeSlot, Promoted
<1>3. ChallengeInStep'
  BY DEF RoomInv, TypeOK, EntriesInStep, ChallengeInStep, Challenging, NoChallenge, AdmitBridge, Handshakes, TakeSlot
<1>4. StatusTruthful'
  BY DEF ChallengeInStep, StatusTruthful, AdmitBridge, Handshakes, TakeSlot, Promoted, Broadcast
<1>5. NobodyStranded'
  BY DEF RoomInv, TypeOK, NobodyStranded, Challenging, AdmitBridge, TakeSlot, Promoted
<1>6. NoStrayChallengeNonce'
  BY DEF RoomInv, TypeOK, NoStrayChallengeNonce, AdmitBridge, TakeSlot, Promoted
<1>7. WebsInformed'
  BY DEF RoomInv, TypeOK, Open, WebsInformed, OpenWebs, Reaches, Replayed, AdmitBridge, Handshakes, TakeSlot, Promoted, Broadcast
<1> QED
  BY <1>1, <1>2, <1>3, <1>4, <1>5, <1>6, <1>7 DEF RoomInv

(* Starting a challenge keeps the invariant: it stands in for the timer.    *)
LEMMA StartChallengeKeeps ==
    ASSUME ConnsAssumption, RoomInv, TypeOK', NEW c \in Conns, StartChallenge(c)
    PROVE  RoomInv'
<1>1. SlotInStep'
  <2>1. bridge \in Conns /\ bridge \in BridgeConns
    BY DEF RoomInv, SlotInStep, StartChallenge, Conns
  <2>2. \A d \in Conns : meta'[d].phase = meta[d].phase
    BY <2>1 DEF RoomInv, TypeOK, ConnMeta, StartChallenge, Stamped
  <2> QED
    BY <2>1, <2>2 DEF RoomInv, SlotInStep, Open, StartChallenge, Conns
<1>2. EntriesInStep'
  BY NoMetaFields DEF RoomInv, TypeOK, SlotInStep, EntriesInStep, Open, StartChallenge, Handshakes, Stamped
<1>3. ChallengeInStep'
  BY DEF RoomInv, TypeOK, SlotInStep, EntriesInStep, ChallengeInStep, Open, ConnMeta, Challenging, NoChallenge, StartChallenge, Handshakes, Stamped
<1>4. StatusTruthful'
  BY DEF RoomInv, TypeOK, SlotInStep, EntriesInStep, ChallengeInStep, Open, ConnMeta, StatusTruthful, StartChallenge, Handshakes, Stamped
<1>5. NobodyStranded'
  BY DEF RoomInv, TypeOK, NobodyStranded, Challenging, NoChallenge, StartChallenge, Stamped
<1>6. NoStrayChallengeNonce'
  BY DEF RoomInv, TypeOK, ConnMeta, NoStrayChallengeNonce, Challenging, NoChallenge, StartChallenge, Stamped
<1>7. WebsInformed'
  <2>1. bridge \in Conns
    BY DEF RoomInv, SlotInStep, StartChallenge, Conns
  <2>2. \A d \in Conns : meta'[d].phase = meta[d].phase
    BY <2>1 DEF RoomInv, TypeOK, ConnMeta, StartChallenge, Stamped
  <2>3. OpenWebs' = OpenWebs /\ \A d \in Conns : Reaches(d)' <=> Reaches(d)
    BY <2>2 DEF OpenWebs, Open, Reaches, StartChallenge, Conns
  <2> QED
    BY <2>3 DEF RoomInv, WebsInformed, OpenWebs, Replayed, StartChallenge, Conns
<1> QED
  BY <1>1, <1>2, <1>3, <1>4, <1>5, <1>6, <1>7 DEF RoomInv

(* In step with the invariant, replacing the incumbent always promotes.     *)
Promotes(sockets) ==
    /\ webs' = webs \ {challenge.old}
    /\ meta' = [c \in Conns |->
                   IF c = challenge.old THEN NoMeta
                   ELSE IF c = challenge.new
                   THEN [meta[c] EXCEPT !.phase = "open", !.timer = FALSE]
                   ELSE meta[c]]
    /\ bridge' = challenge.new
    /\ challenge' = NoChallenge
    /\ sock' = sockets
    /\ Broadcast("connected", OpenWebs)

(* The challenger of a challenge in flight is always there to be promoted.  *)
LEMMA ReplaceIncumbentPromotes ==
    ASSUME ConnsAssumption, RoomInv, Challenging, NEW sockets, NEW tellStale,
           ReplaceIncumbent(sockets, tellStale)
    PROVE  Promotes(sockets)
BY DEF RoomInv, ChallengeInStep, ReplaceIncumbent, Promotes

(* Replacing the incumbent keeps the invariant.                             *)
LEMMA ReplaceIncumbentKeeps ==
    ASSUME ConnsAssumption, RoomInv, TypeOK', Challenging, mute' = mute,
           NEW sockets, NEW tellStale, ReplaceIncumbent(sockets, tellStale),
           sockets \in [Conns -> {"new", "up", "closing", "closed"}],
           sockets[challenge.old] # "new",
           \A c \in Conns \ {challenge.old} : sockets[c] = sock[c]
    PROVE  RoomInv'
<1> DEFINE old == challenge.old
           new == challenge.new
<1>1. Promotes(sockets)
  BY ReplaceIncumbentPromotes
<1>2. /\ old \in BridgeConns /\ old \in Conns
      /\ new \in BridgeConns /\ new \in Conns /\ new \in webs /\ new # old
  BY DEF RoomInv, ChallengeInStep, Conns
<1>3. \A c \in Conns : meta[c] \in ConnMeta
  BY DEF RoomInv, TypeOK
<1>4. \A c \in Conns \ {old, new} : meta'[c] = meta[c]
  BY <1>1 DEF Promotes
<1>5. meta'[old] = NoMeta
  BY <1>1, <1>2 DEF Promotes
<1>6. /\ meta'[new].phase = "open"
      /\ ~meta'[new].timer
      /\ meta'[new].chal = meta[new].chal
  BY <1>1, <1>2, <1>3 DEF Promotes, ConnMeta
<1>7. SlotInStep'
  <2> SUFFICES ASSUME NEW b \in BridgeConns
               PROVE  Open(b)' <=> bridge' = b
    BY <1>1, <1>2 DEF SlotInStep, Promotes
  <2>1. CASE b = old
    BY <2>1, <1>1, <1>2 DEF Promotes, Open
  <2>2. CASE b = new
    BY <2>2, <1>1, <1>2, <1>6 DEF Promotes, Open
  <2>3. CASE b \notin {old, new}
    <3>1. ~Open(b)
      BY <2>3 DEF RoomInv, SlotInStep, ChallengeInStep, ConnsAssumption, Conns
    <3> QED
      BY <2>3, <3>1, <1>1, <1>4 DEF Promotes, Open, Conns
  <2> QED
    BY <2>1, <2>2, <2>3
<1>8. EntriesInStep'
  <2> SUFFICES ASSUME NEW c \in Conns
               PROVE  (c \notin webs' => meta'[c] = NoMeta) /\ (sock'[c] = "new" => c \notin webs')
    BY DEF EntriesInStep
  <2> QED
    BY <1>1, <1>2, <1>4, <1>5 DEF RoomInv, EntriesInStep, Promotes
<1>9. ~Challenging'
  BY <1>1 DEF Challenging, Promotes
<1>10. ChallengeInStep'
  BY <1>9 DEF ChallengeInStep
<1>11. StatusTruthful'
  BY <1>1, <1>2 DEF StatusTruthful, Promotes, Broadcast, ConnsAssumption
<1>12. NobodyStranded'
  <2> SUFFICES ASSUME NEW c \in webs', meta'[c].phase = "pending", sock'[c] = "up"
               PROVE  meta'[c].timer
    BY DEF NobodyStranded
  <2>1. c \in Conns /\ c \in webs /\ c \notin {old, new}
    BY <1>1, <1>6 DEF RoomInv, TypeOK, Promotes
  <2> QED
    BY <2>1, <1>1, <1>4 DEF RoomInv, NobodyStranded, Promotes
<1>13. NoStrayChallengeNonce'
  <2> SUFFICES ASSUME NEW c \in webs', meta'[c].chal # NoNonce
               PROVE  FALSE
    BY DEF NoStrayChallengeNonce
  <2>1. c \in Conns /\ c \in webs /\ c # old /\ meta[c].chal # NoNonce
    BY <1>1, <1>4, <1>6 DEF RoomInv, TypeOK, Promotes
  <2> QED
    BY <2>1 DEF RoomInv, NoStrayChallengeNonce
<1>14. WebsInformed'
  <2> SUFFICES ASSUME NEW w \in OpenWebs', Reaches(w)'
               PROVE  heard'[w] = Replayed'
    BY DEF WebsInformed
  <2>1. w \in WebConns /\ w \in Conns /\ w \notin {old, new}
    BY <1>2 DEF OpenWebs, Conns, ConnsAssumption
  <2>2. w \in OpenWebs /\ Reaches(w)
    BY <1>1, <1>4, <2>1 DEF OpenWebs, Open, Reaches, Promotes
  <2> QED
    BY <1>1, <2>1, <2>2 DEF Promotes, Broadcast, Replayed
<1> QED
  BY <1>7, <1>8, <1>10, <1>11, <1>12, <1>13, <1>14 DEF RoomInv

(* The budget timer keeps the invariant.                                    *)
LEMMA ChallengeTimeoutKeeps ==
    ASSUME ConnsAssumption, RoomInv, TypeOK', ChallengeTimeout
    PROVE  RoomInv'
<1>1. /\ Closed({challenge.old}) \in [Conns -> {"new", "up", "closing", "closed"}]
      /\ Closed({challenge.old})[challenge.old] # "new"
      /\ \A c \in Conns \ {challenge.old} : Closed({challenge.old})[c] = sock[c]
  BY DEF RoomInv, TypeOK, ChallengeTimeout, ChallengeInStep, Closed, Conns
<1> QED
  BY <1>1, ReplaceIncumbentKeeps DEF ChallengeTimeout

(* The answer to the probe keeps the invariant.                             *)
LEMMA ChallengePongKeeps ==
    ASSUME ConnsAssumption, RoomInv, TypeOK', NEW c \in Conns, NEW n \in asked[c], ChallengePong(c, n)
    PROVE  RoomInv'
<1>1. SlotInStep'
  BY DEF RoomInv, SlotInStep, Open, ChallengePong, KeepIncumbent, Unstamped
<1>2. EntriesInStep'
  BY DEF RoomInv, SlotInStep, EntriesInStep, Open, ChallengePong, Pong, AnswersChallenge, KeepIncumbent, Unstamped, Closed
<1>3. ChallengeInStep'
  BY DEF RoomInv, EntriesInStep, ChallengeInStep, Open, Challenging, NoChallenge, ChallengePong, Pong, AnswersChallenge, KeepIncumbent
<1>4. StatusTruthful'
  BY DEF RoomInv, ChallengeInStep, StatusTruthful, ChallengePong, Pong, KeepIncumbent, Unstamped
<1>5. NobodyStranded'
  BY DEF RoomInv, TypeOK, NobodyStranded, Challenging, ChallengePong, Pong, KeepIncumbent, Unstamped, Closed
<1>6. NoStrayChallengeNonce'
  BY DEF RoomInv, TypeOK, NoStrayChallengeNonce, ChallengePong, KeepIncumbent, Unstamped, Closed
<1>7. WebsInformed'
  BY DEF RoomInv, TypeOK, Open, WebsInformed, OpenWebs, Reaches, Replayed, ChallengePong, Pong, AnswersChallenge, KeepIncumbent, Unstamped, Closed
<1> QED
  BY <1>1, <1>2, <1>3, <1>4, <1>5, <1>6, <1>7 DEF RoomInv

(* The challenger's close event keeps the invariant: the nonce is cleared.  *)
LEMMA DisconnectChallengerKeeps ==
    ASSUME ConnsAssumption, RoomInv, TypeOK', NEW c \in Conns, DisconnectChallenger(c)
    PROVE  RoomInv'
<1>1. SlotInStep'
  BY DEF RoomInv, TypeOK, SlotInStep, EntriesInStep, ChallengeInStep, Open, ConnMeta, DisconnectChallenger, Departed, Unstamped
<1>2. EntriesInStep'
  BY NoMetaFields DEF RoomInv, TypeOK, SlotInStep, EntriesInStep, ChallengeInStep, Open, ConnMeta, DisconnectChallenger, Departed, Unstamped
<1>3. ChallengeInStep'
  BY NoMetaFields DEF RoomInv, TypeOK, EntriesInStep, ChallengeInStep, ConnMeta, Challenging, DisconnectChallenger, Drop
<1>4. StatusTruthful'
  BY DEF RoomInv, ChallengeInStep, StatusTruthful, DisconnectChallenger, Drop
<1>5. NobodyStranded'
  BY DEF RoomInv, TypeOK, ConnMeta, NobodyStranded, Challenging, DisconnectChallenger, Departed, Unstamped
<1>6. NoStrayChallengeNonce'
  BY DEF RoomInv, TypeOK, ConnMeta, NoStrayChallengeNonce, DisconnectChallenger, Departed, Unstamped
<1>7. WebsInformed'
  BY DEF RoomInv, TypeOK, Open, ConnMeta, WebsInformed, OpenWebs, Reaches, Replayed, DisconnectChallenger, Drop, Departed, Unstamped
<1> QED
  BY <1>1, <1>2, <1>3, <1>4, <1>5, <1>6, <1>7 DEF RoomInv

(* The incumbent's close event during a challenge keeps the invariant.      *)
LEMMA DisconnectIncumbentKeeps ==
    ASSUME ConnsAssumption, RoomInv, TypeOK', NEW c \in Conns, DisconnectIncumbent(c)
    PROVE  RoomInv'
<1>1. /\ Departed(c) \in [Conns -> {"new", "up", "closing", "closed"}]
      /\ Departed(c)[c] = "closed"
      /\ \A d \in Conns \ {c} : Departed(c)[d] = sock[d]
  BY DEF RoomInv, TypeOK, Departed
<1> QED
  BY <1>1, ReplaceIncumbentKeeps DEF DisconnectIncumbent, Drop

(* Any other close event keeps the invariant, the owner's frees the slot.   *)
LEMMA DisconnectOtherKeeps ==
    ASSUME ConnsAssumption, RoomInv, TypeOK', NEW c \in Conns, DisconnectOther(c)
    PROVE  RoomInv'
<1>1. SlotInStep'
  <2>1. \A d \in Conns \ {c} : meta'[d] = meta[d]
    BY DEF DisconnectOther
  <2>2. \A b \in BridgeConns : Open(b)' <=> Open(b) /\ b # c
    BY <2>1 DEF Open, DisconnectOther
  <2> QED
    BY <2>2 DEF RoomInv, SlotInStep, DisconnectOther, Conns
<1>2. EntriesInStep'
  BY NoMetaFields DEF RoomInv, TypeOK, EntriesInStep, DisconnectOther, Departed
<1>3. ChallengeInStep'
  BY DEF RoomInv, TypeOK, EntriesInStep, ChallengeInStep, Challenging, DisconnectOther, Departed
<1>4. StatusTruthful'
  BY DEF RoomInv, ChallengeInStep, StatusTruthful, DisconnectOther, Drop, Broadcast, NoBroadcast
<1>5. NobodyStranded'
  BY DEF RoomInv, NobodyStranded, Challenging, DisconnectOther, Drop, Departed
<1>6. NoStrayChallengeNonce'
  BY DEF RoomInv, NoStrayChallengeNonce, Challenging, DisconnectOther, Departed
<1>7. WebsInformed'
  BY DEF RoomInv, TypeOK, Open, WebsInformed, OpenWebs, Reaches, Replayed, DisconnectOther, Drop, Departed, Broadcast, NoBroadcast
<1> QED
  BY <1>1, <1>2, <1>3, <1>4, <1>5, <1>6, <1>7 DEF RoomInv

(* A tick keeps the invariant: the slot is freed when its owner is dropped. *)
LEMMA TickReapingKeeps ==
    ASSUME ConnsAssumption, RoomInv, TypeOK', NEW reaped \in SUBSET OpenConns, TickReaping(reaped)
    PROVE  RoomInv'
<1>1. SlotInStep'
  <2>1. \A d \in Conns \ reaped : meta'[d].phase = meta[d].phase
    BY TickedFields DEF RoomInv, TypeOK, TickReaping
  <2>2. \A b \in BridgeConns : Open(b)' <=> Open(b) /\ b \notin reaped
    BY <2>1 DEF Open, TickReaping, Conns
  <2> QED
    BY <2>2 DEF RoomInv, SlotInStep, TickReaping, Conns
<1>2. EntriesInStep'
  BY NoMetaFields, TickedFields DEF RoomInv, SlotInStep, EntriesInStep, TickReaping, Closed, OpenConns
<1>3. ChallengeInStep'
  BY TickedFields DEF RoomInv, TypeOK, EntriesInStep, ChallengeInStep, Open, Challenging, NoChallenge, TickReaping, Closed, Broadcast, OpenConns
<1>4. StatusTruthful'
  BY TickedFields DEF RoomInv, TypeOK, ChallengeInStep, Open, StatusTruthful, TickReaping, Closed, Broadcast, NoBroadcast
<1>5. NobodyStranded'
  BY TickedFields DEF RoomInv, TypeOK, NobodyStranded, Challenging, TickReaping, Closed
<1>6. NoStrayChallengeNonce'
  BY TickedFields DEF RoomInv, TypeOK, NoStrayChallengeNonce, Challenging, TickReaping, Closed
<1>7. WebsInformed'
  BY TickedFields DEF RoomInv, TypeOK, Open, WebsInformed, OpenWebs, Reaches, Replayed, TickReaping, Closed, Broadcast, NoBroadcast
<1> QED
  BY <1>1, <1>2, <1>3, <1>4, <1>5, <1>6, <1>7 DEF RoomInv

-----------------------------------------------------------------------------
(* One step of the room keeps the invariant.                                *)
LEMMA StepKeeps ==
    ASSUME ConnsAssumption, RoomInv, TypeOK', [Next]_vars
    PROVE  RoomInv'
<1>1. ASSUME NEW c \in Conns, Upgrade(c)
      PROVE  RoomInv'
  BY <1>1, UpgradeKeeps
<1>2. ASSUME NEW c \in Conns,
             \/ HandshakeTimeout(c) \/ RejectVersion(c) \/ RejectFirstFrame(c) \/ RefuseBridge(c)
             \/ RelayPing(c) \/ DisconnectUntracked(c) \/ FallSilent(c)
      PROVE  RoomInv'
  BY <1>2, QuietKeeps, QuietSteps
<1>3. ASSUME NEW c \in Conns, NEW n \in asked[c], HeartbeatPong(c, n) \/ OtherPong(c, n)
      PROVE  RoomInv'
  BY <1>3, QuietKeeps, QuietSteps
<1>4. ASSUME NEW c \in Conns, AdmitWeb(c) \/ AdmitBridge(c) \/ StartChallenge(c)
      PROVE  RoomInv'
  BY <1>4, AdmitWebKeeps, AdmitBridgeKeeps, StartChallengeKeeps
<1>5. ASSUME NEW c \in Conns, NEW n \in asked[c], ChallengePong(c, n)
      PROVE  RoomInv'
  BY <1>5, ChallengePongKeeps
<1>6. ASSUME NEW c \in Conns,
             DisconnectChallenger(c) \/ DisconnectIncumbent(c) \/ DisconnectOther(c)
      PROVE  RoomInv'
  BY <1>6, DisconnectChallengerKeeps, DisconnectIncumbentKeeps, DisconnectOtherKeeps
<1>7. CASE ChallengeTimeout
  BY <1>7, ChallengeTimeoutKeeps
<1>8. CASE Tick
  <2>1. PICK reaped \in SUBSET OpenConns : TickReaping(reaped)
    BY <1>8 DEF Tick, ToPing
  <2> QED
    BY <2>1, TickReapingKeeps
<1>9. CASE UNCHANGED vars
  <2>1. UNCHANGED <<sock, mute, webs, meta, bridge, challenge, lastStatus, heard>>
    BY <1>9 DEF vars
  <2>2. Quiet
    BY <2>1 DEF Quiet
  <2> QED
    BY <2>2, QuietKeeps
<1> QED
  BY <1>1, <1>2, <1>3, <1>4, <1>5, <1>6, <1>7, <1>8, <1>9 DEF Next, Handshake, RecvPong, Disconnect

(* Slot, map of connections, challenge, status and timers stay in step.     *)
THEOREM RoomInvariant == Spec => []RoomInv
<1>1. Init => RoomInv
  <2> SUFFICES ASSUME Init
               PROVE  RoomInv
    OBVIOUS
  <2>1. TypeOK
    BY NewMetaType, NoNonceType DEF Init, TypeOK, NoChallenge
  <2>2. SlotInStep
    BY ConnsAssumption DEF Init, SlotInStep, Open, Conns
  <2>3. /\ EntriesInStep /\ ChallengeInStep /\ StatusTruthful
        /\ NobodyStranded /\ NoStrayChallengeNonce /\ WebsInformed
    BY DEF Init, EntriesInStep, ChallengeInStep, Challenging, StatusTruthful, NobodyStranded,
           NoStrayChallengeNonce, WebsInformed, OpenWebs, Open
  <2> QED
    BY <2>1, <2>2, <2>3 DEF RoomInv
<1>2. TypeOK' /\ RoomInv /\ [Next]_vars => RoomInv'
  BY ConnsAssumption, StepKeeps
<1> QED
  BY <1>1, <1>2, TypeCorrect, PTL DEF Spec

(* The slot and the map of connections name the same bridge.                *)
THEOREM OneOpenBridge == Spec => []SlotIsOpenBridge
<1>1. RoomInv => SlotIsOpenBridge
  BY ConnsAssumption DEF RoomInv, SlotInStep, SlotIsOpenBridge, Conns
<1> QED
  BY <1>1, RoomInvariant, PTL

(* The relay serves the owner of the slot and no other bridge.              *)
THEOREM OwnerIsServed == Spec => []RelayToOwner
<1>1. RoomInv => RelayToOwner
  <2> SUFFICES ASSUME RoomInv, NEW w \in OpenWebs
               PROVE  Recipients(w) = {bridge} \ {NoConn}
    BY DEF RelayToOwner
  <2>1. w \in WebConns /\ w \notin BridgeConns
    BY ConnsAssumption DEF OpenWebs
  <2>2. Recipients(w) = {b \in BridgeConns : Open(b)}
    BY <2>1, ConnsAssumption DEF RoomInv, TypeOK, Recipients, Open, Conns
  <2> QED
    BY <2>2, ConnsAssumption DEF RoomInv, SlotInStep, Conns
<1> QED
  BY <1>1, RoomInvariant, PTL

(* A challenge is about the owner, its challenger waits without a timer, no *)
(* nonce of an earlier one is left, and no pending connection is stranded.  *)
THEOREM ChallengesAreHandled == Spec => []ChallengeHandled
<1>1. RoomInv => ChallengeSound
  BY DEF RoomInv, ChallengeInStep, ChallengeSound
<1>2. RoomInv => ChallengeHandled
  BY <1>1 DEF RoomInv, ChallengeHandled
<1> QED
  BY <1>2, RoomInvariant, PTL

(* The remembered status is the truth, and every web in reach has heard it. *)
THEOREM WebsKnowTheTruth == Spec => []StatusTold
<1>1. RoomInv => StatusTold
  BY DEF RoomInv, StatusTold
<1> QED
  BY <1>1, RoomInvariant, PTL

-----------------------------------------------------------------------------
(* The room implements the slot.  The bridges that are gone are those whose *)
(* connection was opened once and is not tracked any more.                  *)
Gone == {b \in BridgeConns : sock[b] # "new" /\ b \notin webs}

(* A quiet step does not touch the slot.                                    *)
LEMMA QuietStutters ==
    ASSUME RoomInv, Quiet
    PROVE  UNCHANGED Slot!vars
<1>1. \A b \in BridgeConns : sock'[b] = "new" <=> sock[b] = "new"
  BY DEF Quiet, RoomInv, Conns
<1> QED
  BY <1>1 DEF Quiet, Slot!vars

(* Whatever ends a challenge for the challenger hands the slot over.        *)
LEMMA ReplaceIncumbentHandsOver ==
    ASSUME ConnsAssumption, RoomInv, Challenging,
           NEW sockets, NEW tellStale, ReplaceIncumbent(sockets, tellStale),
           sockets[challenge.old] # "new",
           \A c \in Conns \ {challenge.old} : sockets[c] = sock[c]
    PROVE  Slot!HandOver
<1>1. Promotes(sockets)
  BY ReplaceIncumbentPromotes
<1>2. /\ challenge.new \in BridgeConns /\ challenge.new # NoConn
      /\ challenge.old \in BridgeConns /\ challenge.old # NoConn
      /\ sock[challenge.old] # "new"
      /\ challenge.old \in webs <=> bridge = challenge.old
      /\ bridge \in {challenge.old, NoConn}
  BY DEF RoomInv, ChallengeInStep, ConnsAssumption, Conns
<1>3. Gone' = Gone \union {challenge.old}
  BY <1>1, <1>2 DEF Gone, Promotes, Conns
<1>4. Gone' = Gone \union ({bridge} \ {NoConn})
  BY <1>2, <1>3 DEF Gone
<1> QED
  BY <1>1, <1>2, <1>4 DEF Slot!HandOver, Gone, Promotes, NoChallenge

(* A close event is a step of the slot: a withdrawal, a hand-over, a leave. *)
LEMMA DisconnectStep ==
    ASSUME ConnsAssumption, RoomInv, NEW c \in Conns,
           DisconnectChallenger(c) \/ DisconnectIncumbent(c) \/ DisconnectOther(c)
    PROVE  [Slot!Next]_Slot!vars
<1> USE DEF RoomInv, TypeOK
<1>1. c \in BridgeConns /\ ~DisconnectIncumbent(c) => Gone' = Gone \union {c} /\ c \notin Gone
  <2> SUFFICES ASSUME c \in BridgeConns, DisconnectChallenger(c) \/ DisconnectOther(c)
               PROVE  Gone' = Gone \union {c} /\ c \notin Gone
    OBVIOUS
  <2>1. c \in webs /\ webs' = webs \ {c} /\ sock' = [sock EXCEPT ![c] = "closed"]
    BY DEF DisconnectChallenger, DisconnectOther, Departed, Drop
  <2> QED
    BY <2>1 DEF Gone, Conns
<1>2. CASE DisconnectChallenger(c)
  <2>1. Slot!Withdraw
    BY <1>1, <1>2 DEF DisconnectChallenger, DisconnectIncumbent, Slot!Withdraw, Gone, ChallengeInStep, NoChallenge,
                      ConnsAssumption, Conns
  <2> QED
    BY <2>1 DEF Slot!Next
<1>3. CASE DisconnectIncumbent(c)
  <2>1. Departed(c)[c] # "new" /\ \A d \in Conns \ {c} : Departed(c)[d] = sock[d]
    BY DEF Departed
  <2>2. Slot!HandOver
    BY <1>3, <2>1, ReplaceIncumbentHandsOver DEF DisconnectIncumbent
  <2> QED
    BY <2>2 DEF Slot!Next
<1>4. CASE DisconnectOther(c) /\ bridge = c
  <2>1. Slot!Leave
    BY <1>1, <1>4 DEF DisconnectOther, DisconnectIncumbent, SlotInStep, Slot!Leave, Gone, ConnsAssumption, Conns
  <2> QED
    BY <2>1 DEF Slot!Next
<1>5. CASE DisconnectOther(c) /\ bridge # c /\ c \in BridgeConns
  <2>1. c # challenge.new
    BY <1>5, ConnsAssumption DEF DisconnectOther, Challenging, NoChallenge
  <2>2. Slot!Depart(c)
    BY <1>1, <1>5, <2>1 DEF DisconnectOther, DisconnectIncumbent, Slot!Depart, Gone
  <2> QED
    BY <1>5, <2>2 DEF Slot!Next
<1>6. CASE DisconnectOther(c) /\ bridge # c /\ c \notin BridgeConns
  <2>1. Gone' = Gone
    BY <1>6 DEF DisconnectOther, Departed, Gone, Conns
  <2> QED
    BY <1>6, <2>1 DEF DisconnectOther, Slot!vars, Gone
<1> QED
  BY <1>2, <1>3, <1>4, <1>5, <1>6

(* Every step of the room is a step of the slot or leaves it alone.         *)
LEMMA SlotStep ==
    ASSUME ConnsAssumption, RoomInv, [Next]_vars
    PROVE  [Slot!Next]_Slot!vars
<1> USE DEF RoomInv, TypeOK
<1>1. ASSUME NEW c \in Conns, Upgrade(c) \/ AdmitWeb(c)
      PROVE  UNCHANGED Slot!vars
  <2>1. Gone' = Gone
    BY <1>1 DEF Upgrade, AdmitWeb, Gone, Conns
  <2> QED
    BY <1>1, <2>1 DEF Upgrade, AdmitWeb, Gone, Slot!vars
<1>2. ASSUME NEW c \in Conns,
             \/ HandshakeTimeout(c) \/ RejectVersion(c) \/ RejectFirstFrame(c) \/ RefuseBridge(c)
             \/ RelayPing(c) \/ DisconnectUntracked(c) \/ FallSilent(c)
      PROVE  UNCHANGED Slot!vars
  BY <1>2, QuietSteps, QuietStutters
<1>3. ASSUME NEW c \in Conns, NEW n \in asked[c], HeartbeatPong(c, n) \/ OtherPong(c, n)
      PROVE  UNCHANGED Slot!vars
  BY <1>3, QuietSteps, QuietStutters
<1>4. ASSUME NEW c \in Conns, AdmitBridge(c)
      PROVE  Slot!Acquire(c)
  BY <1>4, ConnsAssumption
     DEF AdmitBridge, Handshakes, TakeSlot, SlotInStep, Open, Challenging, NoChallenge,
         Slot!Acquire, Conns
<1>5. ASSUME NEW c \in Conns, StartChallenge(c)
      PROVE  Slot!Contend(c)
  BY <1>5, ConnsAssumption DEF StartChallenge, Handshakes, Challenging, NoChallenge, Slot!Contend
<1>6. ASSUME NEW c \in Conns, NEW n \in asked[c], ChallengePong(c, n)
      PROVE  Slot!Uphold
  <2>1. /\ c \in webs /\ c = challenge.old /\ Challenging
        /\ bridge = c /\ c # NoConn
        /\ challenge.new \in BridgeConns /\ challenge.new # NoConn
    BY <1>6, ConnsAssumption
       DEF ChallengePong, Pong, AnswersChallenge, Open, ChallengeInStep, Conns
  <2>2. \A b \in Conns : sock'[b] = "new" <=> sock[b] = "new"
    BY <1>6 DEF ChallengePong, KeepIncumbent, Closed
  <2> QED
    <3>1. Gone' = Gone
      BY <1>6, <2>2 DEF ChallengePong, KeepIncumbent, Gone, Conns
    <3> QED
      BY <1>6, <2>1, <3>1 DEF ChallengePong, KeepIncumbent, NoChallenge, Gone, Slot!Uphold
<1>7. ASSUME ChallengeTimeout
      PROVE  Slot!HandOver
  <2>1. /\ Closed({challenge.old})[challenge.old] # "new"
        /\ \A c \in Conns \ {challenge.old} : Closed({challenge.old})[c] = sock[c]
    BY <1>7 DEF ChallengeTimeout, ChallengeInStep, Closed, Conns
  <2> QED
    BY <1>7, <2>1, ReplaceIncumbentHandsOver DEF ChallengeTimeout
<1>8. ASSUME NEW reaped \in SUBSET OpenConns, TickReaping(reaped)
      PROVE  Slot!Leave \/ UNCHANGED Slot!vars
  <2>1. /\ reaped \intersect BridgeConns = {bridge} \intersect reaped
        /\ \A b \in reaped : sock[b] # "new" /\ b \in webs
    BY ConnsAssumption DEF SlotInStep, EntriesInStep, OpenConns, Open, Conns
  <2>2. \A b \in Conns : sock'[b] = "new" <=> sock[b] = "new"
    BY <1>8 DEF TickReaping, Closed
  <2>3. Gone' = Gone \union ({bridge} \intersect reaped)
    BY <1>8, <2>1, <2>2 DEF TickReaping, Gone, Conns
  <2>4. CASE bridge \in reaped
    <3>1. bridge # NoConn
      BY <2>4, ConnsAssumption DEF OpenConns
    <3> QED
      BY <1>8, <2>3, <2>4, <3>1 DEF TickReaping, Slot!Leave, Gone
  <2>5. CASE bridge \notin reaped
    BY <1>8, <2>3, <2>5 DEF TickReaping, Slot!vars, Gone
  <2> QED
    BY <2>4, <2>5
<1>9. ASSUME Tick
      PROVE  \E reaped \in SUBSET OpenConns : TickReaping(reaped)
  BY <1>9 DEF Tick, ToPing
<1>10. ASSUME UNCHANGED vars
       PROVE  UNCHANGED Slot!vars
  BY <1>10 DEF vars, Slot!vars
<1>11. \A c \in Conns : AdmitBridge(c) \/ StartChallenge(c) => c \in BridgeConns
  BY DEF AdmitBridge, StartChallenge
<1> QED
  BY <1>1, <1>2, <1>3, <1>4, <1>5, <1>6, <1>7, <1>8, <1>9, <1>10, <1>11, DisconnectStep
     DEF Next, Handshake, RecvPong, Disconnect, Slot!Next

(* The room implements the abstract slot.                                   *)
THEOREM ImplementsSlot == Spec => SlotImplemented
<1>1. Init => Slot!Init
  BY DEF Init, Slot!Init, NoChallenge, Conns
<1>2. RoomInv /\ [Next]_vars => [Slot!Next]_Slot!vars
  BY ConnsAssumption, SlotStep
<1> QED
  BY <1>1, <1>2, RoomInvariant, PTL DEF Spec, SlotImplemented, Slot!Spec

(* The slot changes hands only between the two sides of a challenge: of the *)
(* steps of the slot only a hand-over replaces an owner by another.         *)
THEOREM ChallengeBetweenOwners == Spec => SlotPassesByChallenge
<1>1. RoomInv /\ [Next]_vars
        => (bridge # NoConn /\ bridge' \notin {bridge, NoConn}
              => challenge.old = bridge /\ challenge.new = bridge')
  <2> SUFFICES ASSUME RoomInv, [Next]_vars, bridge # NoConn, bridge' \notin {bridge, NoConn}
               PROVE  challenge.old = bridge /\ challenge.new = bridge'
    OBVIOUS
  <2>1. [Slot!Next]_Slot!vars
    BY ConnsAssumption, SlotStep
  <2>2. Slot!HandOver
    BY <2>1 DEF Slot!Next, Slot!vars, Slot!Acquire, Slot!Contend, Slot!Uphold, Slot!Leave,
                Slot!Withdraw, Slot!Depart
  <2>3. Challenging /\ bridge' = challenge.new
    BY <2>2 DEF Slot!HandOver, Challenging, NoChallenge
  <2> QED
    BY <2>3 DEF RoomInv, ChallengeInStep
<1> QED
  BY <1>1, RoomInvariant, PTL DEF Spec, SlotPassesByChallenge

-----------------------------------------------------------------------------
(* The silence of a connection is made up of its misses, TicksPerMiss ticks *)
(* each, and of the age of the ping it has not answered yet, which never    *)
(* exceeds the timeout.                                                     *)
SilenceInStep ==
    \A c \in Conns :
        /\ meta[c].age * PingInterval <= PongTimeout
        /\ silence[c] <= meta[c].missed * TicksPerMiss + meta[c].age

(* Products of natural numbers grow with their factors.                     *)
LEMMA Monotone ==
    ASSUME NEW a \in Nat, NEW b \in Nat, NEW n \in Nat, a <= b
    PROVE  a * n <= b * n
<1>1. PICK d \in Nat : b = a + d
  <2>1. b - a \in Nat /\ b = a + (b - a)
    OBVIOUS
  <2> QED
    BY <2>1
<1>2. d * n \in Nat
  OBVIOUS
<1>3. b * n = a * n + d * n
  BY <1>1
<1> QED
  BY <1>2, <1>3

(* A ping that has not timed out is younger than TicksPerMiss.              *)
LEMMA YoungerThanMiss ==
    /\ TicksPerMiss \in Nat
    /\ \A a \in Nat : a * PingInterval <= PongTimeout => a + 1 <= TicksPerMiss
<1>1. /\ TicksPerMiss \in Nat
      /\ PongTimeout < TicksPerMiss * PingInterval
  BY TimingAssumption DEF TicksPerMiss
<1>2. ASSUME NEW a \in Nat, a * PingInterval <= PongTimeout, TicksPerMiss <= a
      PROVE  FALSE
  <2>1. TicksPerMiss * PingInterval <= a * PingInterval
    BY <1>1, <1>2, TimingAssumption, Monotone
  <2>2. a * PingInterval \in Nat /\ TicksPerMiss * PingInterval \in Nat
    BY <1>1, TimingAssumption
  <2> QED
    BY <1>1, <1>2, <2>1, <2>2, TimingAssumption
<1> QED
  BY <1>1, <1>2

(* Outside the tick, silence, misses and age are left alone or all reset.   *)
LEMMA KeptOrReset ==
    ASSUME TypeOK, SilenceInStep, NEW c \in Conns,
           \/ /\ meta'[c].age = meta[c].age /\ meta'[c].missed = meta[c].missed
              /\ silence'[c] = silence[c]
           \/ meta'[c].age = 0 /\ meta'[c].missed = 0 /\ silence'[c] = 0
    PROVE  /\ meta'[c].age * PingInterval <= PongTimeout
           /\ silence'[c] <= meta'[c].missed * TicksPerMiss + meta'[c].age
BY TimingAssumption, YoungerThanMiss DEF TypeOK, SilenceInStep, ConnMeta

(* The tick ages an unanswered ping, or counts a miss and starts afresh.    *)
LEMMA TickKeepsSilence ==
    ASSUME TypeOK, SilenceInStep, NEW reaped, {c \in OpenConns : TimedOut(c)} \subseteq reaped,
           TickReaping(reaped), NEW c \in Conns
    PROVE  /\ meta'[c].age * PingInterval <= PongTimeout
           /\ silence'[c] <= meta'[c].missed * TicksPerMiss + meta'[c].age
<1> DEFINE m == meta[c]
<1>1. /\ m \in ConnMeta /\ m.age \in Nat /\ m.missed \in Nat
      /\ silence[c] \in Nat
      /\ m.age * PingInterval <= PongTimeout
      /\ silence[c] <= m.missed * TicksPerMiss + m.age
  BY TimingAssumption DEF TypeOK, SilenceInStep, ConnMeta
<1>2. /\ meta'[c] = IF c \in reaped THEN NoMeta ELSE IF c \in OpenConns THEN Ticked(c) ELSE m
      /\ silence'[c] = IF c \in OpenConns \ reaped /\ m.ping # NoNonce
                       THEN silence[c] + 1 ELSE 0
  BY DEF TickReaping
<1>3. TicksPerMiss \in Nat /\ PingInterval \in Nat /\ PongTimeout \in Nat
  BY TimingAssumption, YoungerThanMiss
<1>4. CASE c \in reaped
  BY <1>2, <1>3, <1>4, KeptOrReset DEF NoMeta, NewMeta
<1>5. CASE c \notin reaped /\ c \notin OpenConns
  BY <1>1, <1>2, <1>3, <1>5
<1>6. CASE c \in OpenConns \ reaped /\ Pinged(c) /\ Expired(c)
  <2>1. /\ Ticked(c).age = 0 /\ Ticked(c).missed = m.missed + 1
        /\ m.ping # NoNonce
    BY <1>1, <1>6 DEF Ticked, Expired, ConnMeta
  <2>2. m.age + 1 <= TicksPerMiss
    BY <1>1, YoungerThanMiss
  <2>3. (m.missed + 1) * TicksPerMiss = m.missed * TicksPerMiss + TicksPerMiss
    BY <1>1, <1>3
  <2>4. m.missed * TicksPerMiss \in Nat
    BY <1>1, <1>3
  <2> QED
    BY <1>1, <1>2, <1>3, <1>6, <2>1, <2>2, <2>3, <2>4
<1>7. CASE c \in OpenConns \ reaped /\ Pinged(c) /\ ~Expired(c)
  <2>1. /\ Ticked(c).age = 0 /\ Ticked(c).missed = m.missed
        /\ m.ping = NoNonce
    BY <1>1, <1>7 DEF Ticked, Pinged, ConnMeta
  <2>2. m.missed * TicksPerMiss \in Nat
    BY <1>1, <1>3
  <2> QED
    BY <1>2, <1>3, <1>7, <2>1, <2>2
<1>8. CASE c \in OpenConns \ reaped /\ ~Pinged(c)
  <2>1. m.ping # NoNonce /\ ~Expired(c)
    BY <1>8 DEF Pinged, OpenConns
  <2>2. /\ Ticked(c).age = m.age + 1 /\ Ticked(c).missed = m.missed
    BY <1>1, <1>8 DEF Ticked, ConnMeta
  <2>3. (m.age + 1) * PingInterval <= PongTimeout
    BY <1>1, <1>3, <2>1 DEF Expired
  <2>4. m.missed * TicksPerMiss \in Nat
    BY <1>1, <1>3
  <2> QED
    BY <1>1, <1>2, <1>8, <2>1, <2>2, <2>3, <2>4
<1> QED
  BY <1>4, <1>5, <1>6, <1>7, <1>8

(* Every step keeps silence, misses and age in step.                        *)
LEMMA SilenceKeeps ==
    ASSUME RoomInv, SilenceInStep, [Next]_vars
    PROVE  SilenceInStep'
<1> SUFFICES ASSUME NEW d \in Conns
             PROVE  /\ meta'[d].age * PingInterval <= PongTimeout
                    /\ silence'[d] <= meta'[d].missed * TicksPerMiss + meta'[d].age
  BY DEF SilenceInStep
<1> DEFINE Kept == \/ /\ meta'[d].age = meta[d].age /\ meta'[d].missed = meta[d].missed
                      /\ silence'[d] = silence[d]
                   \/ meta'[d].age = 0 /\ meta'[d].missed = 0 /\ silence'[d] = 0
<1> USE DEF RoomInv
<1>1. meta \in [Conns -> ConnMeta] /\ silence \in [Conns -> Nat]
  BY DEF TypeOK
<1>2. NoMeta.age = 0 /\ NoMeta.missed = 0 /\ NewMeta.age = 0 /\ NewMeta.missed = 0
  BY DEF NoMeta, NewMeta
<1>3. ASSUME NEW c \in Conns, Upgrade(c)
      PROVE  Kept
  <2>1. meta[c] = NoMeta
    BY <1>3 DEF EntriesInStep, Upgrade
  <2> QED
    BY <1>1, <1>2, <1>3, <2>1 DEF Upgrade
<1>4. ASSUME NEW c \in Conns,
             HandshakeTimeout(c) \/ RejectVersion(c) \/ RejectFirstFrame(c) \/ AdmitWeb(c)
             \/ RefuseBridge(c) \/ AdmitBridge(c)
      PROVE  Kept
  BY <1>1, <1>4 DEF HandshakeTimeout, RejectVersion, RejectFirstFrame, AdmitWeb, RefuseBridge,
                    AdmitBridge, TakeSlot, Promoted, ConnMeta
<1>5. ASSUME NEW c \in Conns, StartChallenge(c)
      PROVE  Kept
  BY <1>1, <1>5 DEF StartChallenge, Stamped, ConnMeta
<1>6. ASSUME NEW sockets, NEW tellStale, ReplaceIncumbent(sockets, tellStale)
      PROVE  Kept
  BY <1>1, <1>2, <1>6 DEF ReplaceIncumbent, Forget, ConnMeta
<1>7. ASSUME NEW c \in Conns, NEW n, ChallengePong(c, n)
      PROVE  Kept
  BY <1>1, <1>7 DEF ChallengePong, KeepIncumbent, Unstamped, ConnMeta
<1>8. ASSUME NEW c \in Conns, NEW n, HeartbeatPong(c, n)
      PROVE  Kept
  BY <1>1, <1>8 DEF HeartbeatPong, ConnMeta
<1>9. ASSUME NEW c \in Conns, DisconnectChallenger(c)
      PROVE  Kept
  BY <1>1, <1>2, <1>9 DEF DisconnectChallenger, Unstamped, Forget, ConnMeta
<1>10. ASSUME NEW c \in Conns, DisconnectOther(c)
       PROVE  Kept
  BY <1>1, <1>2, <1>10 DEF DisconnectOther, Forget
<1>11. ASSUME UNCHANGED <<meta, silence>>
       PROVE  Kept
  BY <1>11
<1>12. Tick \/ Kept
  BY <1>3, <1>4, <1>5, <1>6, <1>7, <1>8, <1>9, <1>10, <1>11
     DEF Next, Handshake, RecvPong, Disconnect, RelayPing, OtherPong, DisconnectUntracked,
         DisconnectIncumbent, ChallengeTimeout, FallSilent, vars
<1>13. CASE Tick
  <2>1. PICK throws \in SUBSET {c \in ToPing : ~Reaches(c)} :
                TickReaping({c \in OpenConns : TimedOut(c)} \union throws)
    BY <1>13 DEF Tick
  <2> QED
    BY <2>1, TickKeepsSilence
<1> QED
  BY <1>12, <1>13, KeptOrReset

(* An open connection that stays silent is dropped before its silence has   *)
(* lasted as many ticks as all its misses together.                         *)
THEOREM SilenceEnds == Spec => []SilenceBounded
<1>1. Init => SilenceInStep
  <2> SUFFICES ASSUME Init, NEW c \in Conns
               PROVE  meta[c].age = 0 /\ meta[c].missed = 0 /\ silence[c] = 0
    BY TimingAssumption, YoungerThanMiss DEF SilenceInStep
  <2> QED
    BY DEF Init, NoMeta, NewMeta
<1>2. TypeOK /\ SilenceInStep => SilenceBounded
  <2> SUFFICES ASSUME TypeOK, SilenceInStep, NEW c \in webs
               PROVE  silence[c] < MaxMissed * TicksPerMiss
    BY DEF SilenceBounded
  <2> DEFINE k == MaxMissed - 1
  <2>1. /\ c \in Conns
        /\ meta[c].missed \in Nat /\ meta[c].missed <= k /\ k \in Nat
        /\ meta[c].age \in Nat /\ silence[c] \in Nat
    BY TimingAssumption DEF TypeOK, ConnMeta
  <2>2. meta[c].missed * TicksPerMiss <= k * TicksPerMiss
    BY <2>1, YoungerThanMiss, Monotone
  <2>3. meta[c].age + 1 <= TicksPerMiss
    BY <2>1, YoungerThanMiss DEF SilenceInStep
  <2>4. k * TicksPerMiss + TicksPerMiss = MaxMissed * TicksPerMiss
    BY <2>1, YoungerThanMiss, TimingAssumption
  <2>5. meta[c].missed * TicksPerMiss \in Nat /\ k * TicksPerMiss \in Nat
    BY <2>1, YoungerThanMiss
  <2>6. silence[c] <= meta[c].missed * TicksPerMiss + meta[c].age
    BY <2>1 DEF SilenceInStep
  <2> HIDE DEF k
  <2> QED
    BY <2>1, <2>2, <2>3, <2>4, <2>5, <2>6, YoungerThanMiss, TimingAssumption
<1> QED
  BY <1>1, <1>2, SilenceKeeps, RoomInvariant, PTL DEF Spec, RoomInv

-----------------------------------------------------------------------------
(* A challenger that is tracked when the incumbent is replaced is promoted. *)
LEMMA ReplacementPromotes ==
    ASSUME RoomInv, Challenging, NEW sockets, NEW tellStale, ReplaceIncumbent(sockets, tellStale)
    PROVE  bridge' = challenge.new
BY DEF RoomInv, ChallengeInStep, ReplaceIncumbent

(* A challenge that ends without its challenger taking over, although that  *)
(* one is still there, was answered by the incumbent; and an incumbent that *)
(* leaves meanwhile is followed by the challenger in the same step.         *)
THEOREM ChallengesAreDecided == Spec => ChallengeDecided
<1> DEFINE Answered == Challenging /\ ~Challenging' /\ bridge' # challenge.new
                         /\ challenge.new \in webs'
                         => challenge.nonce \in asked[challenge.old]
           Followed == Challenging /\ challenge.old \in webs
                         /\ sock'[challenge.old] = "closed" /\ sock[challenge.old] # "closed"
                         => bridge' = challenge.new
<1>1. ASSUME RoomInv, Next
      PROVE  Answered /\ Followed
  <2> SUFFICES ASSUME Challenging
               PROVE  Answered /\ Followed
    OBVIOUS
  <2> USE <1>1
  <2>1. /\ challenge.old \in Conns /\ sock \in [Conns -> {"new", "up", "closing", "closed"}]
        /\ challenge.new # challenge.old
        /\ challenge.old \in webs => meta[challenge.old].chal = challenge.nonce
    BY DEF RoomInv, ChallengeInStep, TypeOK, Conns
  <2>2. ASSUME NEW sockets, NEW tellStale, ReplaceIncumbent(sockets, tellStale)
        PROVE  Answered /\ Followed
    BY <2>2, ReplacementPromotes
  <2>3. ASSUME NEW c \in Conns, NEW n \in asked[c], ChallengePong(c, n)
        PROVE  Answered /\ Followed
    BY <2>1, <2>3 DEF ChallengePong, Pong, Open, AnswersChallenge, KeepIncumbent, Closed
  <2>4. ASSUME NEW c \in Conns, DisconnectChallenger(c)
        PROVE  Answered /\ Followed
    BY <2>1, <2>4 DEF DisconnectChallenger, Departed
  <2>5. ASSUME NEW c \in Conns, DisconnectOther(c) \/ DisconnectUntracked(c)
        PROVE  Answered /\ Followed
    BY <2>1, <2>5 DEF DisconnectOther, DisconnectUntracked, Departed, Challenging
  <2>6. ASSUME NEW c \in Conns,
               HandshakeTimeout(c) \/ RejectVersion(c) \/ RejectFirstFrame(c) \/ RefuseBridge(c)
        PROVE  Answered /\ Followed
    BY <2>1, <2>6 DEF HandshakeTimeout, RejectVersion, RejectFirstFrame, RefuseBridge,
                      Terminate, Closed, Challenging
  <2>7. ASSUME NEW c \in Conns,
               \/ Upgrade(c) \/ AdmitWeb(c) \/ AdmitBridge(c) \/ StartChallenge(c)
               \/ RelayPing(c) \/ FallSilent(c)
               \/ \E n \in asked[c] : HeartbeatPong(c, n) \/ OtherPong(c, n)
        PROVE  Answered /\ Followed
    BY <2>1, <2>7 DEF Upgrade, AdmitWeb, AdmitBridge, StartChallenge, RelayPing, FallSilent,
                      HeartbeatPong, OtherPong, Challenging
  <2>8. ASSUME Tick
        PROVE  Answered /\ Followed
    BY <2>1, <2>8 DEF Tick, TickReaping, Closed, Challenging
  <2> QED
    BY <2>2, <2>3, <2>4, <2>5, <2>6, <2>7, <2>8
       DEF Next, Handshake, RecvPong, Disconnect, DisconnectIncumbent, ChallengeTimeout
<1>2. ASSUME RoomInv, UNCHANGED vars
      PROVE  Answered /\ Followed
  BY <1>2 DEF vars, Challenging
<1>3. RoomInv /\ [Next]_vars => [Answered /\ Followed]_vars
  BY <1>1, <1>2
<1> QED
  BY <1>3, RoomInvariant, PTL DEF Spec, ChallengeDecided
=============================================================================
