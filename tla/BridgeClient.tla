---------------------------- MODULE BridgeClient ----------------------------
(***************************************************************************)
(* The reconnect loop of the bridge daemon (packages/bridge/src/client.ts) *)
(* and the network under it.                                               *)
(*                                                                         *)
(* The client owns at most one WebSocket, `ws'.  Sockets it gave up keep   *)
(* emitting events until their close event, which may take minutes; every  *)
(* handler is guarded by the identity of the socket.  The room answers     *)
(* with frames in order, may refuse the bridge (an error frame, then       *)
(* close), may stop answering, and the transport may break at any moment.  *)
(* The deadline of a timer is not modelled: an armed timer may fire        *)
(* whenever it likes.                                                      *)
(***************************************************************************)
EXTENDS Naturals, Sequences

CONSTANTS
    Sockets,        \* socket objects; one is reused after its close event
    NoSocket,       \* stands for null
    MaxAttempt,     \* bound: the attempt from which the delay stays at its cap
    MaxInFlight     \* bound: frames on their way to the client on one socket

ASSUME SocketAssumption == NoSocket \notin Sockets

ASSUME AttemptAssumption == MaxAttempt \in Nat \ {0}

VARIABLES
    ws,         \* the current socket
    stopped,    \* stop() was called and no start() since
    attempt,    \* reconnect attempts, the exponent of the delay
    confirmed,  \* handshakeConfirmed
    idle,       \* the idle deadline is armed
    timer,      \* the reconnect timer is armed
    sock,       \* a socket: "none", "connecting", "open", "closing" (close() called)
    peer,       \* what is at the other end: "alive", "refusing", "silent"
    inbox,      \* frames on their way to the client
    since,      \* history: `attempt' when the current socket was created
    heard       \* history: the current socket brought a valid frame

client == <<ws, stopped, attempt, confirmed, idle, timer>>
network == <<sock, peer, inbox>>
vars == <<client, network, since, heard>>

(* A frame is an envelope or it is not.  What the client does with a valid  *)
(* one, answer a ping, log an error, hand a command to the session layer,   *)
(* makes no difference to the loop.                                         *)
Frames == {"valid", "invalid"}

(* The socket s as it is once it is let go or over: nothing it had in       *)
(* flight is delivered any more.                                            *)
LetGo(s, state) ==
    /\ sock' = [sock EXCEPT ![s] = state]
    /\ peer' = [peer EXCEPT ![s] = "alive"]
    /\ inbox' = [inbox EXCEPT ![s] = <<>>]

-----------------------------------------------------------------------------
Init ==
    /\ ws = NoSocket
    /\ stopped = TRUE
    /\ attempt = 0
    /\ confirmed = FALSE
    /\ idle = FALSE
    /\ timer = FALSE
    /\ sock = [s \in Sockets |-> "none"]
    /\ peer = [s \in Sockets |-> "alive"]
    /\ inbox = [s \in Sockets |-> <<>>]
    /\ since = 0
    /\ heard = FALSE

(* connect() with the attempt counter at n: a new socket, or none when the  *)
(* constructor throws, which counts as a close.                             *)
Connect(n) ==
    \/ \E s \in Sockets :
        /\ sock[s] = "none"
        /\ sock' = [sock EXCEPT ![s] = "connecting"]
        /\ ws' = s
        /\ attempt' = n
        /\ timer' = FALSE
        /\ since' = n
        /\ heard' = FALSE
        /\ UNCHANGED <<peer, inbox>>
    \/ /\ ws' = NoSocket
       /\ attempt' = IF n < MaxAttempt THEN n + 1 ELSE n
       /\ timer' = TRUE
       /\ since' = n
       /\ UNCHANGED <<network, heard>>

(* start(): idempotent while anything of the loop is alive.                 *)
Start ==
    /\ ~idle /\ ~timer /\ ws = NoSocket
    /\ stopped' = FALSE
    /\ Connect(0)
    /\ UNCHANGED <<confirmed, idle>>

(* stop(): no timer survives, the current socket is closed and let go.      *)
Stop ==
    /\ ~stopped
    /\ stopped' = TRUE
    /\ idle' = FALSE
    /\ timer' = FALSE
    /\ ws' = NoSocket
    /\ IF ws = NoSocket THEN UNCHANGED network ELSE LetGo(ws, "closing")
    /\ UNCHANGED <<attempt, confirmed, since, heard>>

(* Mutant: the delay has no cap.                                            *)
HandleCloseUncapped ==
    /\ idle' = FALSE
    /\ ws' = NoSocket
    /\ attempt' = attempt + 1
    /\ timer' = TRUE
    /\ UNCHANGED <<stopped, confirmed, since, heard>>

(* handleClose(): drop the socket, schedule the reconnect.                  *)
HandleClose ==
    /\ idle' = FALSE
    /\ ws' = NoSocket
    /\ attempt' = IF attempt < MaxAttempt THEN attempt + 1 ELSE attempt
    /\ timer' = TRUE
    /\ UNCHANGED <<stopped, confirmed, since, heard>>

(* The reconnect timer fires.                                               *)
Reconnect ==
    /\ timer /\ ~stopped
    /\ Connect(attempt)
    /\ UNCHANGED <<stopped, confirmed, idle>>

(* The idle deadline fires: the socket is closed, its close event is not    *)
(* waited for.                                                              *)
IdleTimeout ==
    /\ idle /\ ~stopped
    /\ LetGo(ws, "closing")
    /\ HandleClose

-----------------------------------------------------------------------------
(* Events of the sockets.  An event of a socket that is not the current one *)
(* changes nothing of the client.                                           *)

IfCurrent(s, handler) ==
    IF s = ws THEN handler ELSE UNCHANGED <<client, since, heard>>

(* Mutant: an open connection starts with a clean slate.                    *)
HandleOpenResetting ==
    /\ confirmed' = FALSE
    /\ attempt' = 0
    /\ idle' = TRUE
    /\ UNCHANGED <<ws, stopped, timer, since, heard>>

(* Mutant: the idle deadline waits for the first frame.                     *)
HandleOpenUnarmed ==
    /\ confirmed' = FALSE
    /\ UNCHANGED <<ws, stopped, attempt, idle, timer, since, heard>>

(* handleOpen(): send the handshake, arm the idle deadline; the attempt     *)
(* counter waits for the first valid frame.                                 *)
HandleOpen ==
    /\ confirmed' = FALSE
    /\ idle' = TRUE
    /\ UNCHANGED <<ws, stopped, attempt, timer, since, heard>>

OpenEvent(s) ==
    /\ sock[s] = "connecting"
    /\ sock' = [sock EXCEPT ![s] = "open"]
    /\ IfCurrent(s, HandleOpen)
    /\ UNCHANGED <<peer, inbox>>

(* handleMessage(): the first valid frame confirms the handshake, every     *)
(* valid frame re-arms the idle deadline.                                   *)
HandleMessage(frame) ==
    IF frame = "invalid" THEN UNCHANGED <<client, since, heard>>
    ELSE /\ attempt' = IF confirmed THEN attempt ELSE 0
         /\ confirmed' = TRUE
         /\ idle' = TRUE
         /\ heard' = TRUE
         /\ UNCHANGED <<ws, stopped, timer, since>>

(* A socket that is closing delivers nothing any more.                      *)
MessageEvent(s) ==
    /\ sock[s] = "open" /\ inbox[s] # <<>>
    /\ inbox' = [inbox EXCEPT ![s] = Tail(@)]
    /\ IfCurrent(s, HandleMessage(Head(inbox[s])))
    /\ UNCHANGED <<sock, peer>>

(* Mutant: the close event of any socket runs handleClose.                  *)
CloseEventUnguarded(s) ==
    /\ sock[s] \in {"open", "closing"}
    /\ LetGo(s, "none")
    /\ IF stopped THEN UNCHANGED <<client, since, heard>> ELSE HandleClose

(* The connection is over, closed by either end or broken; what is still on *)
(* its way is lost.                                                         *)
CloseEvent(s) ==
    /\ sock[s] \in {"open", "closing"}
    /\ LetGo(s, "none")
    /\ IfCurrent(s, HandleClose)

(* Mutant: an error is only logged.                                         *)
ConnectErrorLogged(s) ==
    /\ sock[s] = "connecting"
    /\ sock' = [sock EXCEPT ![s] = "none"]
    /\ UNCHANGED <<client, peer, inbox, since, heard>>

(* The connection is never made: an error event and no close event.  (The   *)
(* error event of an open socket is only logged.)                           *)
ConnectError(s) ==
    /\ sock[s] = "connecting"
    /\ sock' = [sock EXCEPT ![s] = "none"]
    /\ IfCurrent(s, HandleClose)
    /\ UNCHANGED <<peer, inbox>>

-----------------------------------------------------------------------------
(* The room and the network.                                                *)

(* The room sends a frame.                                                  *)
Send(s) ==
    /\ sock[s] = "open" /\ peer[s] = "alive"
    /\ Len(inbox[s]) < MaxInFlight
    /\ \E frame \in Frames : inbox' = [inbox EXCEPT ![s] = Append(@, frame)]
    /\ UNCHANGED <<client, sock, peer, since, heard>>

(* The room refuses the bridge: an error frame, then close(1008).           *)
Refuse(s) ==
    /\ sock[s] = "open" /\ peer[s] = "alive"
    /\ peer' = [peer EXCEPT ![s] = "refusing"]
    /\ inbox' = [inbox EXCEPT ![s] = Append(@, "valid")]
    /\ UNCHANGED <<client, sock, since, heard>>

(* The connection dies and nobody is told.                                  *)
FallSilent(s) ==
    /\ sock[s] = "open" /\ peer[s] = "alive"
    /\ peer' = [peer EXCEPT ![s] = "silent"]
    /\ UNCHANGED <<client, sock, inbox, since, heard>>

Next ==
    \/ Start \/ Stop \/ Reconnect \/ IdleTimeout
    \/ \E s \in Sockets :
        \/ OpenEvent(s) \/ MessageEvent(s) \/ CloseEvent(s) \/ ConnectError(s)
        \/ Send(s) \/ Refuse(s) \/ FallSilent(s)

(* Timers fire.  The deadline of a connection that still brings frames is   *)
(* re-armed before it fires, so only a silent one is sure to time out.      *)
(* A socket let go is closed in the end; a connection attempt ends one way  *)
(* or the other, and attempts do not fail for ever.                         *)
Fairness ==
    /\ SF_vars(Reconnect /\ ws' # NoSocket)
    /\ WF_vars(IdleTimeout /\ peer[ws] = "silent")
    /\ \A s \in Sockets :
        /\ SF_vars(OpenEvent(s))
        /\ WF_vars(OpenEvent(s) \/ ConnectError(s))
        /\ WF_vars(sock[s] = "closing" /\ CloseEvent(s))

Spec == Init /\ [][Next]_vars

FairSpec == Spec /\ Fairness
-----------------------------------------------------------------------------
(* Properties                                                               *)

(* Every variable has its type.                                             *)
TypeOK ==
    /\ ws \in Sockets \union {NoSocket}
    /\ stopped \in BOOLEAN
    /\ attempt \in 0..MaxAttempt
    /\ confirmed \in BOOLEAN
    /\ idle \in BOOLEAN
    /\ timer \in BOOLEAN
    /\ sock \in [Sockets -> {"none", "connecting", "open", "closing"}]
    /\ peer \in [Sockets -> {"alive", "refusing", "silent"}]
    /\ inbox \in [Sockets -> Seq(Frames)]
    /\ since \in 0..MaxAttempt
    /\ heard \in BOOLEAN

(* The loop never falls asleep and never forks: a client that is not        *)
(* stopped has a socket or an armed reconnect timer and never both, and an  *)
(* open socket has its idle deadline.  A stopped client has nothing left    *)
(* that could wake it.                                                      *)
OneWayBack ==
    /\ stopped => ~timer /\ ~idle /\ ws = NoSocket
    /\ ~stopped => (timer <=> ws = NoSocket)
    /\ idle <=> ws # NoSocket /\ sock[ws] = "open"

(* The client never has two connections: every socket that can still become *)
(* or is a connection is the current one.  (A second one would challenge    *)
(* the first for the bridge slot of its own token.)                         *)
OneConnection ==
    \A s \in Sockets : sock[s] \in {"connecting", "open"} <=> s = ws

(* The delay before a reconnect: its exponent restarts at one after a       *)
(* connection that brought a valid frame, and grows up to the cap after one *)
(* that did not, however the connection ended.                              *)
BackoffFollowsHealth ==
    [][~timer /\ timer' /\ ws # NoSocket
         => attempt' = IF heard THEN 1
                       ELSE IF since < MaxAttempt THEN since + 1 ELSE since]_vars

(* A client that is not stopped gets a connection again, and one that died  *)
(* without a close event is given up.                                       *)
ComesBack ==
    /\ ~stopped ~> stopped \/ (ws # NoSocket /\ sock[ws] = "open")
    /\ \A s \in Sockets : ws = s /\ peer[s] = "silent" ~> ws # s \/ peer[s] # "silent"

-----------------------------------------------------------------------------
(* What the code does not do.                                               *)

(* A refused bridge waits longer each time: "Until that confirmation        *)
(* arrives, a 1008 from the server is treated as a *failed* connection: the *)
(* next reconnect uses the next backoff slot, not base" (client.ts,         *)
(* handshakeConfirmed).  The room sends an error frame before it closes,    *)
(* and that frame is the confirmation.                                      *)
RefusalsBackOff ==
    [][~timer /\ timer' /\ ws # NoSocket /\ peer[ws] = "refusing" /\ sock'[ws] = "none"
         => attempt' = IF since < MaxAttempt THEN since + 1 ELSE since]_vars
=============================================================================
