---------------------------- MODULE WebConnection ----------------------------
(***************************************************************************)
(* The web page's connection: the lifecycle half of WsClient               *)
(* (packages/web/src/ws/WsClient.ts), driven by the effect of App.tsx that *)
(* follows the cached token (tokenStorage.ts), over a network that loses   *)
(* connections, refuses them and goes silent.  A page without a token shows *)
(* only the dialog that asks for one, and is loaded anew when it has one.  *)
(*                                                                         *)
(* Listeners stay on a socket for its whole life, so every socket the      *)
(* client ever made may still raise events; `message' and `close' are      *)
(* guarded by the identity of the current socket, `open' is not.  Timers   *)
(* have no deadlines here: an armed timer may fire at any time, except     *)
(* that at most MaxPending pings are out at once (an interval of 20 s, a   *)
(* timeout of 30 s).  An `error' event sets the same state as the `close'  *)
(* event that follows it in the same task, and is part of it.              *)
(***************************************************************************)
EXTENDS Naturals, FiniteSets

CONSTANTS
    Sockets,        \* socket objects; one is used again after its close event
    Tokens,         \* access tokens
    Nonces,         \* nonces of pings
    None,           \* stands for null
    FailLimit,      \* PONG_FAIL_LIMIT
    MaxPending,     \* bound: pings outstanding at once
    MaxFaults,      \* bound: faults of the network and of the constructor
    MaxUser         \* bound: things the user does

ASSUME NoneAssumption == None \notin Sockets \union Tokens \union Nonces

ASSUME LimitAssumption == FailLimit \in Nat \ {0}

ASSUME BoundAssumption == MaxFaults \in Nat /\ MaxUser \in Nat

VARIABLES
    stored,     \* the token in localStorage, shared by the tabs of the browser
    page,       \* App: "loading", "mounted", or "broken" by an error of React
    token,      \* App's auth.token
    should,     \* shouldReconnect
    conn,       \* connState: "offline", "connecting", "online"
    socket,     \* the current socket
    timer,      \* the reconnect timer is armed
    pinging,    \* the interval that sends pings runs
    pending,    \* pendingPings: nonces that wait for their pong
    failures,   \* consecutiveFailures
    sock,       \* a socket: "none", "connecting", "open", "closing"
    silent,     \* sockets whose peer is gone without a word
    pongs,      \* for a socket, the nonces whose pongs are on the way
    sentOn,     \* history: the socket a nonce was last sent on
    faults,     \* faults so far
    user        \* things the user did so far

client == <<page, token, should, conn, socket, timer, pinging, pending, failures>>
network == <<sock, silent, pongs, sentOn>>
vars == <<stored, client, network, faults, user>>

Current(s) == s = socket

(* Socket s after close(): its close event is still to come.               *)
Closed(s) ==
    [r \in Sockets |->
        IF r = s /\ sock[r] \in {"connecting", "open"} THEN "closing" ELSE sock[r]]

(* clearHeartbeat                                                           *)
ClearHeartbeat ==
    /\ pinging' = FALSE
    /\ pending' = {}
    /\ failures' = 0

Init ==
    /\ stored \in Tokens \union {None}
    /\ page = "loading"
    /\ token = None
    /\ should = FALSE
    /\ conn = "offline"
    /\ socket = None
    /\ timer = FALSE
    /\ pinging = FALSE
    /\ pending = {}
    /\ failures = 0
    /\ sock = [s \in Sockets |-> "none"]
    /\ silent = {}
    /\ pongs = [s \in Sockets |-> {}]
    /\ sentOn = [n \in Nonces |-> None]
    /\ faults = 0
    /\ user = 0

(* openSocket, the state of the sockets being `states' and that of the      *)
(* reconnect timer `armed' when it is called.  The constructor may throw:   *)
(* then the state stays "connecting" and the timer is armed.                *)
OpenSocket(states, armed) ==
    /\ conn' = "connecting"
    /\ \/ \E s \in Sockets :
            /\ states[s] = "none"
            /\ sock' = [states EXCEPT ![s] = "connecting"]
            /\ socket' = s
            /\ timer' = armed
            /\ UNCHANGED faults
       \/ /\ faults < MaxFaults
          /\ faults' = faults + 1
          /\ sock' = states
          /\ socket' = None
          /\ timer' = TRUE

(* disconnect                                                               *)
Disconnect ==
    /\ should' = FALSE
    /\ timer' = FALSE
    /\ ClearHeartbeat
    /\ sock' = Closed(socket)
    /\ socket' = None
    /\ conn' = "offline"
    /\ UNCHANGED faults

\* Mutant: connect() alone, which leaves the reconnect timer armed.
FollowTokenDirectly(t) ==
    /\ token' = t
    /\ IF t = None
       THEN Disconnect
       ELSE /\ should' = TRUE
            /\ ClearHeartbeat
            /\ OpenSocket(Closed(socket), timer)

(* The effect of App on its token: the cleanup disconnects, whatever the    *)
(* old token was, and the effect connects when there is a new one.  Without *)
(* one all that is left is the cleanup, which an unmount runs too.          *)
FollowToken(t) ==
    /\ token' = t
    /\ IF t = None
       THEN Disconnect
       ELSE /\ should' = TRUE
            /\ ClearHeartbeat
            /\ OpenSocket(Closed(socket), FALSE)

(* The page is loaded: App reads the token, and its effect runs.            *)
Mount ==
    /\ page = "loading"
    /\ page' = "mounted"
    /\ FollowToken(stored)
    /\ UNCHANGED <<stored, silent, pongs, sentOn, user>>

(* The document goes, and its sockets and timers with it.                   *)
Unloads ==
    /\ page' = "loading"
    /\ token' = None
    /\ should' = FALSE
    /\ conn' = "offline"
    /\ socket' = None
    /\ timer' = FALSE
    /\ ClearHeartbeat
    /\ sock' = [s \in Sockets |-> "none"]
    /\ silent' = {}
    /\ pongs' = [s \in Sockets |-> {}]
    /\ sentOn' = [n \in Nonces |-> None]

-----------------------------------------------------------------------------
(* The user, in this tab and in another one that shares the storage.        *)

Acts == user < MaxUser /\ user' = user + 1

(* The page is loaded again, a broken one too.                              *)
Reload ==
    /\ Acts
    /\ page # "loading"
    /\ Unloads
    /\ UNCHANGED <<stored, faults>>

(* The dialog of a page that has no token stores one and reloads the page.  *)
EnterToken(t) ==
    /\ Acts
    /\ page = "mounted"
    /\ token = None
    /\ stored' = t
    /\ Unloads
    /\ UNCHANGED faults

(* The settings dialog: handleClosableTokenSubmit.  A refused write (storage *)
(* disabled) leaves everything as it was.                                   *)
SubmitToken(t) ==
    /\ Acts
    /\ token # None
    /\ stored' = t
    /\ IF t = token
       THEN UNCHANGED <<client, sock, faults>>
       ELSE FollowToken(t) /\ UNCHANGED page
    /\ UNCHANGED <<silent, pongs, sentOn>>

OtherTab(t) ==
    /\ Acts
    /\ stored' = t
    /\ UNCHANGED <<client, network, faults>>

(* A hashchange reads the token from the storage again.  App returns before *)
(* half of its hooks when it has no token: if it had one and has none now,  *)
(* or the other way round, React throws and unmounts it, effects cleaned up. *)
HashChange ==
    /\ page = "mounted"
    /\ token # stored
    /\ IF None \in {token, stored}
       THEN page' = "broken" /\ FollowToken(None)
       ELSE FollowToken(stored) /\ UNCHANGED page
    /\ UNCHANGED <<stored, silent, pongs, sentOn, user>>

-----------------------------------------------------------------------------
(* Events of a socket.                                                      *)

(* The server accepts: handleOpen.                                          *)
Opens(s) ==
    /\ sock[s] = "connecting"
    /\ sock' = [sock EXCEPT ![s] = "open"]
    /\ conn' = "online"
    /\ pinging' = TRUE
    /\ pending' = {}
    /\ failures' = 0
    /\ UNCHANGED <<stored, page, token, should, socket, timer, silent, pongs, sentOn,
                   faults, user>>

\* Mutant: a connection that is lost is not tried again.
HandleCloseForGood(s) ==
    /\ sock' = [sock EXCEPT ![s] = "none"]
    /\ silent' = silent \ {s}
    /\ pongs' = [pongs EXCEPT ![s] = {}]
    /\ IF Current(s)
       THEN socket' = None /\ ClearHeartbeat /\ conn' = "offline"
       ELSE UNCHANGED <<socket, pinging, pending, failures, conn>>
    /\ UNCHANGED <<stored, page, token, should, timer, sentOn, user>>

(* handleClose, after handleError when the connection failed.               *)
HandleClose(s) ==
    /\ sock' = [sock EXCEPT ![s] = "none"]
    /\ silent' = silent \ {s}
    /\ pongs' = [pongs EXCEPT ![s] = {}]
    /\ IF Current(s)
       THEN /\ socket' = None
            /\ ClearHeartbeat
            /\ conn' = "offline"
            /\ timer' = (timer \/ should)
       ELSE UNCHANGED <<socket, pinging, pending, failures, conn, timer>>
    /\ UNCHANGED <<stored, page, token, should, sentOn, user>>

(* The closing handshake ends, or the browser gives it up.                  *)
CloseEnds(s) ==
    /\ sock[s] = "closing"
    /\ HandleClose(s)
    /\ UNCHANGED faults

(* The server refuses or closes, or the connection breaks.                  *)
Breaks(s) ==
    /\ sock[s] \in {"connecting", "open"}
    /\ faults < MaxFaults
    /\ faults' = faults + 1
    /\ HandleClose(s)

(* The peer is gone and nothing tells the browser.                          *)
GoesSilent(s) ==
    /\ sock[s] = "open"
    /\ s \notin silent
    /\ faults < MaxFaults
    /\ faults' = faults + 1
    /\ silent' = silent \union {s}
    /\ pongs' = [pongs EXCEPT ![s] = {}]
    /\ UNCHANGED <<stored, client, sock, sentOn, user>>

(* A pong arrives: handleMessage, handlePong.  The one of a ping that is    *)
(* not pending any more changes nothing.                                    *)
Pong(s, n) ==
    /\ sock[s] = "open"
    /\ n \in pongs[s]
    /\ pongs' = [pongs EXCEPT ![s] = @ \ {n}]
    /\ IF Current(s) /\ n \in pending
       THEN pending' = pending \ {n} /\ failures' = 0
       ELSE UNCHANGED <<pending, failures>>
    /\ UNCHANGED <<stored, page, token, should, conn, socket, timer, pinging, sock,
                   silent, sentOn, faults, user>>

-----------------------------------------------------------------------------
(* Timers of the client.                                                    *)

(* armPing.  What is sent on a socket that is not open is dropped.          *)
Ping(n) ==
    /\ pinging
    /\ Cardinality(pending) < MaxPending
    /\ n \notin pending
    /\ \A s \in Sockets : n \notin pongs[s]
    /\ pending' = pending \union {n}
    /\ sentOn' = [sentOn EXCEPT ![n] = socket]
    /\ pongs' = [s \in Sockets |->
                    IF Current(s) /\ sock[s] = "open" /\ s \notin silent
                    THEN pongs[s] \union {n} ELSE pongs[s]]
    /\ UNCHANGED <<stored, page, token, should, conn, socket, timer, pinging, failures,
                   sock, silent, faults, user>>

\* Mutant: the failures are counted, and nothing comes of it.
PingTimeoutCounted(n) ==
    /\ n \in pending
    /\ \A s \in Sockets : n \notin pongs[s]
    /\ pending' = pending \ {n}
    /\ failures' = IF failures + 1 >= FailLimit THEN 0 ELSE failures + 1
    /\ UNCHANGED <<stored, page, token, should, conn, socket, timer, pinging, sock,
                   silent, pongs, sentOn, faults, user>>

\* Mutant: the count is not reset when the socket is given up.
PingTimeoutRunning(n) ==
    /\ n \in pending
    /\ \A s \in Sockets : n \notin pongs[s]
    /\ pending' = pending \ {n}
    /\ failures' = failures + 1
    /\ sock' = IF failures + 1 >= FailLimit THEN Closed(socket) ELSE sock
    /\ UNCHANGED <<stored, page, token, should, conn, socket, timer, pinging, silent,
                   pongs, sentOn, faults, user>>

(* The timer of a ping.  A pong that is late rather than lost counts as a   *)
(* fault of the network.                                                    *)
PingTimeout(n) ==
    /\ n \in pending
    /\ IF \E s \in Sockets : n \in pongs[s]
       THEN faults < MaxFaults /\ faults' = faults + 1
       ELSE UNCHANGED faults
    /\ pending' = pending \ {n}
    /\ IF failures + 1 >= FailLimit
       THEN failures' = 0 /\ sock' = Closed(socket)
       ELSE failures' = failures + 1 /\ UNCHANGED sock
    /\ UNCHANGED <<stored, page, token, should, conn, socket, timer, pinging, silent,
                   pongs, sentOn, user>>

(* The timer of scheduleReconnect.                                          *)
Reconnect ==
    /\ timer
    /\ IF should
       THEN OpenSocket(sock, FALSE)
       ELSE timer' = FALSE /\ UNCHANGED <<conn, socket, sock, faults>>
    /\ UNCHANGED <<stored, page, token, should, pinging, pending, failures, silent,
                   pongs, sentOn, user>>

-----------------------------------------------------------------------------
User ==
    \/ Reload
    \/ \E t \in Tokens : SubmitToken(t) \/ EnterToken(t)
    \/ \E t \in Tokens \union {None} : OtherTab(t)

Client ==
    \/ Mount
    \/ HashChange
    \/ Reconnect
    \/ \E n \in Nonces : Ping(n) \/ PingTimeout(n)

Network ==
    \E s \in Sockets :
        Opens(s) \/ CloseEnds(s) \/ \E n \in Nonces : Pong(s, n)

Fault == \E s \in Sockets : Breaks(s) \/ GoesSilent(s)

Next == User \/ Client \/ Network \/ Fault

(* A page that loads is mounted, a socket opens or closes in the end, armed *)
(* timers fire, pongs that are on the way arrive.  Nothing is assumed of    *)
(* the user or of the faults.                                               *)
Fairness ==
    /\ WF_vars(Mount)
    /\ WF_vars(Reconnect)
    /\ \A s \in Sockets : WF_vars(Opens(s)) /\ WF_vars(CloseEnds(s))
    /\ WF_vars(\E s \in Sockets, n \in Nonces : Pong(s, n))
    /\ WF_vars(\E n \in Nonces : PingTimeout(n))
    /\ WF_vars(\E n \in Nonces : Ping(n))

Spec == Init /\ [][Next]_vars /\ Fairness

-----------------------------------------------------------------------------
TypeOK ==
    /\ stored \in Tokens \union {None}
    /\ page \in {"loading", "mounted", "broken"}
    /\ token \in Tokens \union {None}
    /\ should \in BOOLEAN
    /\ conn \in {"offline", "connecting", "online"}
    /\ socket \in Sockets \union {None}
    /\ timer \in BOOLEAN
    /\ pinging \in BOOLEAN
    /\ pending \subseteq Nonces
    /\ failures \in 0 .. FailLimit - 1
    /\ sock \in [Sockets -> {"none", "connecting", "open", "closing"}]
    /\ silent \subseteq Sockets
    /\ pongs \in [Sockets -> SUBSET Nonces]
    /\ sentOn \in [Nonces -> Sockets \union {None}]
    /\ faults \in 0 .. MaxFaults
    /\ user \in 0 .. MaxUser

(* The page never holds a connection it has lost track of: every socket     *)
(* that still connects or is open is the current one.  That is what makes   *)
(* the missing identity check of handleOpen harmless, and what the comment  *)
(* on handleClosableTokenSubmit is about.                                   *)
OneConnection ==
    \A s \in Sockets : sock[s] \in {"connecting", "open"} => Current(s)

(* What the page shows is what it has: "online" only with a socket that was *)
(* opened and whose close event has not been handled, and with the          *)
(* heartbeat watching it; pings are waited for only on the socket they were *)
(* sent on, so the silence of one connection never closes the next.         *)
OnlineIsWatched ==
    /\ conn = "online" <=> pinging
    /\ pinging => socket # None /\ sock[socket] \in {"open", "closing"}
    /\ \A n \in pending : pinging /\ sentOn[n] = socket

(* The page is never stranded and never haunted: with a token it has a      *)
(* connection, one under way, or a timer that will make one, and just one   *)
(* of the two; without one it has neither.                                  *)
ConnectedOrTrying ==
    /\ should <=> token # None
    /\ should <=> (socket # None \/ timer)
    /\ ~(socket # None /\ timer)
    /\ socket # None => sock[socket] # "none"

(* The page neither sleeps nor waits for a connection it no longer has.     *)
NeverAsleep == OnlineIsWatched /\ ConnectedOrTrying

(* Once the network and the user behave, a page that has a token ends up    *)
(* online and stays so, a half-open connection found out by the heartbeat   *)
(* included.  Excepted is the page that React has taken down, because the   *)
(* token appeared or disappeared behind its back: nothing but a reload      *)
(* brings that one back.                                                    *)
EndsUpOnline ==
    <>[] \/ page = "broken"
         \/ page = "mounted" /\ (token = None \/ (conn = "online" /\ socket \notin silent))

(* No page is taken down: the comment at App.tsx:432 has it that only a     *)
(* reload reads the token again, so that App never has one in one render    *)
(* and none in another.                                                     *)
PageSurvives == page # "broken"

=============================================================================
