------------------------- MODULE WebConnectionProofs -------------------------
(***************************************************************************)
(* Theorems about the web page's connection, for any sockets, tokens and   *)
(* nonces and any bounds.                                                  *)
(*                                                                         *)
(* The three invariants hold each other up: handleOpen may not look which  *)
(* socket has opened because at most the current one is connecting, which  *)
(* holds because a connection is made only while there is none, which the  *)
(* reconnect timer may rely on because it is armed only then.              *)
(***************************************************************************)
EXTENDS WebConnection, TLAPS

Inv == TypeOK /\ OneConnection /\ OnlineIsWatched /\ ConnectedOrTrying

LEMMA NoFailures == 0 \in 0 .. FailLimit - 1
  BY LimitAssumption

(* The states of the sockets once the current one is told to close: none    *)
(* connects or is open any more.                                            *)
LEMMA ClosedAll ==
    ASSUME TypeOK, OneConnection
    PROVE  /\ Closed(socket) \in [Sockets -> {"none", "connecting", "open", "closing"}]
           /\ \A s \in Sockets : Closed(socket)[s] \notin {"connecting", "open"}
  BY DEF TypeOK, OneConnection, Current, Closed

(* A connection that is made where there is none, with no timer armed but   *)
(* the one that a throwing constructor arms.                                *)
LEMMA OpenSocketKeeps ==
    ASSUME NEW states \in [Sockets -> {"none", "connecting", "open", "closing"}],
           \A s \in Sockets : states[s] \notin {"connecting", "open"},
           faults \in 0 .. MaxFaults,
           OpenSocket(states, FALSE)
    PROVE  /\ conn' = "connecting"
           /\ sock' \in [Sockets -> {"none", "connecting", "open", "closing"}]
           /\ socket' \in Sockets \union {None}
           /\ timer' \in BOOLEAN
           /\ faults' \in 0 .. MaxFaults
           /\ \A s \in Sockets : sock'[s] \in {"connecting", "open"} => s = socket'
           /\ socket' # None \/ timer'
           /\ ~(socket' # None /\ timer')
           /\ socket' # None => sock'[socket'] # "none"
<1>1. CASE \E s \in Sockets :
             /\ states[s] = "none"
             /\ sock' = [states EXCEPT ![s] = "connecting"]
             /\ socket' = s
             /\ timer' = FALSE
             /\ UNCHANGED faults
  BY <1>1, NoneAssumption DEF OpenSocket
<1>2. CASE /\ faults < MaxFaults
           /\ faults' = faults + 1
           /\ sock' = states
           /\ socket' = None
           /\ timer' = TRUE
  BY <1>2, NoneAssumption, BoundAssumption DEF OpenSocket
<1> QED
  BY <1>1, <1>2 DEF OpenSocket

(* The token changes: the old connection goes, a new one comes if there is  *)
(* a token.                                                                 *)
LEMMA FollowTokenKeeps ==
    ASSUME Inv, NEW t \in Tokens \union {None}, FollowToken(t),
           stored' \in Tokens \union {None}, user' \in 0 .. MaxUser,
           page' \in {"loading", "mounted", "broken"},
           UNCHANGED <<silent, pongs, sentOn>>
    PROVE  Inv'
<1>1. CASE t = None
  <2>1. TypeOK'
    BY <1>1, ClosedAll, NoFailures DEF Inv, TypeOK, FollowToken, Disconnect, ClearHeartbeat
  <2>2. OneConnection'
    BY <1>1, ClosedAll DEF Inv, OneConnection, FollowToken, Disconnect
  <2>3. OnlineIsWatched' /\ ConnectedOrTrying'
    BY <1>1 DEF OnlineIsWatched, ConnectedOrTrying, FollowToken, Disconnect, ClearHeartbeat
  <2> QED
    BY <2>1, <2>2, <2>3 DEF Inv
<1>2. CASE t # None
  <2> DEFINE left == Closed(socket)
  <2>1. /\ left \in [Sockets -> {"none", "connecting", "open", "closing"}]
        /\ \A s \in Sockets : left[s] \notin {"connecting", "open"}
    BY ClosedAll DEF Inv
  <2>2. /\ OpenSocket(left, FALSE)
        /\ token' = t /\ should' = TRUE /\ pinging' = FALSE /\ pending' = {} /\ failures' = 0
    BY <1>2 DEF FollowToken, ClearHeartbeat
  <2>3. faults \in 0 .. MaxFaults
    BY DEF Inv, TypeOK
  <2> HIDE DEF left
  <2>4. /\ conn' = "connecting"
        /\ sock' \in [Sockets -> {"none", "connecting", "open", "closing"}]
        /\ socket' \in Sockets \union {None}
        /\ timer' \in BOOLEAN
        /\ faults' \in 0 .. MaxFaults
        /\ \A s \in Sockets : sock'[s] \in {"connecting", "open"} => s = socket'
        /\ socket' # None \/ timer'
        /\ ~(socket' # None /\ timer')
        /\ socket' # None => sock'[socket'] # "none"
    BY <2>1, <2>2, <2>3, OpenSocketKeeps
  <2>5. TypeOK'
    BY <2>2, <2>4, NoFailures DEF Inv, TypeOK
  <2>6. OneConnection'
    BY <2>4 DEF OneConnection, Current
  <2>7. OnlineIsWatched' /\ ConnectedOrTrying'
    BY <1>2, <2>2, <2>4 DEF OnlineIsWatched, ConnectedOrTrying
  <2> QED
    BY <2>5, <2>6, <2>7 DEF Inv
<1> QED
  BY <1>1, <1>2

(* The document goes: no socket, no timer, no token.                        *)
LEMMA UnloadsKeeps ==
    ASSUME Unloads, stored' \in Tokens \union {None}, user' \in 0 .. MaxUser,
           faults' \in 0 .. MaxFaults
    PROVE  Inv'
<1>1. TypeOK'
  BY NoFailures DEF Unloads, ClearHeartbeat, TypeOK
<1>2. OneConnection' /\ OnlineIsWatched' /\ ConnectedOrTrying'
  BY NoneAssumption DEF Unloads, ClearHeartbeat, OneConnection, OnlineIsWatched, ConnectedOrTrying
<1> QED
  BY <1>1, <1>2 DEF Inv

(* A close event, of the current socket or of one that was given up.        *)
LEMMA HandleCloseKeeps ==
    ASSUME Inv, NEW s \in Sockets, HandleClose(s), faults' \in 0 .. MaxFaults,
           sock[s] # "none"
    PROVE  Inv'
<1>1. TypeOK'
  BY NoFailures, NoneAssumption DEF Inv, TypeOK, HandleClose, ClearHeartbeat
<1>2. OneConnection'
  BY NoneAssumption DEF Inv, TypeOK, OneConnection, Current, HandleClose
<1>3. OnlineIsWatched'
  BY NoneAssumption DEF Inv, TypeOK, OnlineIsWatched, Current, HandleClose, ClearHeartbeat
<1>4. ConnectedOrTrying'
  BY NoneAssumption DEF Inv, TypeOK, ConnectedOrTrying, Current, HandleClose
<1> QED
  BY <1>1, <1>2, <1>3, <1>4 DEF Inv

LEMMA StepKeeps == Inv /\ [Next]_vars => Inv'
<1> SUFFICES ASSUME Inv, [Next]_vars
             PROVE  Inv'
  OBVIOUS
<1> USE DEF Inv
<1>1. ASSUME NEW t \in Tokens, SubmitToken(t)
      PROVE  Inv'
  <2>1. user' \in 0 .. MaxUser /\ stored' \in Tokens \union {None}
    BY <1>1, BoundAssumption DEF SubmitToken, Acts, TypeOK
  <2>2. CASE t = token
    BY <1>1, <2>1, <2>2 DEF SubmitToken, TypeOK, OneConnection, OnlineIsWatched,
                            ConnectedOrTrying, Current, client
  <2>3. CASE t # token
    BY <1>1, <2>1, <2>3, FollowTokenKeeps DEF SubmitToken, TypeOK
  <2> QED
    BY <2>2, <2>3
<1>2. ASSUME NEW t \in Tokens \union {None}, OtherTab(t)
      PROVE  Inv'
  BY <1>2, BoundAssumption DEF OtherTab, Acts, TypeOK, OneConnection, OnlineIsWatched,
                               ConnectedOrTrying, Current, client, network
<1>3. CASE HashChange
  <2>1. /\ page' \in {"loading", "mounted", "broken"}
        /\ stored' \in Tokens \union {None} /\ user' \in 0 .. MaxUser
        /\ UNCHANGED <<silent, pongs, sentOn>>
    BY <1>3 DEF HashChange, TypeOK
  <2>2. FollowToken(None) \/ FollowToken(stored)
    BY <1>3 DEF HashChange
  <2> QED
    BY <2>1, <2>2, FollowTokenKeeps DEF TypeOK
<1>4. CASE Reconnect
  <2>1. CASE should
    <3>1. socket = None /\ ~pinging
      BY <1>4 DEF Reconnect, OnlineIsWatched, ConnectedOrTrying
    <3>2. \A s \in Sockets : sock[s] \notin {"connecting", "open"}
      BY <3>1, NoneAssumption DEF OneConnection, Current
    <3>3. /\ OpenSocket(sock, FALSE)
          /\ UNCHANGED <<stored, page, token, should, pinging, pending, failures, silent,
                         pongs, sentOn, user>>
      BY <1>4, <2>1 DEF Reconnect
    <3>4. sock \in [Sockets -> {"none", "connecting", "open", "closing"}]
          /\ faults \in 0 .. MaxFaults
      BY DEF TypeOK
    <3>5. /\ conn' = "connecting"
          /\ sock' \in [Sockets -> {"none", "connecting", "open", "closing"}]
          /\ socket' \in Sockets \union {None}
          /\ timer' \in BOOLEAN
          /\ faults' \in 0 .. MaxFaults
          /\ \A s \in Sockets : sock'[s] \in {"connecting", "open"} => s = socket'
          /\ socket' # None \/ timer'
          /\ ~(socket' # None /\ timer')
          /\ socket' # None => sock'[socket'] # "none"
      BY <3>2, <3>3, <3>4, OpenSocketKeeps
    <3>6. TypeOK'
      BY <3>3, <3>5 DEF TypeOK
    <3>7. OneConnection'
      BY <3>5 DEF OneConnection, Current
    <3>8. OnlineIsWatched'
      BY <3>1, <3>3, <3>5 DEF OnlineIsWatched
    <3>9. ConnectedOrTrying'
      BY <2>1, <3>3, <3>5 DEF ConnectedOrTrying
    <3> QED
      BY <3>6, <3>7, <3>8, <3>9
  <2>2. CASE ~should
    BY <1>4, <2>2 DEF Reconnect, ConnectedOrTrying
  <2> QED
    BY <2>1, <2>2
<1>5. ASSUME NEW n \in Nonces, Ping(n)
      PROVE  Inv'
  <2>1. TypeOK'
    BY <1>5 DEF Ping, TypeOK
  <2>2. OneConnection' /\ ConnectedOrTrying'
    BY <1>5 DEF Ping, OneConnection, ConnectedOrTrying, Current
  <2>3. OnlineIsWatched'
    BY <1>5 DEF Ping, OnlineIsWatched, TypeOK
  <2> QED
    BY <2>1, <2>2, <2>3
<1>6. ASSUME NEW n \in Nonces, PingTimeout(n)
      PROVE  Inv'
  <2>1. TypeOK'
    BY <1>6, LimitAssumption, BoundAssumption DEF PingTimeout, TypeOK, Closed
  <2>2. OneConnection' /\ OnlineIsWatched' /\ ConnectedOrTrying'
    BY <1>6 DEF PingTimeout, TypeOK, OneConnection, OnlineIsWatched, ConnectedOrTrying,
                Current, Closed
  <2> QED
    BY <2>1, <2>2
<1>7. ASSUME NEW s \in Sockets, Opens(s)
      PROVE  Inv'
  <2>1. socket = s
    BY <1>7 DEF Opens, OneConnection, Current
  <2>2. TypeOK'
    BY <1>7, LimitAssumption DEF Opens, TypeOK
  <2>3. OneConnection' /\ OnlineIsWatched' /\ ConnectedOrTrying'
    BY <1>7, <2>1, NoneAssumption DEF Opens, TypeOK, OneConnection, OnlineIsWatched,
                                      ConnectedOrTrying, Current
  <2> QED
    BY <2>2, <2>3
<1>8. ASSUME NEW s \in Sockets, CloseEnds(s)
      PROVE  Inv'
  BY <1>8, HandleCloseKeeps DEF CloseEnds, TypeOK
<1>9. ASSUME NEW s \in Sockets, Breaks(s)
      PROVE  Inv'
  BY <1>9, HandleCloseKeeps, BoundAssumption DEF Breaks, TypeOK
<1>10. ASSUME NEW s \in Sockets, GoesSilent(s)
       PROVE  Inv'
  BY <1>10, BoundAssumption DEF GoesSilent, TypeOK, OneConnection, OnlineIsWatched,
                                ConnectedOrTrying, Current, client
<1>11. ASSUME NEW s \in Sockets, NEW n \in Nonces, Pong(s, n)
       PROVE  Inv'
  <2>1. TypeOK'
    BY <1>11, LimitAssumption DEF Pong, TypeOK
  <2>2. OneConnection' /\ OnlineIsWatched' /\ ConnectedOrTrying'
    BY <1>11 DEF Pong, OneConnection, OnlineIsWatched, ConnectedOrTrying, Current
  <2> QED
    BY <2>1, <2>2
<1>12. CASE Mount
  <2>1. /\ page' \in {"loading", "mounted", "broken"}
        /\ stored' \in Tokens \union {None} /\ user' \in 0 .. MaxUser
        /\ UNCHANGED <<silent, pongs, sentOn>>
        /\ FollowToken(stored)
    BY <1>12 DEF Mount, TypeOK
  <2> QED
    BY <2>1, FollowTokenKeeps DEF TypeOK
<1>13. CASE Reload \/ \E t \in Tokens : EnterToken(t)
  <2>1. /\ Unloads
        /\ stored' \in Tokens \union {None} /\ user' \in 0 .. MaxUser
        /\ faults' \in 0 .. MaxFaults
    BY <1>13, BoundAssumption DEF Reload, EnterToken, Acts, TypeOK
  <2> QED
    BY <2>1, UnloadsKeeps
<1>14. CASE UNCHANGED vars
  BY <1>14 DEF vars, client, network, TypeOK, OneConnection, OnlineIsWatched,
               ConnectedOrTrying, Current
<1> QED
  BY <1>1, <1>2, <1>3, <1>4, <1>5, <1>6, <1>7, <1>8, <1>9, <1>10, <1>11, <1>12,
     <1>13, <1>14 DEF Next, User, Client, Network, Fault

(* Types, and the three invariants together.                                *)
THEOREM ConnectionInvariant == Spec => []Inv
<1>1. Init => Inv
  <2> SUFFICES ASSUME Init
               PROVE  Inv
    OBVIOUS
  <2>1. 0 \in 0 .. MaxFaults /\ 0 \in 0 .. MaxUser
    BY BoundAssumption
  <2>2. TypeOK
    BY <2>1, NoFailures DEF Init, TypeOK
  <2>3. OneConnection /\ OnlineIsWatched /\ ConnectedOrTrying
    BY NoneAssumption DEF Init, OneConnection, OnlineIsWatched, ConnectedOrTrying
  <2> QED
    BY <2>2, <2>3 DEF Inv
<1> QED
  BY <1>1, StepKeeps, PTL DEF Spec

(* Every variable keeps its type; the failures never reach the limit.       *)
THEOREM TypeCorrect == Spec => []TypeOK
<1>1. Inv => TypeOK
  BY DEF Inv
<1> QED
  BY <1>1, ConnectionInvariant, PTL

(* The page never holds a connection it has lost track of.                  *)
THEOREM NeverTwoConnections == Spec => []OneConnection
<1>1. Inv => OneConnection
  BY DEF Inv
<1> QED
  BY <1>1, ConnectionInvariant, PTL

(* The page is never without its connection or a way back to it, and never  *)
(* shows or watches one that it does not have.                              *)
THEOREM StaysAwake == Spec => []NeverAsleep
<1>1. Inv => NeverAsleep
  BY DEF Inv, NeverAsleep
<1> QED
  BY <1>1, ConnectionInvariant, PTL

=============================================================================
