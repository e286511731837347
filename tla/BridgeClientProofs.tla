-------------------------- MODULE BridgeClientProofs --------------------------
(***************************************************************************)
(* What the reconnect loop of the bridge guarantees for any number of      *)
(* sockets and any cap of the delay.                                       *)
(***************************************************************************)
EXTENDS BridgeClient, TLAPS

(* What the attempt counter records.  It ties the counter to the two        *)
(* history variables: a current socket that brought a valid frame has reset *)
(* the counter, one that did not has left it as it found it, and            *)
(* handshakeConfirmed of an open socket says which of the two it is.        *)
AttemptInStep ==
    ws # NoSocket =>
        /\ attempt = IF heard THEN 0 ELSE since
        /\ sock[ws] = "connecting" => ~heard
        /\ sock[ws] = "open" => (confirmed <=> heard)

ClientInv == TypeOK /\ OneWayBack /\ OneConnection /\ AttemptInStep

(* A socket that is let go keeps the types of what the network holds.       *)
LEMMA LetGoType ==
    ASSUME TypeOK, NEW s \in Sockets, NEW state \in {"none", "closing"}, LetGo(s, state)
    PROVE  /\ sock' \in [Sockets -> {"none", "connecting", "open", "closing"}]
           /\ peer' \in [Sockets -> {"alive", "refusing", "silent"}]
           /\ inbox' \in [Sockets -> Seq(Frames)]
BY DEF TypeOK, LetGo

(* The attempt after a close is in range.                                   *)
LEMMA NextAttempt ==
    ASSUME NEW n \in 0..MaxAttempt
    PROVE  (IF n < MaxAttempt THEN n + 1 ELSE n) \in 0..MaxAttempt
BY AttemptAssumption

(* Opening a socket, or failing to, establishes the invariant from a state  *)
(* without one.                                                             *)
LEMMA ConnectKeeps ==
    ASSUME ClientInv, ws = NoSocket, stopped' = FALSE, UNCHANGED <<confirmed, idle>>,
           NEW n \in 0..MaxAttempt, Connect(n)
    PROVE  ClientInv'
<1> USE DEF ClientInv
<1>1. ~idle
  BY DEF OneWayBack
<1>2. CASE \E s \in Sockets :
              /\ sock[s] = "none"
              /\ sock' = [sock EXCEPT ![s] = "connecting"]
              /\ ws' = s
              /\ attempt' = n
              /\ timer' = FALSE
              /\ since' = n
              /\ heard' = FALSE
              /\ UNCHANGED <<peer, inbox>>
  <2>1. PICK s \in Sockets :
              /\ sock[s] = "none"
              /\ sock' = [sock EXCEPT ![s] = "connecting"]
              /\ ws' = s
              /\ attempt' = n
              /\ timer' = FALSE
              /\ since' = n
              /\ heard' = FALSE
              /\ UNCHANGED <<peer, inbox>>
    BY <1>2
  <2>2. TypeOK'
    BY <2>1 DEF TypeOK
  <2>3. OneWayBack'
    BY <1>1, <2>1, SocketAssumption DEF OneWayBack, TypeOK
  <2>4. OneConnection'
    BY <2>1, SocketAssumption DEF OneConnection, TypeOK
  <2>5. AttemptInStep'
    BY <2>1 DEF AttemptInStep, TypeOK
  <2> QED
    BY <2>2, <2>3, <2>4, <2>5
<1>3. CASE /\ ws' = NoSocket
           /\ attempt' = IF n < MaxAttempt THEN n + 1 ELSE n
           /\ timer' = TRUE
           /\ since' = n
           /\ UNCHANGED <<network, heard>>
  <2>1. TypeOK'
    BY <1>3, NextAttempt DEF TypeOK, network
  <2>2. OneWayBack' /\ OneConnection' /\ AttemptInStep'
    BY <1>1, <1>3 DEF OneWayBack, OneConnection, AttemptInStep, network
  <2> QED
    BY <2>1, <2>2
<1> QED
  BY <1>2, <1>3 DEF Connect

(* Losing the current socket, in whatever way, keeps the invariant.         *)
LEMMA HandleCloseKeeps ==
    ASSUME ClientInv, ~stopped, ws # NoSocket, HandleClose,
           \/ LetGo(ws, "closing") \/ LetGo(ws, "none")
           \/ sock' = [sock EXCEPT ![ws] = "none"] /\ UNCHANGED <<peer, inbox>>
    PROVE  ClientInv'
<1> USE DEF ClientInv
<1>1. TypeOK'
  BY LetGoType, NextAttempt DEF TypeOK, HandleClose
<1>2. OneWayBack'
  BY DEF OneWayBack, HandleClose
<1>3. OneConnection'
  BY SocketAssumption DEF OneConnection, HandleClose, LetGo, TypeOK
<1>4. AttemptInStep'
  BY DEF AttemptInStep, HandleClose
<1> QED
  BY <1>1, <1>2, <1>3, <1>4

(* An event of a socket that was let go changes nothing but that socket.    *)
LEMMA StaleSocketKeeps ==
    ASSUME ClientInv, NEW s \in Sockets, s # ws, UNCHANGED <<client, since, heard>>,
           \/ LetGo(s, "none")
           \/ sock' = [sock EXCEPT ![s] = "none"] /\ UNCHANGED <<peer, inbox>>
    PROVE  ClientInv'
<1> USE DEF ClientInv, client
<1>1. TypeOK'
  BY LetGoType DEF TypeOK
<1>2. OneWayBack'
  BY DEF OneWayBack, LetGo, TypeOK
<1>3. OneConnection'
  BY DEF OneConnection, LetGo, TypeOK
<1>4. AttemptInStep'
  BY DEF AttemptInStep, LetGo, TypeOK
<1> QED
  BY <1>1, <1>2, <1>3, <1>4

(* The reconnect loop never falls asleep, never forks and never has two     *)
(* connections, whatever the order of timers and socket events.             *)
THEOREM ClientInvariant == Spec => []ClientInv
<1>1. Init => ClientInv
  <2> SUFFICES ASSUME Init
               PROVE  ClientInv
    OBVIOUS
  <2>1. inbox \in [Sockets -> Seq(Frames)]
    BY DEF Init
  <2>2. TypeOK
    <3>1. attempt \in 0..MaxAttempt /\ since \in 0..MaxAttempt
      BY AttemptAssumption DEF Init
    <3>2. /\ sock \in [Sockets -> {"none", "connecting", "open", "closing"}]
          /\ peer \in [Sockets -> {"alive", "refusing", "silent"}]
      BY DEF Init
    <3> QED
      BY <2>1, <3>1, <3>2 DEF Init, TypeOK
  <2>3. OneWayBack /\ OneConnection /\ AttemptInStep
    BY SocketAssumption DEF Init, OneWayBack, OneConnection, AttemptInStep
  <2> QED
    BY <2>2, <2>3 DEF ClientInv
<1>2. ClientInv /\ [Next]_vars => ClientInv'
  <2> SUFFICES ASSUME ClientInv, [Next]_vars
               PROVE  ClientInv'
    OBVIOUS
  <2> USE DEF ClientInv
  <2>1. CASE Start
    <3>1. 0 \in 0..MaxAttempt
      BY AttemptAssumption
    <3> QED
      BY <2>1, <3>1, ConnectKeeps DEF Start
  <2>2. CASE Stop
    <3>1. TypeOK'
      BY <2>2, LetGoType DEF Stop, TypeOK, network
    <3>2. OneWayBack' /\ AttemptInStep'
      BY <2>2 DEF Stop, OneWayBack, AttemptInStep
    <3>3. OneConnection'
      BY <2>2, SocketAssumption DEF Stop, OneConnection, LetGo, TypeOK, network
    <3> QED
      BY <3>1, <3>2, <3>3
  <2>3. CASE Reconnect
    BY <2>3, ConnectKeeps DEF Reconnect, OneWayBack, TypeOK
  <2>4. CASE IdleTimeout
    BY <2>4, HandleCloseKeeps DEF IdleTimeout, OneWayBack
  <2>5. ASSUME NEW s \in Sockets, OpenEvent(s)
        PROVE  ClientInv'
    <3>1. s = ws
      BY <2>5 DEF OpenEvent, OneConnection
    <3>2. HandleOpen
      BY <2>5, <3>1 DEF OpenEvent, IfCurrent
    <3>3. TypeOK'
      BY <2>5, <3>2 DEF OpenEvent, HandleOpen, TypeOK
    <3>4. OneWayBack'
      BY <2>5, <3>1, <3>2, SocketAssumption DEF OpenEvent, HandleOpen, OneWayBack, TypeOK
    <3>5. OneConnection'
      BY <2>5, <3>1, <3>2 DEF OpenEvent, HandleOpen, OneConnection, TypeOK
    <3>6. AttemptInStep'
      BY <2>5, <3>1, <3>2 DEF OpenEvent, HandleOpen, AttemptInStep, TypeOK
    <3> QED
      BY <3>3, <3>4, <3>5, <3>6
  <2>6. ASSUME NEW s \in Sockets, MessageEvent(s)
        PROVE  ClientInv'
    <3>1. s = ws /\ ws # NoSocket
      BY <2>6, SocketAssumption DEF MessageEvent, OneConnection
    <3>2. HandleMessage(Head(inbox[s])) /\ UNCHANGED <<sock, peer>>
      BY <2>6, <3>1 DEF MessageEvent, IfCurrent
    <3>3. inbox' \in [Sockets -> Seq(Frames)]
      BY <2>6 DEF MessageEvent, TypeOK
    <3>4. TypeOK'
      <4>1. 0 \in 0..MaxAttempt
        BY AttemptAssumption
      <4>2. CASE Head(inbox[s]) = "invalid"
        BY <3>2, <3>3, <4>2 DEF HandleMessage, TypeOK, client
      <4>3. CASE Head(inbox[s]) # "invalid"
        BY <3>2, <3>3, <4>1, <4>3 DEF HandleMessage, TypeOK
      <4> QED
        BY <4>2, <4>3
    <3>5. OneWayBack' /\ OneConnection' /\ AttemptInStep'
      BY <2>6, <3>1, <3>2
         DEF MessageEvent, HandleMessage, OneWayBack, OneConnection, AttemptInStep, TypeOK, client
    <3> QED
      BY <3>4, <3>5
  <2>7. ASSUME NEW s \in Sockets, CloseEvent(s) \/ ConnectError(s)
        PROVE  ClientInv'
    <3>1. CASE s = ws
      <4>1. ~stopped /\ ws # NoSocket
        BY <3>1, SocketAssumption DEF OneWayBack
      <4> QED
        BY <2>7, <3>1, <4>1, HandleCloseKeeps DEF CloseEvent, ConnectError, IfCurrent
    <3>2. CASE s # ws
      BY <2>7, <3>2, StaleSocketKeeps DEF CloseEvent, ConnectError, IfCurrent
    <3> QED
      BY <3>1, <3>2
  <2>8. ASSUME NEW s \in Sockets, Send(s) \/ Refuse(s) \/ FallSilent(s)
        PROVE  ClientInv'
    <3>1. inbox' \in [Sockets -> Seq(Frames)]
      <4>1. inbox[s] \in Seq(Frames)
        BY DEF TypeOK
      <4>2. \A frame \in Frames : Append(inbox[s], frame) \in Seq(Frames)
        BY <4>1
      <4>3. "valid" \in Frames
        BY DEF Frames
      <4>4. \/ \E frame \in Frames : inbox' = [inbox EXCEPT ![s] = Append(@, frame)]
            \/ inbox' = inbox
        BY <2>8, <4>3 DEF Send, Refuse, FallSilent
      <4> QED
        BY <4>2, <4>4 DEF TypeOK
    <3>2. TypeOK'
      BY <2>8, <3>1 DEF Send, Refuse, FallSilent, TypeOK, client
    <3> QED
      BY <2>8, <3>2
         DEF Send, Refuse, FallSilent, client, OneWayBack, OneConnection, AttemptInStep
  <2>9. CASE UNCHANGED vars
    BY <2>9 DEF vars, client, network, TypeOK, OneWayBack, OneConnection, AttemptInStep
  <2> QED
    BY <2>1, <2>2, <2>3, <2>4, <2>5, <2>6, <2>7, <2>8, <2>9 DEF Next
<1> QED
  BY <1>1, <1>2, PTL DEF Spec

(* The variables of the client, its timers and the network keep their types,  *)
(* and the attempt counter never passes its cap.                              *)
THEOREM TypeCorrect == Spec => []TypeOK
BY ClientInvariant, PTL DEF ClientInv

(* The loop has exactly one way back to a connection.                       *)
THEOREM LoopStaysAwake == Spec => []OneWayBack
BY ClientInvariant, PTL DEF ClientInv

(* The client never has two connections.                                    *)
THEOREM NeverTwoConnections == Spec => []OneConnection
BY ClientInvariant, PTL DEF ClientInv

(* The delay grows unless the connection that ended had brought a valid     *)
(* frame.                                                                   *)
THEOREM DelayFollowsHealth == Spec => BackoffFollowsHealth
<1> DEFINE Follows == ~timer /\ timer' /\ ws # NoSocket
                        => attempt' = IF heard THEN 1
                                      ELSE IF since < MaxAttempt THEN since + 1 ELSE since
<1>1. ClientInv /\ [Next]_vars => [Follows]_vars
  <2> SUFFICES ASSUME ClientInv, Next, ~timer, timer', ws # NoSocket
               PROVE  attempt' = IF heard THEN 1
                                 ELSE IF since < MaxAttempt THEN since + 1 ELSE since
    OBVIOUS
  <2>1. HandleClose
    BY DEF Next, Start, Stop, Reconnect, IdleTimeout, OpenEvent, MessageEvent, CloseEvent,
           ConnectError, Send, Refuse, FallSilent, IfCurrent, HandleOpen, HandleMessage, client
  <2>2. attempt = IF heard THEN 0 ELSE since
    BY DEF ClientInv, AttemptInStep
  <2> QED
    BY <2>1, <2>2, AttemptAssumption DEF HandleClose
<1> QED
  BY <1>1, ClientInvariant, PTL DEF Spec, BackoffFollowsHealth
=============================================================================
