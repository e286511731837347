--------------------------- MODULE PiProcessProofs ---------------------------
(***************************************************************************)
(* Theorems about the manager of one pi session, for any commands, dialogs *)
(* and processes.                                                          *)
(*                                                                         *)
(* That the idle timer spares a pi with work rests on the queue being      *)
(* empty whenever pi may be written to, and that a killed pi stays down on *)
(* the flag that is raised with every signal and lowered only by an exit.  *)
(*                                                                         *)
(* That commands keep their order rests on the order of arrival: what has  *)
(* been written to pi, followed by what waits, is part of what arrived, in *)
(* that order, and a flush writes a part of the queue in the queue's own.  *)
(***************************************************************************)
EXTENDS PiProcess, TLAPS

(* The part of the types the proofs need.                                   *)
Types ==
    /\ phase \in {"exited", "spawning", "ready", "running", "idle"}
    /\ child \in Children \union {NoChild}
    /\ selfKill \in BOOLEAN /\ sigkill \in BOOLEAN /\ idle \in BOOLEAN /\ strayed \in BOOLEAN
    /\ deferred \in Seq(Cmds)
    /\ pending \subseteq raised /\ raised \subseteq Requests
    /\ answers \in [Requests -> Nat]
    /\ proc \in [Children -> {"none", "failed", "up", "term", "kill", "gone"}]

(* Commands wait only for a handshake, or for a spawn to come.              *)
QueueInStep == phase \in {"ready", "running", "idle"} => deferred = <<>>

(* The manager remembers its own kills until an exit event.                 *)
KillsInStep ==
    /\ sigkill => selfKill
    /\ ~strayed /\ child # NoChild /\ proc[child] \in {"term", "kill"} => selfKill

Inv == Types /\ QueueInStep /\ KillsInStep /\ DialogsOnce /\ ManagesOwnPi

(* push on the queue.                                                       *)
LEMMA Queued ==
    ASSUME NEW s \in Seq(Cmds), NEW m \in Cmds
    PROVE  /\ Append(s, m) \in Seq(Cmds)
           /\ Range(Append(s, m)) = Range(s) \union {m}
<1> DEFINE t == Append(s, m)
<1>1. /\ t \in Seq(Cmds) /\ DOMAIN t = 1 .. (Len(s) + 1)
      /\ \A k \in 1 .. Len(s) : t[k] = s[k]
      /\ t[Len(s) + 1] = m
  OBVIOUS
<1>2. DOMAIN s = 1 .. Len(s) /\ Len(s) \in Nat
  OBVIOUS
<1> HIDE DEF t
<1>3. \A x : x \in Range(t) <=> x \in Range(s) \union {m}
  BY <1>1, <1>2 DEF Range
<1> QED
  BY <1>1, <1>3 DEF t

LEMMA EmptyQueue == <<>> \in Seq(Cmds) /\ Range(<<>>) = {}
  BY DEF Range

LEMMA QueueOfOne ==
    ASSUME NEW m \in Cmds
    PROVE  <<m>> \in Seq(Cmds) /\ Range(<<m>>) = {m}
  BY DEF Range

LEMMA InitInv == Init => Inv
<1> SUFFICES ASSUME Init PROVE Inv
  OBVIOUS
<1> USE ChildAssumption DEF Init
<1>1. Types
  BY EmptyQueue DEF Types
<1>3. QueueInStep /\ KillsInStep
  BY DEF QueueInStep, KillsInStep
<1>2. DialogsOnce /\ ManagesOwnPi
  BY DEF DialogsOnce, ManagesOwnPi
<1> QED
  BY <1>1, <1>2, <1>3 DEF Inv

(* handleSpawnTrigger().                                                    *)
LEMMA CommandInv == ASSUME Inv, NEW m \in Cmds, Command(m) PROVE Inv'
<1> USE ChildAssumption DEF Inv, Types, QueueInStep, KillsInStep, DialogsOnce, history, ManagesOwnPi,
        Arrives, Broadcast
<1>1. CASE TriggerSpawn(m)
  <2>1. PICK c \in Children :
          /\ Started(c)
          /\ \/ /\ UNCHANGED <<sigkill, dialogs>>
                /\ Spawned(c)
                /\ deferred' = Append(deferred, m)
             \/ /\ SpawnedInVain(c)
                /\ deferred' = <<m>>
    BY <1>1 DEF TriggerSpawn
  <2>2. /\ proc[c] = "none"
        /\ proc' \in [Children -> {"none", "failed", "up", "term", "kill", "gone"}]
        /\ proc'[c] \in {"up", "failed"}
    BY <2>1 DEF Started, Spawned, SpawnedInVain
  <2>3. CASE Spawned(c) /\ UNCHANGED <<sigkill, dialogs>> /\ deferred' = Append(deferred, m)
    BY <1>1, <2>2, <2>3, Queued DEF TriggerSpawn, Spawned, dialogs
  <2>4. CASE SpawnedInVain(c) /\ deferred' = <<m>>
    <3>1. Types'
      BY <1>1, <2>2, <2>4, QueueOfOne DEF TriggerSpawn, SpawnedInVain, ClearChildState, ClearAll, Exited
    <3>2. QueueInStep'
      BY <1>1, <2>2, <2>4, QueueOfOne DEF TriggerSpawn, SpawnedInVain, ClearChildState, ClearAll, Exited
    <3>3. KillsInStep'
      BY <1>1, <2>2, <2>4, QueueOfOne DEF TriggerSpawn, SpawnedInVain, ClearChildState, ClearAll, Exited
    <3>4. DialogsOnce'
      <4>1. /\ shown' = [phase |-> phase', blocked |-> pending']
            /\ pending' = {} /\ UNCHANGED <<raised, answers>>
        BY <2>4 DEF SpawnedInVain, ClearChildState, ClearAll, Exited
      <4>2. \A q \in Requests :
              answers[q] \in Nat /\ answers[q] <= (IF q \in raised THEN 1 ELSE 0)
        OBVIOUS
      <4> QED
        BY <4>1, <4>2
    <3>5. ManagesOwnPi'
      <4>1. /\ phase' = "exited" /\ pending' = {} /\ Range(deferred') = {m}
            /\ idle' => m \notin Writes
        BY <1>1, <2>4, QueueOfOne DEF TriggerSpawn, SpawnedInVain, ClearChildState, ClearAll, Exited
      <4>2. {m} \intersect Writes = {} \/ m \in Writes
        OBVIOUS
      <4> QED
        BY <4>1, <4>2
    <3> QED
      BY <3>1, <3>2, <3>3, <3>4, <3>5
  <2> QED
    BY <2>1, <2>3, <2>4
<1>2. CASE Defer(m)
  BY <1>2, Queued DEF Defer, dialogs
<1>3. CASE Write(m)
  BY <1>3 DEF Write, dialogs
<1> QED
  BY <1>1, <1>2, <1>3 DEF Command

(* forceExitedAfterSpawnFailure(), whatever calls it.                       *)
LEMMA ForceExitedInv ==
    ASSUME Inv, ForceExited,
           proc' \in [Children -> {"none", "failed", "up", "term", "kill", "gone"}],
           strayed' \in BOOLEAN, strayed => strayed',
           UNCHANGED <<selfKill, idle>>
    PROVE  Inv'
<1> USE ChildAssumption DEF Inv, Types, QueueInStep, KillsInStep, DialogsOnce, history, ManagesOwnPi
<1>1. CASE child = NoChild /\ phase = "exited"
  BY <1>1 DEF ForceExited, dialogs, ClearChildState, ClearAll, Exited, Broadcast
<1>2. CASE child # NoChild \/ phase # "exited"
  <2>1. Types'
    BY <1>2, EmptyQueue DEF ForceExited, ClearChildState, ClearAll, Exited, Broadcast
  <2>2. QueueInStep'
    BY <1>2, EmptyQueue DEF ForceExited, ClearChildState, ClearAll, Exited, Broadcast
  <2>3. KillsInStep'
    BY <1>2, EmptyQueue DEF ForceExited, ClearChildState, ClearAll, Exited, Broadcast
  <2>4. DialogsOnce'
    <3>1. /\ shown' = [phase |-> phase', blocked |-> pending']
          /\ pending' = {} /\ UNCHANGED <<raised, answers>>
      BY <1>2 DEF ForceExited, ClearChildState, ClearAll, Exited, Broadcast
    <3>2. \A q \in Requests :
            answers[q] \in Nat /\ answers[q] <= (IF q \in raised THEN 1 ELSE 0)
      OBVIOUS
    <3> QED
      BY <3>1, <3>2
  <2>5. ManagesOwnPi'
    <3>1. phase' = "exited" /\ pending' = {} /\ deferred' = <<>>
      BY <1>2 DEF ForceExited, ClearChildState, ClearAll, Exited
    <3>2. Range(deferred') = {}
      BY <3>1, EmptyQueue
    <3> QED
      BY <3>1, <3>2
  <2> QED
    BY <2>1, <2>2, <2>3, <2>4, <2>5
<1> QED
  BY <1>1, <1>2

(* What pi writes to stdout.                                                *)
LEMMA OutputInv == ASSUME Inv, NEW c \in Children, Output(c) PROVE Inv'
<1> USE ChildAssumption DEF Inv, Types, QueueInStep, KillsInStep, DialogsOnce, history, ManagesOwnPi,
        From, Broadcast
<1>1. CASE StateReply(c)
  <2>1. Types'
    BY <1>1, EmptyQueue DEF StateReply, StateAnswered, CompleteHandshake, Flushed, dialogs
  <2>2. QueueInStep'
    BY <1>1, EmptyQueue DEF StateReply, StateAnswered, CompleteHandshake, Flushed, dialogs
  <2>3. KillsInStep'
    BY <1>1, EmptyQueue DEF StateReply, StateAnswered, CompleteHandshake, Flushed, dialogs
  <2>4. DialogsOnce'
    BY <1>1, EmptyQueue DEF StateReply, StateAnswered, CompleteHandshake, Flushed, dialogs
  <2>5. ManagesOwnPi'
    BY <1>1, EmptyQueue DEF StateReply, StateAnswered, CompleteHandshake, Flushed, dialogs
  <2> QED
    BY <2>1, <2>2, <2>3, <2>4, <2>5
<1>2. CASE StateRefused(c)
  BY <1>2, ForceExitedInv DEF StateRefused, StateAnswered
<1>3. CASE StateRefusedLate(c)
  BY <1>3 DEF StateRefusedLate, StateAnswered, dialogs, timing
<1>4. CASE Settled(c)
  <2>1. Types'
    BY <1>4, EmptyQueue DEF Settled, dialogs, traffic
  <2>2. QueueInStep'
    BY <1>4, EmptyQueue DEF Settled, dialogs, traffic
  <2>3. KillsInStep'
    BY <1>4, EmptyQueue DEF Settled, dialogs, traffic
  <2>4. DialogsOnce'
    BY <1>4, EmptyQueue DEF Settled, dialogs, traffic
  <2>5. ManagesOwnPi'
    BY <1>4, EmptyQueue DEF Settled, dialogs, traffic
  <2> QED
    BY <2>1, <2>2, <2>3, <2>4, <2>5
<1>5. ASSUME NEW r \in Requests, Raise(c, r) PROVE Inv'
  <2>1. Types'
    BY <1>5 DEF Raise, timing, traffic
  <2>2. QueueInStep'
    BY <1>5 DEF Raise, timing, traffic
  <2>3. KillsInStep'
    BY <1>5 DEF Raise, timing, traffic
  <2>4. DialogsOnce'
    BY <1>5 DEF Raise, timing, traffic
  <2>5. ManagesOwnPi'
    BY <1>5 DEF Raise, timing, traffic
  <2> QED
    BY <2>1, <2>2, <2>3, <2>4, <2>5
<1> QED
  BY <1>1, <1>2, <1>3, <1>4, <1>5 DEF Output

(* The router: answers and timeouts.                                        *)
LEMMA AnswerInv ==
    ASSUME Inv, NEW r \in Requests, Answer(r) \/ RequestTimeout(r) PROVE Inv'
<1> USE ChildAssumption DEF Inv, Types, QueueInStep, KillsInStep, DialogsOnce, history, ManagesOwnPi,
        ClearRequest, Broadcast
<1>1. CASE Answer(r)
  BY <1>1 DEF Answer, timing, traffic
<1>2. CASE RequestTimeout(r)
  BY <1>2 DEF RequestTimeout, timing, traffic
<1> QED
  BY <1>1, <1>2

(* The timers of the manager, and stop().                                   *)
LEMMA TimerInv ==
    ASSUME Inv, SpawnTimeout \/ IdleTimeout \/ SigkillTimeout \/ Stop PROVE Inv'
<1> USE ChildAssumption DEF Inv, Types, QueueInStep, KillsInStep, DialogsOnce, history, ManagesOwnPi,
        Broadcast
<1>1. CASE SpawnTimeout
  BY <1>1, ForceExitedInv DEF SpawnTimeout
<1>2. CASE IdleTimeout
  BY <1>2 DEF IdleTimeout, Signalled, dialogs, traffic
<1>3. CASE SigkillTimeout
  BY <1>3 DEF SigkillTimeout, Signalled, dialogs, traffic
<1>4. CASE Stop
  <2>1. Types'
    BY <1>4 DEF Stop, Signalled, ClearChildState, ClearAll, traffic
  <2>2. QueueInStep'
    BY <1>4 DEF Stop, Signalled, ClearChildState, ClearAll, traffic
  <2>3. KillsInStep'
    BY <1>4 DEF Stop, Signalled, ClearChildState, ClearAll, traffic
  <2>4. DialogsOnce'
    BY <1>4 DEF Stop, Signalled, ClearChildState, ClearAll, traffic
  <2>5. ManagesOwnPi'
    BY <1>4 DEF Stop, Signalled, ClearChildState, ClearAll, traffic
  <2> QED
    BY <2>1, <2>2, <2>3, <2>4, <2>5
<1> QED
  BY <1>1, <1>2, <1>3, <1>4

(* Events of a process: exit, end of stdout, error.                         *)
LEMMA ExitInv ==
    ASSUME Inv, NEW c \in Children, NEW crash \in BOOLEAN, Exit(c, crash) PROVE Inv'
<1> USE ChildAssumption, EmptyQueue DEF Inv, Types, QueueInStep, KillsInStep, DialogsOnce, history,
        ManagesOwnPi, Broadcast, ClearAll, Exited
<1> DEFINE left == [proc EXCEPT ![c] = "gone"]
<1>1. left \in [Children -> {"none", "failed", "up", "term", "kill", "gone"}]
  OBVIOUS
<1>2. /\ HandleExit(left, Restarts(crash))
      /\ strayed' \in BOOLEAN /\ (strayed => strayed')
  BY DEF Exit, From
<1> HIDE DEF left
<1>3. CASE Restarts(crash)
  <2>1. PICK d \in Children :
          /\ left[d] = "none"
          /\ \E state \in {"up", "failed"} : proc' = [left EXCEPT ![d] = state]
          /\ \/ /\ child' = d
                /\ phase' = "spawning"
                /\ expecting' = {d}
                /\ unanswered' = unanswered \union {d}
                /\ watchdog' = TRUE
                /\ Broadcast
             \/ /\ Exited
                /\ expecting' = {}
                /\ watchdog' = FALSE
                /\ UNCHANGED unanswered
    BY <1>2, <1>3 DEF HandleExit, Respawn
  <2>2. /\ proc' \in [Children -> {"none", "failed", "up", "term", "kill", "gone"}]
        /\ proc'[d] \in {"up", "failed"}
    BY <1>1, <2>1
  <2> QED
    <3>1. Types'
      BY <1>2, <2>1, <2>2 DEF HandleExit
    <3>2. QueueInStep'
      BY <1>2, <2>1, <2>2 DEF HandleExit
    <3>3. KillsInStep'
      BY <1>2, <2>1, <2>2 DEF HandleExit
    <3>4. DialogsOnce'
      BY <1>2, <2>1, <2>2 DEF HandleExit
    <3>5. ManagesOwnPi'
      BY <1>2, <2>1, <2>2 DEF HandleExit
    <3> QED
      BY <3>1, <3>2, <3>3, <3>4, <3>5
<1>4. CASE ~Restarts(crash)
  <2>1. Types'
    BY <1>1, <1>2, <1>4 DEF HandleExit
  <2>2. QueueInStep'
    BY <1>1, <1>2, <1>4 DEF HandleExit
  <2>3. KillsInStep'
    BY <1>1, <1>2, <1>4 DEF HandleExit
  <2>4. DialogsOnce'
    BY <1>1, <1>2, <1>4 DEF HandleExit
  <2>5. ManagesOwnPi'
    BY <1>1, <1>2, <1>4 DEF HandleExit
  <2> QED
    BY <2>1, <2>2, <2>3, <2>4, <2>5
<1> QED
  BY <1>3, <1>4

LEMMA ChildEventInv ==
    ASSUME Inv, NEW c \in Children, Drained(c) \/ ChildError(c) PROVE Inv'
<1> USE ChildAssumption DEF Inv, Types, QueueInStep, KillsInStep, DialogsOnce, history, ManagesOwnPi
<1>1. CASE Drained(c)
  BY <1>1 DEF Drained, timing, dialogs, traffic
<1>2. CASE ChildError(c)
  <2>1. /\ proc' \in [Children -> {"none", "failed", "up", "term", "kill", "gone"}]
        /\ \A d \in Children : proc'[d] \in {"term", "kill"} => proc[d] = proc'[d]
    BY <1>2 DEF ChildError
  <2>2. CASE c = child
    BY <1>2, <2>1, <2>2, ForceExitedInv DEF ChildError
  <2>3. CASE c # child
    BY <1>2, <2>1, <2>3 DEF ChildError, dialogs
  <2> QED
    BY <2>2, <2>3
<1> QED
  BY <1>1, <1>2

LEMMA StepInv == Inv /\ [Next]_vars => Inv'
<1> SUFFICES ASSUME Inv, [Next]_vars PROVE Inv'
  OBVIOUS
<1>1. CASE Next
  BY <1>1, CommandInv, OutputInv, AnswerInv, TimerInv, ExitInv, ChildEventInv DEF Next
<1>2. CASE UNCHANGED vars
  BY <1>2 DEF vars, timing, dialogs, traffic, history, Inv, Types, QueueInStep, KillsInStep,
              DialogsOnce, ManagesOwnPi
<1> QED
  BY <1>1, <1>2

(* The rest of the types: the timers, the history and what the session was  *)
(* last said to be.                                                         *)
Recorded ==
    /\ watchdog \in BOOLEAN /\ idle \in BOOLEAN /\ stopped \in BOOLEAN
    /\ received \in Seq(Cmds) /\ written \in Seq(Cmds)
    /\ expecting \subseteq Children /\ unanswered \subseteq Children
    /\ timers \subseteq pending /\ displaced \subseteq Children

(* A flush writes some of the queue, in its order.                          *)
LEMMA PickedQueue ==
    ASSUME NEW queue \in Seq(Cmds), NEW made \in Picks(queue)
    PROVE  /\ [i \in DOMAIN made |-> queue[made[i]]] \in Seq(Cmds)
           /\ DOMAIN made = 1 .. Len(made) /\ Len(made) \in Nat
           /\ \A i \in DOMAIN made : made[i] \in DOMAIN queue
           /\ \A i, j \in DOMAIN made : i < j => made[i] < made[j]
<1>1. PICK n \in Nat : made \in [1 .. n -> DOMAIN queue]
  BY DEF Picks
<1>2. made \in Seq(DOMAIN queue)
  BY <1>1
<1>3. /\ DOMAIN made = 1 .. n /\ Len(made) = n
      /\ \A i \in 1 .. n : made[i] \in DOMAIN queue /\ queue[made[i]] \in Cmds
  BY <1>1, <1>2
<1>4. [i \in DOMAIN made |-> queue[made[i]]] \in Seq(Cmds)
  BY <1>3
<1> QED
  BY <1>3, <1>4 DEF Picks

LEMMA RecordedStep == ASSUME Inv, Recorded, [Next]_vars PROVE Recorded'
<1> USE DEF Recorded, history, From
<1> DEFINE Kept == UNCHANGED <<stopped, received, written>>
<1>1. ASSUME NEW m \in Cmds, Command(m) PROVE Recorded'
  <2>1. /\ Append(received, m) \in Seq(Cmds) /\ Append(written, m) \in Seq(Cmds)
        /\ Arrives(m) /\ stopped' = stopped
    BY <1>1, Queued DEF Command, TriggerSpawn, Defer, Write
  <2>2. CASE TriggerSpawn(m)
    <3>1. displaced' \subseteq Children
      BY <2>2 DEF TriggerSpawn, Inv, Types
    <3> QED
      BY <2>1, <2>2, <3>1 DEF TriggerSpawn, Arrives, Spawned, SpawnedInVain, ClearChildState,
                              ClearAll, dialogs
  <2>3. CASE Defer(m)
    BY <2>1, <2>3 DEF Defer, Arrives, dialogs
  <2>4. CASE Write(m)
    BY <2>1, <2>4 DEF Write, Arrives, dialogs
  <2> QED
    BY <1>1, <2>2, <2>3, <2>4 DEF Command
<1>2. ASSUME NEW r \in Requests, Answer(r) \/ RequestTimeout(r) PROVE Recorded'
  BY <1>2 DEF Answer, RequestTimeout, ClearRequest, timing, traffic
<1>3. ASSUME ForceExited PROVE /\ watchdog' \in BOOLEAN /\ expecting' \subseteq Children
                               /\ timers' \subseteq pending'
  BY <1>3 DEF ForceExited, ClearChildState, ClearAll, dialogs
<1>4. ASSUME NEW c \in Children, Output(c) PROVE Recorded'
  <2>1. CASE StateReply(c)
    <3>1. PICK made \in Picks(deferred) : Flushed(made)
      BY <2>1 DEF StateReply, CompleteHandshake
    <3>2. written' \in Seq(Cmds)
      BY <3>1, PickedQueue DEF Flushed, Inv, Types
    <3> QED
      BY <2>1, <3>2 DEF StateReply, StateAnswered, CompleteHandshake, dialogs
  <2>2. CASE StateRefused(c)
    BY <1>3, <2>2 DEF StateRefused, StateAnswered
  <2>3. CASE StateRefusedLate(c)
    BY <2>3 DEF StateRefusedLate, StateAnswered, timing, dialogs
  <2>4. CASE Settled(c)
    BY <2>4 DEF Settled, dialogs, traffic
  <2>5. ASSUME NEW r \in Requests, Raise(c, r) PROVE Recorded'
    BY <2>5 DEF Raise, timing, traffic
  <2> QED
    BY <1>4, <2>1, <2>2, <2>3, <2>4, <2>5 DEF Output
<1>5. ASSUME NEW c \in Children, Drained(c) \/ ChildError(c) PROVE Recorded'
  BY <1>3, <1>5 DEF Drained, ChildError, timing, dialogs, traffic
<1>6. ASSUME NEW c \in Children, NEW crash \in BOOLEAN, Exit(c, crash) PROVE Recorded'
  BY <1>6 DEF Exit, HandleExit, Respawn, ClearAll
<1>7. CASE SpawnTimeout
  BY <1>3, <1>7 DEF SpawnTimeout
<1>8. CASE IdleTimeout \/ SigkillTimeout \/ Stop
  BY <1>8 DEF IdleTimeout, SigkillTimeout, Stop, ClearChildState, ClearAll, dialogs, traffic
<1>9. CASE UNCHANGED vars
  BY <1>9 DEF vars, timing, dialogs, traffic
<1> QED
  BY <1>1, <1>2, <1>4, <1>5, <1>6, <1>7, <1>8, <1>9 DEF Next

(* Every variable keeps its type, whatever the processes do.                *)
THEOREM TypesHold == Spec => []TypeOK
<1>1. Init => Recorded
  BY EmptyQueue DEF Init, Recorded
<1>2. Inv /\ Recorded => TypeOK
  BY DEF Inv, Types, Recorded, DialogsOnce, TypeOK
<1>3. Inv /\ Recorded /\ [Next]_vars => Recorded'
  BY RecordedStep
<1> QED
  BY <1>1, <1>2, <1>3, InitInv, StepInv, PTL DEF Spec

-----------------------------------------------------------------------------
(* The order of the commands.                                               *)

(* Of a sequence of commands s, a is one, and a is before b.                *)
Came(s, a) == \E k \in DOMAIN s : s[k] = a

Before(s, a, b) == \E k, l \in DOMAIN s : k < l /\ s[k] = a /\ s[l] = b

(* What was written and what waits, one behind the other, is in the order   *)
(* of arrival.                                                              *)
Ordered ==
    /\ \A i \in DOMAIN written : Came(received, written[i])
    /\ \A j \in DOMAIN deferred : Came(received, deferred[j])
    /\ \A i, j \in DOMAIN written : i < j => Before(received, written[i], written[j])
    /\ \A i, j \in DOMAIN deferred : i < j => Before(received, deferred[i], deferred[j])
    /\ \A i \in DOMAIN written, j \in DOMAIN deferred : Before(received, written[i], deferred[j])

(* What a step does to the commands: nothing, one arrives and waits, is     *)
(* written or lost, the queue is dropped, or the queue is flushed.          *)
LEMMA TrafficStep ==
    ASSUME Inv, [Next]_vars
    PROVE  \/ (UNCHANGED <<received, written>> /\ deferred' \in {deferred, <<>>})
           \/ \E m \in Cmds :
                /\ received' = Append(received, m)
                /\ \/ /\ deferred' \in {Append(deferred, m), <<m>>}
                      /\ written' = written
                   \/ /\ deferred = <<>> /\ deferred' = <<>>
                      /\ written' \in {written, Append(written, m)}
           \/ /\ received' = received
              /\ \E made \in Picks(deferred) : Flushed(made)
<1> DEFINE Dropped == UNCHANGED <<received, written>> /\ deferred' \in {deferred, <<>>}
<1>1. ForceExited => deferred' \in {deferred, <<>>}
  BY DEF ForceExited
<1>2. ASSUME NEW m \in Cmds, Command(m)
      PROVE  /\ received' = Append(received, m)
             /\ \/ /\ deferred' \in {Append(deferred, m), <<m>>}
                   /\ written' = written
                \/ /\ deferred = <<>> /\ deferred' = <<>>
                   /\ written' \in {written, Append(written, m)}
  BY <1>2 DEF Command, TriggerSpawn, Defer, Write, Arrives, Inv, QueueInStep
<1>3. ASSUME NEW r \in Requests, Answer(r) \/ RequestTimeout(r) PROVE Dropped
  BY <1>3 DEF Answer, RequestTimeout, traffic
<1>4. ASSUME NEW c \in Children, Output(c)
      PROVE  \/ Dropped
             \/ /\ received' = received
                /\ \E made \in Picks(deferred) : Flushed(made)
  <2>1. CASE StateReply(c)
    BY <2>1 DEF StateReply, StateAnswered, CompleteHandshake
  <2>2. StateRefused(c) => Dropped
    BY <1>1 DEF StateRefused, StateAnswered
  <2>3. StateRefusedLate(c) => Dropped
    BY DEF StateRefusedLate, StateAnswered
  <2>4. Settled(c) \/ (\E r \in Requests : Raise(c, r)) => Dropped
    BY DEF Settled, Raise, traffic
  <2> QED
    BY <1>4, <2>1, <2>2, <2>3, <2>4 DEF Output
<1>5. ASSUME NEW c \in Children, Drained(c) \/ ChildError(c) PROVE Dropped
  BY <1>1, <1>5 DEF Drained, ChildError, traffic
<1>6. ASSUME NEW c \in Children, NEW crash \in BOOLEAN, Exit(c, crash) PROVE Dropped
  BY <1>6 DEF Exit, HandleExit
<1>7. CASE SpawnTimeout \/ IdleTimeout \/ SigkillTimeout \/ Stop
  BY <1>1, <1>7 DEF SpawnTimeout, IdleTimeout, SigkillTimeout, Stop, traffic
<1>8. CASE UNCHANGED vars
  BY <1>8 DEF vars, traffic
<1> HIDE DEF Dropped
<1>9. QED
  BY <1>2, <1>3, <1>4, <1>5, <1>6, <1>7, <1>8 DEF Next, Dropped

(* One more arrives, behind all the others.                                 *)
LEMMA Arrived ==
    ASSUME Recorded, NEW m \in Cmds, received' = Append(received, m)
    PROVE  /\ Came(received', m)
           /\ \A a : Came(received, a) => Came(received', a) /\ Before(received', a, m)
           /\ \A a, b : Before(received, a, b) => Before(received', a, b)
<1>1. /\ DOMAIN received = 1 .. Len(received) /\ Len(received) \in Nat
      /\ DOMAIN received' = 1 .. Len(received) + 1
      /\ \A k \in DOMAIN received : received'[k] = received[k]
      /\ received'[Len(received) + 1] = m
  BY DEF Recorded
<1> QED
  BY <1>1 DEF Came, Before

LEMMA OrderedStep == ASSUME Inv, Recorded, Ordered, [Next]_vars PROVE Ordered'
<1> USE DEF Recorded, Inv, Types
<1>1. CASE UNCHANGED <<received, written>> /\ deferred' \in {deferred, <<>>}
  BY <1>1 DEF Ordered, Before, Came
<1>2. ASSUME NEW m \in Cmds, received' = Append(received, m),
             deferred' \in {Append(deferred, m), <<m>>}, written' = written
      PROVE  Ordered'
  <2>1. /\ \A i \in DOMAIN written : Came(received', written[i]) /\ Before(received', written[i], m)
        /\ \A i, j \in DOMAIN written : i < j => Before(received', written[i], written[j])
    BY <1>2, Arrived DEF Ordered
  <2>2. \A j \in DOMAIN deferred : Came(received', deferred[j]) /\ Before(received', deferred[j], m)
    BY <1>2, Arrived DEF Ordered
  <2>3. /\ \A i, j \in DOMAIN deferred : i < j => Before(received', deferred[i], deferred[j])
        /\ \A i \in DOMAIN written, j \in DOMAIN deferred : Before(received', written[i], deferred[j])
    BY <1>2, Arrived DEF Ordered
  <2>4. Came(received', m)
    BY <1>2, Arrived
  <2>5. CASE deferred' = <<m>>
    BY <1>2, <2>1, <2>4, <2>5 DEF Ordered
  <2>6. CASE deferred' = Append(deferred, m)
    <3>1. /\ DOMAIN deferred = 1 .. Len(deferred) /\ Len(deferred) \in Nat
          /\ DOMAIN deferred' = 1 .. Len(deferred) + 1
          /\ \A k \in DOMAIN deferred : deferred'[k] = deferred[k]
          /\ deferred'[Len(deferred) + 1] = m
      BY <2>6
    <3>2. \A i, j \in DOMAIN deferred' : i < j => i \in DOMAIN deferred
      BY <3>1
    <3> QED
      <4>1. \A j \in DOMAIN deferred' : Came(received', deferred'[j])
        BY <2>2, <2>4, <3>1
      <4>2. \A i, j \in DOMAIN deferred' : i < j => Before(received', deferred'[i], deferred'[j])
        BY <2>2, <2>3, <3>1, <3>2
      <4>3. \A i \in DOMAIN written, j \in DOMAIN deferred' :
              Before(received', written[i], deferred'[j])
        BY <2>1, <2>3, <3>1
      <4> QED
        BY <1>2, <2>1, <4>1, <4>2, <4>3 DEF Ordered
  <2> QED
    BY <1>2, <2>5, <2>6
<1>3. ASSUME NEW m \in Cmds, received' = Append(received, m), deferred = <<>>, deferred' = <<>>,
             written' \in {written, Append(written, m)}
      PROVE  Ordered'
  <2>1. /\ \A i \in DOMAIN written : Came(received', written[i]) /\ Before(received', written[i], m)
        /\ \A i, j \in DOMAIN written : i < j => Before(received', written[i], written[j])
    BY <1>3, Arrived DEF Ordered
  <2>2. Came(received', m)
    BY <1>3, Arrived
  <2>3. CASE written' = written
    BY <1>3, <2>1, <2>3 DEF Ordered
  <2>4. CASE written' = Append(written, m)
    <3>1. /\ DOMAIN written = 1 .. Len(written) /\ Len(written) \in Nat
          /\ DOMAIN written' = 1 .. Len(written) + 1
          /\ \A k \in DOMAIN written : written'[k] = written[k]
          /\ written'[Len(written) + 1] = m
      BY <2>4
    <3>2. \A i, j \in DOMAIN written' : i < j => i \in DOMAIN written
      BY <3>1
    <3> QED
      <4>1. \A i \in DOMAIN written' : Came(received', written'[i])
        BY <2>1, <2>2, <3>1
      <4>2. \A i, j \in DOMAIN written' : i < j => Before(received', written'[i], written'[j])
        BY <2>1, <3>1, <3>2
      <4> QED
        BY <1>3, <4>1, <4>2 DEF Ordered
  <2> QED
    BY <1>3, <2>3, <2>4
<1>4. ASSUME NEW made \in Picks(deferred), received' = received, Flushed(made) PROVE Ordered'
  <2> DEFINE n == Len(written)
  <2> DEFINE flushed == [i \in DOMAIN made |-> deferred[made[i]]]
  <2>1. /\ \A i \in DOMAIN made : made[i] \in DOMAIN deferred
        /\ \A i, j \in DOMAIN made : i < j => made[i] < made[j]
        /\ DOMAIN made = 1 .. Len(made) /\ Len(made) \in Nat
        /\ flushed \in Seq(Cmds)
    BY PickedQueue
  <2>2. /\ DOMAIN written = 1 .. n /\ n \in Nat
        /\ written' = written \o flushed /\ Len(flushed) = Len(made)
    BY <1>4, <2>1 DEF Flushed
  <2>3. /\ DOMAIN written' = 1 .. (n + Len(made))
        /\ \A k \in 1 .. n : written'[k] = written[k]
        /\ \A k \in DOMAIN made : written'[n + k] = deferred[made[k]]
    BY <2>1, <2>2
  <2> HIDE DEF n, flushed
  <2>4. \A k \in DOMAIN written' :
          \/ k \in DOMAIN written /\ written'[k] = written[k]
          \/ /\ k \notin DOMAIN written /\ k - n \in DOMAIN made
             /\ written'[k] = deferred[made[k - n]]
    <3> SUFFICES ASSUME NEW k \in DOMAIN written', k \notin DOMAIN written
                 PROVE  k - n \in DOMAIN made /\ written'[n + (k - n)] = written'[k]
      BY <2>2, <2>3
    <3> QED
      BY <2>1, <2>2, <2>3
  <2>5. \A k \in DOMAIN written' : Came(received, written'[k])
    BY <2>1, <2>4 DEF Ordered
  <2>6. ASSUME NEW i \in DOMAIN written', NEW j \in DOMAIN written', i < j
        PROVE  Before(received, written'[i], written'[j])
    <3>1. CASE j \in DOMAIN written
      <4>1. i \in DOMAIN written
        BY <2>2, <2>3, <2>6, <3>1
      <4> QED
        BY <2>3, <2>6, <3>1, <4>1, <2>2 DEF Ordered
    <3>2. CASE i \in DOMAIN written /\ j \notin DOMAIN written
      BY <2>1, <2>4, <3>2 DEF Ordered
    <3>3. CASE i \notin DOMAIN written /\ j \notin DOMAIN written
      <4>1. i - n < j - n
        BY <2>2, <2>3, <2>6, <2>1
      <4> QED
        BY <2>1, <2>4, <3>3, <4>1 DEF Ordered
    <3> QED
      BY <3>1, <3>2, <3>3
  <2>7. deferred' = <<>>
    BY <1>4 DEF Flushed
  <2> QED
    BY <1>4, <2>5, <2>6, <2>7 DEF Ordered
<1> QED
  BY <1>1, <1>2, <1>3, <1>4, TrafficStep

(* pi gets the commands at most once and in the order in which the webs     *)
(* sent them: those of the queue that survive its flush are written before  *)
(* any that arrives after the handshake (handleSpawnTrigger,                *)
(* completeHandshake).                                                      *)
THEOREM CommandsKeepOrder == Spec => []CommandsInOrder
<1>1. Init => Recorded /\ Ordered
  <2>1. DOMAIN <<>> = {}
    OBVIOUS
  <2> QED
    BY <2>1, EmptyQueue DEF Init, Recorded, Ordered
<1>2. Ordered => CommandsInOrder
  BY DEF Ordered, Before, CommandsInOrder
<1>3. Inv /\ Recorded /\ Ordered /\ [Next]_vars => Recorded' /\ Ordered'
  BY RecordedStep, OrderedStep
<1> QED
  BY <1>1, <1>2, <1>3, InitInv, StepInv, PTL DEF Spec

-----------------------------------------------------------------------------
(* Whatever web, timeout and exit do in whatever order, each dialog is      *)
(* answered to pi at most once and the last session_state is true           *)
(* (ExtensionUIRouter and broadcastSessionState).                           *)
THEOREM DialogsGoOnce == Spec => []DialogsOnce
<1>1. Inv => DialogsOnce
  BY DEF Inv
<1> QED
  BY <1>1, InitInv, StepInv, PTL DEF Spec

(* The idle timer never meets a pi that works or has work waiting, whatever *)
(* process speaks; and while no process was taken for the current one that  *)
(* was not, a session without a process shows no dialogs, and the others    *)
(* show those of the current process or of one it was spawned over          *)
(* (handleSpawnTrigger, completeHandshake, handleExit, spawnNow).           *)
THEOREM IdleSparesWork == Spec => []ManagesOwnPi
<1>1. Inv => ManagesOwnPi
  BY DEF Inv
<1> QED
  BY <1>1, InitInv, StepInv, PTL DEF Spec

(* A process the manager has killed is not restarted: the exit event finds  *)
(* the flag that was raised with the signal (handleExit).                   *)
THEOREM KilledIsNotRestarted == Spec => KilledStaysDown
<1>1. ASSUME Inv, [Next]_vars
      PROVE  child # NoChild /\ proc[child] \in {"term", "kill"} /\ child' \notin {child, NoChild}
               => strayed' \/ phase = "exited"
  <2> SUFFICES ASSUME Next, child # NoChild, proc[child] \in {"term", "kill"},
                      child' \notin {child, NoChild}, ~strayed', phase # "exited"
               PROVE  FALSE
    BY <1>1 DEF vars
  <2> USE <1>1
  <2>1. ASSUME NEW m \in Cmds, Command(m) PROVE FALSE
    BY <2>1 DEF Command, TriggerSpawn, Defer, Write
  <2>2. ASSUME NEW r \in Requests, Answer(r) \/ RequestTimeout(r) PROVE FALSE
    BY <2>2 DEF Answer, RequestTimeout
  <2>3. ASSUME NEW c \in Children, Output(c) PROVE FALSE
    BY <2>3 DEF Output, StateReply, StateRefused, StateRefusedLate, Settled, Raise,
                ForceExited, Exited
  <2>4. ASSUME NEW c \in Children, Drained(c) \/ ChildError(c) PROVE FALSE
    BY <2>4 DEF Drained, ChildError, ForceExited, Exited
  <2>5. ASSUME NEW c \in Children, NEW crash \in BOOLEAN, Exit(c, crash) PROVE FALSE
    <3>1. ~strayed /\ selfKill
      BY <2>5 DEF Exit, From, Inv, Types, KillsInStep
    <3> QED
      BY <2>5, <3>1 DEF Exit, HandleExit, Restarts, Exited
  <2>6. CASE SpawnTimeout \/ IdleTimeout \/ SigkillTimeout \/ Stop
    BY <2>6 DEF SpawnTimeout, ForceExited, Exited, IdleTimeout, SigkillTimeout, Stop
  <2> QED
    BY <2>1, <2>2, <2>3, <2>4, <2>5, <2>6 DEF Next
<1> QED
  BY <1>1, InitInv, StepInv, PTL DEF Spec, KilledStaysDown
=============================================================================
