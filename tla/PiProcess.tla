------------------------------ MODULE PiProcess ------------------------------
(***************************************************************************)
(* The manager of one pi session (packages/bridge/src/pi-process.ts) with  *)
(* its router of extension dialogs (packages/bridge/src/extension-ui.ts)   *)
(* and the pi processes it spawns.                                         *)
(*                                                                         *)
(* The manager spawns pi on the first command, asks it for its state, and  *)
(* flushes the commands that came meanwhile when the answer arrives.  It   *)
(* kills an idle pi, restarts a crashed one and gives up one that does not *)
(* answer.  Giving up lets go of the process but does not kill it, and     *)
(* stdout may still be read after the exit event: what a process that is   *)
(* not the current one any more writes, and its exit event, reach the      *)
(* manager like those of the current process.                              *)
(*                                                                         *)
(* Web commands that change nothing here (get_state, abort) and pi events  *)
(* that are only forwarded are left out, and so is the table that gives a  *)
(* response its reply_to, except for the handshakes in it.                 *)
(***************************************************************************)
EXTENDS Naturals, Sequences, SequencesExt

CONSTANTS
    Children,   \* pi processes; one is reused after its exit event
    NoChild,    \* stands for null
    Writes,     \* commands that make pi work: prompt, steer, follow_up
    Reads,      \* commands that do not: get_messages
    Requests,   \* blocking extension_ui_requests
    Timed,      \* requests that carry a timeout
    Asker       \* the process that raises a request

Cmds == Writes \union Reads

ASSUME ChildAssumption == NoChild \notin Children

ASSUME AskerAssumption == Asker \in [Requests -> Children]

ASSUME CommandAssumption == Writes \intersect Reads = {} /\ Timed \subseteq Requests

VARIABLES
    phase,      \* SessionPhase
    child,      \* the current process
    selfKill,   \* selfKillFlag
    sigkill,    \* the SIGKILL timer is armed
    idle,       \* the idle timer is armed
    watchdog,   \* the spawn timer is armed
    deferred,   \* commands that wait for the handshake
    expecting,  \* processes whose handshake is in the table of outstanding commands
    stopped,    \* stop() was called
    pending,    \* requests in blocked_on
    timers,     \* requests whose timeout is armed
    shown,      \* phase and blocked_on of the last session_state
    proc,       \* a process: "none", "failed" (never started), "up", "term", "kill",
                \* "gone" (exited, its stdout not read to the end)
    unanswered, \* processes that have a get_state to answer
    raised,     \* requests that were raised so far
    received,   \* history: commands that came from the web, in order
    written,    \* history: commands written to pi, in order
    answers,    \* history: how often each request was answered to pi
    displaced,  \* history: processes that still were the current one when another was spawned
    strayed     \* history: something of another process was taken for the current one's

timing == <<sigkill, idle, watchdog>>
dialogs == <<pending, timers, raised, answers>>
traffic == <<deferred, received, written>>
history == <<displaced, strayed>>
vars == <<phase, child, selfKill, timing, expecting, stopped, shown, proc, unanswered,
          dialogs, traffic, history>>

Alive(c) == proc[c] \in {"up", "term", "kill"}

(* Something of c reaches the manager.                                      *)
From(c) ==
    /\ Alive(c) \/ proc[c] = "gone"
    /\ strayed' = (strayed \/ c # child)
    /\ UNCHANGED displaced

-----------------------------------------------------------------------------
Init ==
    /\ phase = "exited"
    /\ child = NoChild
    /\ selfKill = FALSE
    /\ sigkill = FALSE /\ idle = FALSE /\ watchdog = FALSE
    /\ deferred = <<>> /\ received = <<>> /\ written = <<>>
    /\ expecting = {}
    /\ stopped = FALSE
    /\ pending = {} /\ timers = {} /\ raised = {}
    /\ answers = [r \in Requests |-> 0]
    /\ shown = [phase |-> "exited", blocked |-> {}]
    /\ proc = [c \in Children |-> "none"]
    /\ unanswered = {}
    /\ displaced = {}
    /\ strayed = FALSE

(* broadcastSessionState() as the last thing a handler does about its       *)
(* phase and dialogs.                                                       *)
Broadcast == shown' = [phase |-> phase', blocked |-> pending']

(* clearAll() of the router.                                                *)
ClearAll ==
    /\ pending' = {} /\ timers' = {}
    /\ UNCHANGED <<raised, answers>>

(* What every path that loses the process clears.                           *)
ClearChildState ==
    /\ sigkill' = FALSE
    /\ watchdog' = FALSE
    /\ expecting' = {}
    /\ ClearAll

Exited ==
    /\ phase' = "exited"
    /\ child' = NoChild
    /\ Broadcast

(* forceExitedAfterSpawnFailure(): the process is let go, not killed.       *)
ForceExited ==
    \/ /\ child = NoChild /\ phase = "exited"
       /\ UNCHANGED <<phase, child, sigkill, dialogs, deferred, shown>>
       /\ watchdog' = FALSE
       /\ expecting' = {}
    \/ /\ child # NoChild \/ phase # "exited"
       /\ deferred' = <<>>
       /\ ClearChildState
       /\ Exited

(* spawnNow(): start c, attach to it, ask for its state, arm the watchdog.  *)
(* A c that cannot be started is reported by an error event later.          *)
Spawned(c) ==
    /\ proc[c] = "none"
    /\ child' = c
    /\ phase' = "spawning"
    /\ expecting' = expecting \union {c}
    /\ unanswered' = unanswered \union {c}
    /\ watchdog' = TRUE
    /\ Broadcast

(* spawnNow() when the handshake cannot be written: c is let go at once.    *)
SpawnedInVain(c) ==
    /\ proc[c] = "none"
    /\ UNCHANGED unanswered
    /\ ClearChildState
    /\ Exited

Started(c) == \E state \in {"up", "failed"} : proc' = [proc EXCEPT ![c] = state]

-----------------------------------------------------------------------------
(* handleSpawnTrigger(): a command arrives.  A write stops the idle timer   *)
(* in any phase.                                                            *)
Arrives(m) ==
    /\ ~Contains(received, m)
    /\ received' = Append(received, m)
    /\ idle' = IF m \in Writes THEN FALSE ELSE idle

(* In `exited' pi is spawned first and the command queued after.            *)
TriggerSpawn(m) ==
    /\ Arrives(m)
    /\ phase = "exited" /\ ~stopped
    /\ \E c \in Children :
        /\ Started(c)
        /\ \/ /\ UNCHANGED <<sigkill, dialogs>>
              /\ Spawned(c)
              /\ deferred' = Append(deferred, m)
           \/ /\ SpawnedInVain(c)
              /\ deferred' = <<m>>
    /\ displaced' = displaced \union ({child} \ {NoChild})
    /\ UNCHANGED <<selfKill, stopped, written, strayed>>

(* In `spawning', and when nothing is spawned any more, it is queued.       *)
Defer(m) ==
    /\ Arrives(m)
    /\ phase = "spawning" \/ (phase = "exited" /\ stopped)
    /\ deferred' = Append(deferred, m)
    /\ UNCHANGED <<phase, child, selfKill, sigkill, watchdog, expecting, stopped, shown, proc,
                   unanswered, dialogs, written, history>>

(* In the other phases it is written, or lost when there is no process or   *)
(* the pipe is broken, and a write wakes the session up.                    *)
Write(m) ==
    /\ Arrives(m)
    /\ phase \in {"ready", "running", "idle"}
    /\ \/ child # NoChild /\ written' = Append(written, m)
       \/ UNCHANGED written
    /\ UNCHANGED <<child, selfKill, sigkill, watchdog, expecting, stopped, proc, unanswered,
                   dialogs, deferred, history>>
    /\ IF m \in Writes /\ phase # "running" THEN phase' = "running" /\ Broadcast
       ELSE UNCHANGED <<phase, shown>>

-----------------------------------------------------------------------------
(* What pi writes to stdout.                                                *)

(* What of a queue may be written: any of its commands, in its order.  A    *)
(* write that fails loses its command, not those behind it.                 *)
Picks(queue) ==
    {made \in UNION {[1 .. n -> DOMAIN queue] : n \in 0 .. Len(queue)} :
        \A i, j \in DOMAIN made : i < j => made[i] < made[j]}

(* Mutant: the queue survives its flush.                                    *)
FlushedAgain(made) ==
    /\ UNCHANGED deferred
    /\ written' = written \o [i \in DOMAIN made |-> deferred[made[i]]]

(* The deferred commands are written, those of them that are in `made'.     *)
Flushed(made) ==
    /\ deferred' = <<>>
    /\ written' = written \o [i \in DOMAIN made |-> deferred[made[i]]]

(* Mutant: the idle timer is armed whatever was in the queue.               *)
CompleteHandshakeIdle ==
    /\ watchdog' = FALSE
    /\ \E made \in Picks(deferred) :
        /\ child = NoChild => made = <<>>
        /\ Flushed(made)
    /\ phase' = IF Range(deferred) \intersect Writes # {} THEN "running" ELSE "ready"
    /\ idle' = TRUE
    /\ Broadcast

(* completeHandshake(): flush the queue; without a write in it the session  *)
(* is ready and the idle timer starts.                                      *)
CompleteHandshake ==
    /\ watchdog' = FALSE
    /\ \E made \in Picks(deferred) :
        /\ child = NoChild => made = <<>>
        /\ Flushed(made)
    /\ phase' = IF Range(deferred) \intersect Writes # {} THEN "running" ELSE "ready"
    /\ idle' = IF phase' = "ready" THEN TRUE ELSE idle
    /\ Broadcast

(* The get_state of the handshake is answered, by the current process or by *)
(* one that was let go.                                                     *)
StateAnswered(c) ==
    /\ From(c) /\ c \in unanswered
    /\ unanswered' = unanswered \ {c}
    /\ UNCHANGED <<selfKill, stopped, proc, received>>

(* handlePiResponse(): success completes the handshake, in the table of     *)
(* outstanding commands or not.                                             *)
StateReply(c) ==
    /\ StateAnswered(c)
    /\ expecting' = expecting \ {c}
    /\ UNCHANGED <<child, sigkill, dialogs>>
    /\ CompleteHandshake

(* Failure gives the process up when its handshake is outstanding.          *)
StateRefused(c) ==
    /\ StateAnswered(c)
    /\ c \in expecting
    /\ ForceExited
    /\ UNCHANGED <<idle, written>>

(* Failure of a handshake that is not outstanding is only forwarded.        *)
StateRefusedLate(c) ==
    /\ StateAnswered(c)
    /\ c \notin expecting
    /\ UNCHANGED <<phase, child, timing, expecting, shown, dialogs, deferred, written>>

(* agent_settled starts the idle timer, in `running' only.                  *)
Settled(c) ==
    /\ From(c)
    /\ phase = "running"
    /\ phase' = "idle"
    /\ idle' = TRUE
    /\ UNCHANGED <<child, selfKill, sigkill, watchdog, expecting, stopped, proc, unanswered,
                   dialogs, traffic>>
    /\ Broadcast

(* handleBlockingRequest(): an entry in blocked_on, with its timeout.       *)
Raise(c, r) ==
    /\ From(c)
    /\ Asker[r] = c /\ r \notin raised
    /\ raised' = raised \union {r}
    /\ pending' = pending \union {r}
    /\ timers' = timers \union ({r} \intersect Timed)
    /\ UNCHANGED <<phase, child, selfKill, timing, expecting, stopped, proc, unanswered,
                   traffic, answers>>
    /\ Broadcast

-----------------------------------------------------------------------------
(* The router.                                                              *)

(* Mutant: the timeout of an answered request stays armed.                  *)
ClearRequestUntimed(r) ==
    /\ pending' = pending \ {r}
    /\ UNCHANGED timers

(* Mutant: the entry stays when the answer is written.                      *)
ClearRequestLate(r) ==
    /\ timers' = timers \ {r}
    /\ UNCHANGED pending

ClearRequest(r) ==
    /\ pending' = pending \ {r}
    /\ timers' = timers \ {r}

(* handleWebResponse(): a web answers a pending request.  An answer that    *)
(* has no form in pi's protocol only drops the entry; one that cannot be    *)
(* written puts the session in `exited', and the process stays.  (An answer *)
(* to a request that is not pending is refused as expired.)                 *)
Answer(r) ==
    /\ r \in pending
    /\ ClearRequest(r)
    /\ \/ /\ child # NoChild
          /\ answers' = [answers EXCEPT ![r] = @ + 1]
          /\ UNCHANGED phase
       \/ UNCHANGED <<phase, answers>>
       \/ phase' = "exited" /\ UNCHANGED answers
    /\ Broadcast
    /\ UNCHANGED <<child, selfKill, timing, expecting, stopped, proc, unanswered, traffic, raised,
                   history>>

(* timeoutFired(): the entry goes, pi times out by itself.                  *)
RequestTimeout(r) ==
    /\ r \in timers
    /\ ClearRequest(r)
    /\ UNCHANGED <<phase, child, selfKill, timing, expecting, stopped, proc, unanswered,
                   traffic, raised, answers, history>>
    /\ Broadcast

-----------------------------------------------------------------------------
(* Timers.                                                                  *)

(* The watchdog of a handshake that is not answered.                        *)
SpawnTimeout ==
    /\ watchdog
    /\ ForceExited
    /\ UNCHANGED <<selfKill, idle, stopped, proc, unanswered, received, written, history>>

Signalled(c, signal) ==
    [proc EXCEPT ![c] = IF @ \in {"up", "term"} THEN signal ELSE @]

(* killIdleChild(): flag first, then SIGTERM, then the SIGKILL timer.       *)
IdleTimeout ==
    /\ idle
    /\ idle' = FALSE
    /\ IF child = NoChild THEN UNCHANGED <<selfKill, sigkill, proc>>
       ELSE /\ selfKill' = TRUE
            /\ sigkill' = TRUE
            /\ proc' = Signalled(child, "term")
    /\ UNCHANGED <<phase, child, watchdog, expecting, stopped, shown, unanswered, dialogs, traffic,
                   history>>

(* The process survived SIGTERM for its grace time.                         *)
SigkillTimeout ==
    /\ sigkill
    /\ sigkill' = FALSE
    /\ proc' = IF child = NoChild THEN proc ELSE Signalled(child, "kill")
    /\ UNCHANGED <<phase, child, selfKill, idle, watchdog, expecting, stopped, shown, unanswered,
                   dialogs, traffic, history>>

(* stop(): no timer survives, and the process gets SIGTERM, nothing more.   *)
Stop ==
    /\ ~stopped
    /\ stopped' = TRUE
    /\ idle' = FALSE
    /\ ClearChildState
    /\ IF child = NoChild THEN UNCHANGED <<selfKill, proc>>
       ELSE selfKill' = TRUE /\ proc' = Signalled(child, "term")
    /\ UNCHANGED <<phase, child>>
    /\ Broadcast
    /\ UNCHANGED <<unanswered, traffic, history>>

-----------------------------------------------------------------------------
(* Events of a process.                                                     *)

(* Mutant: the watchdog is cleared after the restart and not before.        *)
RespawnUnwatched(left) ==
    \E d \in Children :
        /\ left[d] = "none"
        /\ proc' = [left EXCEPT ![d] = "up"]
        /\ child' = d
        /\ phase' = "spawning"
        /\ expecting' = {d}
        /\ unanswered' = unanswered \union {d}
        /\ watchdog' = FALSE
        /\ Broadcast

(* spawnNow() once more, with any process that is free.                     *)
Respawn(left) ==
    \E d \in Children :
        /\ left[d] = "none"
        /\ \E state \in {"up", "failed"} : proc' = [left EXCEPT ![d] = state]
        /\ \/ /\ child' = d
              /\ phase' = "spawning"
              /\ expecting' = {d}
              /\ unanswered' = unanswered \union {d}
              /\ watchdog' = TRUE
              /\ Broadcast
           \/ /\ Exited
              /\ expecting' = {}
              /\ watchdog' = FALSE
              /\ UNCHANGED unanswered

(* handleExit() of a process that is gone afterwards: `left' is what        *)
(* remains.  Whoever it was, the current process is taken to have exited.   *)
HandleExit(left, restart) ==
    /\ selfKill' = FALSE
    /\ deferred' = <<>>
    /\ sigkill' = FALSE
    /\ ClearAll
    /\ IF restart
       THEN Respawn(left)
       ELSE /\ proc' = left
            /\ watchdog' = FALSE
            /\ expecting' = {}
            /\ Exited
            /\ UNCHANGED unanswered
    /\ UNCHANGED <<idle, stopped, received, written>>

(* Mutant: the flag of the manager's own kills is not looked at.            *)
RestartsUnflagged(crash) == crash /\ ~stopped /\ phase # "exited"

(* Only a crash restarts pi: not an exit that the manager asked for, not a  *)
(* clean one, none once the manager is stopped.                             *)
Restarts(crash) == crash /\ ~selfKill /\ ~stopped /\ phase # "exited"

(* The exit event of c, with an exit code of zero or not.                   *)
Exit(c, crash) ==
    /\ Alive(c) /\ From(c)
    /\ HandleExit([proc EXCEPT ![c] = "gone"], Restarts(crash))

(* stdout of c is at its end.                                               *)
Drained(c) ==
    /\ proc[c] = "gone"
    /\ proc' = [proc EXCEPT ![c] = "none"]
    /\ unanswered' = unanswered \ {c}
    /\ UNCHANGED <<phase, child, selfKill, timing, expecting, stopped, shown, dialogs, traffic,
                   history>>

(* handleChildError(): an error event of c, which could not be started or   *)
(* reached.  That of another process is ignored.                            *)
ChildError(c) ==
    /\ Alive(c) \/ proc[c] = "failed"
    /\ IF proc[c] = "failed"
       THEN proc' = [proc EXCEPT ![c] = "none"] /\ unanswered' = unanswered \ {c}
       ELSE UNCHANGED <<proc, unanswered>>
    /\ IF c = child THEN ForceExited
       ELSE UNCHANGED <<phase, child, sigkill, watchdog, expecting, dialogs, deferred, shown>>
    /\ UNCHANGED <<selfKill, idle, stopped, received, written, history>>

Command(m) == TriggerSpawn(m) \/ Defer(m) \/ Write(m)

Output(c) ==
    \/ StateReply(c) \/ StateRefused(c) \/ StateRefusedLate(c) \/ Settled(c)
    \/ \E r \in Requests : Raise(c, r)

Next ==
    \/ \E m \in Cmds : Command(m)
    \/ \E r \in Requests : Answer(r) \/ RequestTimeout(r)
    \/ \E c \in Children :
        \/ Output(c) \/ Drained(c) \/ ChildError(c)
        \/ \E crash \in BOOLEAN : Exit(c, crash)
    \/ SpawnTimeout \/ IdleTimeout \/ SigkillTimeout \/ Stop

(* Timers fire, and a process that gets SIGKILL exits.  Nothing else is     *)
(* promised: pi may never answer and may ignore SIGTERM.  The watchdog is   *)
(* set back by each restart, so it is sure to fire only for one process.    *)
Fairness ==
    /\ \A c \in Children :
        /\ WF_vars(child = c /\ SpawnTimeout)
        /\ WF_vars(proc[c] = "kill" /\ \E crash \in BOOLEAN : Exit(c, crash))
    /\ WF_vars(SigkillTimeout)

Spec == Init /\ [][Next]_vars

FairSpec == Spec /\ Fairness
-----------------------------------------------------------------------------
(* Properties                                                               *)

(* Every variable has its type; only a pending request has its timeout      *)
(* armed.                                                                   *)
TypeOK ==
    /\ phase \in {"exited", "spawning", "ready", "running", "idle"}
    /\ child \in Children \union {NoChild}
    /\ selfKill \in BOOLEAN
    /\ sigkill \in BOOLEAN /\ idle \in BOOLEAN /\ watchdog \in BOOLEAN
    /\ deferred \in Seq(Cmds) /\ received \in Seq(Cmds) /\ written \in Seq(Cmds)
    /\ expecting \subseteq Children
    /\ stopped \in BOOLEAN
    /\ timers \subseteq pending /\ pending \subseteq raised /\ raised \subseteq Requests
    /\ answers \in [Requests -> Nat]
    /\ shown \in [phase : {"exited", "spawning", "ready", "running", "idle"},
                  blocked : SUBSET Requests]
    /\ proc \in [Children -> {"none", "failed", "up", "term", "kill", "gone"}]
    /\ unanswered \subseteq Children
    /\ displaced \subseteq Children
    /\ strayed \in BOOLEAN

(* pi gets the commands at most once and in the order in which the webs     *)
(* sent them, whether they waited for a handshake or not.                   *)
CommandsInOrder ==
    \A i, j \in DOMAIN written :
        i < j => \E k, l \in DOMAIN received :
                    k < l /\ received[k] = written[i] /\ received[l] = written[j]

(* What the last session_state said is what is the case, and a dialog is    *)
(* answered to pi at most once, whichever of the webs, its timeout and the  *)
(* exit of pi come first.                                                   *)
DialogsOnce ==
    /\ shown = [phase |-> phase, blocked |-> pending]
    /\ \A r \in Requests :
          answers[r] + (IF r \in pending THEN 1 ELSE 0) <= (IF r \in raised THEN 1 ELSE 0)

(* The idle timer is never armed while pi works or work waits for it,       *)
(* whatever process speaks.  And as long as no process was taken for the    *)
(* current one that was not, a session without a process is exited and      *)
(* shows no dialogs, and every dialog it shows was raised by the current    *)
(* process or by one that was left running when the current one was         *)
(* spawned: the exit of a process takes its dialogs with it.                *)
ManagesOwnPi ==
    /\ idle => phase # "running" /\ Range(deferred) \intersect Writes = {}
    /\ ~strayed =>
        /\ child = NoChild => phase = "exited" /\ pending = {}
        /\ \A r \in pending : Asker[r] \in {child} \union displaced

(* A process the manager has killed is not restarted when it exits.         *)
KilledStaysDown ==
    [][child # NoChild /\ proc[child] \in {"term", "kill"} /\ child' \notin {child, NoChild}
         => strayed' \/ phase = "exited"]_vars

(* No process is the current one for ever while it starts or while it is    *)
(* being killed, whatever it does: a spawn comes to its end, and a pi that  *)
(* was told to go because it is idle goes or is let go, until stop().       *)
SpawnEnds ==
    \A c \in Children :
        []<>~(/\ child = c /\ ~stopped
              /\ phase = "spawning" \/ proc[c] \in {"term", "kill"})

-----------------------------------------------------------------------------
(* What the code does not do.                                               *)

(* The exit of a process that was let go does not touch the current one:    *)
(* "so a subsequent `exit` event sees `this.child === null` and             *)
(* short-circuits" (pi-process.ts, forceExitedAfterSpawnFailure).           *)
LateExitIgnored ==
    [][\A c \in Children \ {child} :
         Alive(c) /\ proc'[c] = "gone" => UNCHANGED <<phase, child>>]_vars

(* A session shows the dialogs of its own process: a restarted process does *)
(* not "inherit a stale blocked_on set" (pi-process.ts, handleExit).  It    *)
(* does when an answer could not be written and the next command spawns a   *)
(* process: nothing clears what else the old one had asked.                 *)
OwnDialogs == ~strayed => \A r \in pending : Asker[r] = child

(* The queue is there for the handshake only: "Commands received during     *)
(* `spawning` - held until the handshake completes" (pi-process.ts,         *)
(* deferredCommands).                                                       *)
QueuedForHandshake == deferred # <<>> /\ ~stopped => phase = "spawning"
=============================================================================
