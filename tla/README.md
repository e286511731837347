# TLA+ models of RemotePi

RemotePi lets a web page drive `pi` coding-agent processes that run on another
machine. This directory holds models of its core in TLA+, the configurations
with which TLC checks them, and proofs for TLAPS. The reference is the source
under `src/`; `PROJECT.json` maps each definition to the lines it stands for.

## 1. The system

```
 web page ──ws──┐                                        ┌── PiProcessManager ── pi --mode rpc ── subagent tool ── sub-pis
 web page ──ws──┤  Worker + Durable Object   BridgeClient│    + ExtensionUIRouter
                └──► Room (one per token) ◄──ws── bridge ┼── PiProcessManager ── pi --mode rpc
                                                daemon   └── BridgeSessionLayer, WorkDirStore
```

| Component | State | Operations | Interaction | Hard behaviour | What makes it correct | Module |
|---|---|---|---|---|---|---|
| **Room** (`worker/src/room.ts`, `heartbeat.ts`) | map of connections with their `ConnMeta`, the bridge slot, the challenge in flight, the last `bridge_status` | upgrade, first frame (handshake), relay, pong, close and error events, handshake timer, challenge timer, heartbeat tick | relays frames between the webs and the one bridge of its token; status broadcasts to webs | a second bridge challenges the first; pongs, timers and close events race; peers die without a close event | one owner of the slot, who gets the webs' frames; the slot changes hands only by a challenge; webs know whether there is a bridge; silent peers are dropped | `Room`, `BridgeSlot` |
| **Worker entry** (`worker/src/index.ts`, `env.ts`) | none | route an upgrade to the room of its token | calls the Room | – | – | – |
| **BridgeClient** (`bridge/src/client.ts`) | the socket, `attempt`, `handshakeConfirmed`, the reconnect and idle timers, `stopped` | start, stop, socket events, both timers, sendEnvelope | websocket to the Room; hands envelopes to the session layer | sockets that were given up go on emitting events; refusals; silent connections | never two connections, never none for ever; backoff as documented | `BridgeClient` |
| **BridgeSessionLayer** (`bridge/src/session-layer.ts`) | map from session keys to managers, key holder of each manager | route a command, make a manager, move a pending session to its stem, forget an exited one, work-dir commands, stop | calls managers; called back on every frame they send; reads session directories | a new session gets its key from the file system while siblings and old sessions live in the same directory; callbacks in the middle of a manager's own handler | a command reaches the pi of its session | `SessionLayer`; the work-dir commands in `WorkDirs` |
| **PiProcessManager** (`bridge/src/pi-process.ts`) | phase, child process, deferred commands, outstanding commands, spawn/idle/SIGKILL timers, `selfKillFlag` | commands, output lines, exit and error events, three timers, stop | pipes to one `pi`; frames to the session layer | handshake with a silent pi, crash and restart, SIGTERM then SIGKILL, events of a process that was given up | commands reach pi once and in order; no session hangs in `spawning`; a busy pi is not killed; the web is told the truth | `PiProcess` |
| **ExtensionUIRouter** (`bridge/src/extension-ui.ts`) | pending dialogs and their timers | raise, answer, time out, clear | owned by a manager; its list is `blocked_on` of `session_state` | an answer, the timeout and the exit of pi race | each dialog goes exactly once and every web sees it go | `PiProcess` |
| **Subagent tool** (`.pi/extensions/subagent`) | the jobs of tool calls, the registry of suspensions, the processes it started | run one task, a chain or several in parallel; watchdogs; resume, kill, abort; reaper at exit | signals and pipes to sub-pis | a silent sub-pi is frozen and its job parked; its siblings, a resume, a kill and the late close event meet | every frozen process can be reached; results stay in the slots of their tasks; a kill is final; every call answers | `Subagent` |
| **WorkDirStore** (`bridge/src/state.ts`) | list of work dirs in memory and in `state.json` | load, add, remove, migrate | called by the session layer and at start | write to a temporary file, then rename; errors and crashes in between | what was answered survives every crash and restart | `WorkDirs` |
| **Work directory pages** (`web/src/components/Sidebar.tsx`, `DirectoryBrowser.tsx`) | a page's copy of the list, the browser and the query it waits for, watchdogs | open, browse, add, remove, cancel | requests to the session layer; answers go to every page | answers out of order, to other pages, or never | a page shows the saved list and the entries of the directory it is in | `WorkDirs` |
| **Web connection** (`web/src/ws/WsClient.ts`, `tokenStorage.ts`, the effect of `App.tsx`) | the socket, the reconnect timer, the heartbeat, the stored token | connect, disconnect, socket events, ping, pong, timers, token changes in two tabs | websocket to the Room | half-open connections, sockets that were given up, a token that changes meanwhile | one connection, watched by its own heartbeat, and online in the end | `WebConnection` |
| **Web recovery and session store** (`WsClient.ts`, `recovery.ts`, `stem-refilled.ts`, `hash.ts`, `App.tsx`) | buckets of sessions, gates of the recovery ceremony, the watcher of a new session's stem, the URL | receive, route a frame to a bucket, start and end a ceremony, move `session=new` to its stem, navigate | frames of the session layer | late replies, replies after navigation, loss of the connection in the middle | ready means recovered; a bucket holds what is its session's; recovery ends | `WebSessions` |
| **Bridge start, file system queries, protocol schemas, web user interface, tooling** | none that outlives a call, or rendering | – | – | – | – | what the start does to saved directories and one query are in `WorkDirs` |

## 2. The modules

| Module | Models | Checked | Proved |
|---|---|---|---|
| `BridgeSlot` | the abstract specification of the bridge slot: an owner, at most one rival, who decides | as a property of `Room` | `Room` implements it |
| `Room` | the Room in full | `room_relay`, `room_takeover` | `RoomProofs` |
| `BridgeClient` | the reconnect loop, with the network and a room that may refuse | `client_loop`, `client_refused` | `BridgeClientProofs` |
| `PiProcess` | one manager with its router and its successive processes | `pi_session` | `PiProcessProofs` |
| `SessionLayer` | routing and migration, with managers reduced to what the layer sees | `session_routing`, `session_migrates` | `SessionLayerProofs` |
| `Subagent` | the tool calls, the watchdogs, the registry and the processes | `subagent` | `SubagentProofs` |
| `WebConnection` | the lifecycle half of WsClient under the effect that drives it | `web_connection` | `WebConnectionProofs` |
| `WebSessions` | the state half of WsClient, ceremonies, gates, watcher, URL | `web_sessions` | `WebSessionsProofs` |
| `WorkDirs` | the saved list end to end: file, store, session layer, pages | `work_dirs`, `work_dir_error` | `WorkDirsProofs` |
| `MC*` | the instances for TLC | | |

Where a component needs another one, its module takes what the
other promises: `BridgeClient` has a peer that may be alive, silent or refuse, as
`Room` does; `SessionLayer` has managers that exit, crash or let a pi go, as
`PiProcess` does; `WebSessions` has a bridge that sends what `SessionLayer` sends, a new session's
move to its stem included; `WorkDirs` composes the store, its callers and the pages, over a room that keeps order.

What could come next: abstract specifications for the other components, as `BridgeSlot` is for the Room (the saved list and the
registry of suspensions first); the list of sessions of the sidebar.
Modules that are proved about use recursive functions or folds, never `RECURSIVE` operators.

## 3. How the models correspond to the code

JavaScript runs each callback to its end, so in every module an event handler is
one action with everything it calls, and callbacks interleave in any order. Timers have no durations unless said
otherwise: an armed timer may fire at any time.

### Room

`meta[c]` is the `ConnMeta` of a connection; `webs` and the bridges in `meta` are the keys of
the map; `bridge` is `this.bridgeWs`; `challenge` is `this.challenge`; `lastStatus` the
remembered status. `sock` is the readyState of the websocket, `mute` a peer that has died
silently. Actions: `Upgrade` (`fetch`), `Handshake`, `RejectVersion`, `RejectFirstFrame`
(`handleHandshake` and its refusals), `RelayPing` (a ping relayed to the other side, the only
relayed frame whose answer matters here), `RecvPong` (`handlePong` in its three uses),
`HandshakeTimeout`, `ChallengeTimeout`, `Tick` (`heartbeatTick` over all connections),
`Disconnect` (`handleClose`). `FallSilent` is the environment. A nonce is a pair of its purpose
and a serial number; `Serial` bounds the serials, and a nonce is reused only when nobody
remembers it. `asked` keeps the pings a peer has not answered: a peer may answer late, out of order, or never.

A restart of the Durable Object is not an action: it loses all memory and all sockets,
which is `Init` again.

### BridgeClient

Variables have the names of the class's fields. `sock`, `peer` and `inbox` are the network. A
socket that was given up keeps emitting events until its close event. Each handler first
asks whether the socket is the current one (`ws !== this.ws`), as in the code. `MaxAttempt` is
the attempt at which the delay reaches its cap; delays themselves are not modelled.

### PiProcess

One manager. `child` is the current process; `proc` gives the state of every process, so
that those that were given up (`forceExitedAfterSpawnFailure`) or have been replaced go on
emitting output and exit events. `Command` is `handleEnvelope` with `handleSpawnTrigger` or
the direct write; `Output` is a line of output (an answer to the handshake, an event that
settles or starts work, a dialog); `Exit` is `handleExit` with its restart; `ChildError` the
`error` event; `Answer` and `RequestTimeout` belong to the router. `strayed` records that
an event of another process than the current one was taken for the current one's, and `displaced` the processes over which
another was spawned (an answer that cannot be written puts the session into `exited` and leaves its process). Two properties hold only without such a mix-up and say
so: `KilledStaysDown`, and what `ManagesOwnPi` says of the process and the dialogs of a session; what it says of the idle timer holds always. Section 7 says what a mix-up does. Commands are distinct, each is sent once; a flush writes any of those that wait (`Picks`), in
their order, because a write that fails loses its command and not those behind it. A crash broadcasts `exited` and then
`spawning` in one handler; `shown` keeps the last.

### SessionLayer

`managers` is the map, `known` the keys of `managerKeys`, `holder` the key in the closure that
labels frames, `mapKey` the `opts.mapKey` that the frame hook closed over. `files` are the session directories
(`CreateFile` is pi), `snapshot` is `preExistingSessionFiles`. A frame of a
manager is `StateFrame` (session_state) or `OtherFrame` (everything else), since the hook treats the two
differently. A manager's exit is `Exit`, `Crash` (`exited`, then a restart) or `LetGo`; what its pi wrote may still be read after the exit
event (`pi` is `"gone"`), so `OtherFrame` needs no running pi. Two histories name what `RoutedRight` excepts: `again`, the managers that moved without having their pending
key (any more) (`session_migrates`), and `crowded`, those that waited under their pending key when another pi created a session file in their work dir
(`SiblingsExcluded`, section 7). Two work dirs whose encodings collide
are left out, and so are answers to commands that only read.

### Subagent

A task is a pair of its tool call and its slot, and stands for its process and that process's group; a single run is a
chain of length one. `st` and `code` are what the kernel and Node know of the process (a zombie is `dead` until it is
reaped, and `closed` once its pipes have ended too); `held` says that something the process left behind keeps its stdout open,
so that no close event comes. `cold` is the run that spawned the process, `leg` every resume, `susp` the
registry with the ids in the order they were given, `completed` the `completedResults` of a job. Actions: `Start`, `Spawn`, `ColdWatchdog`
and `LegWatchdog` (the two idle timers, which freeze with SIGSTOP), `Close` (the close event, to the run, to the resume or to nobody), `Resume`, `Kill`, `Abort`,
`KillFallback` (SIGKILL after SIGTERM), `ParentExits` (the reaper: a parent that ends by itself, from SIGINT or from SIGTERM). A run whose abort handler has fired (`WasAborted`) has failed even if its
process ended well, and stops its chain; a resumed leg goes by its process alone. A process that is dead but not reaped can be resumed, since SIGCONT to its group succeeds; the resume then ends with the close event. Results are abstracted to the task they are of and how it ended.
The code filters an array with one place for each slot; the model takes the set of the slots that stay and lists it in ascending order (`InOrder`),
the place of a slot being the number of slots up to it (`Rank`).

`tainted` is history: it records four cases after which the slots of a parallel call are not to be relied on. A suspension is dropped because its process
could not be thawed (section 7); `finalizeAndContinue` counts the suspensions of another parallel call (`index.ts:2992` does not compare groups); a process is frozen
again after its kill; an id is resumed a second time. The properties about results exclude them.

### WebConnection

Listeners stay on a socket for its whole life, so every socket the client made may still raise events. `message` and `close` are guarded by the
identity of the socket, `open` is not (`handleOpen`); what makes that harmless is that the cleanup of the effect in `App.tsx` disconnects before it
connects, which is part of `FollowToken`, and a mutant without it is caught. `stored` is the token in `localStorage` that tabs share; `OtherTab` writes it,
`Mount` and `HashChange` read it. A page without a token shows only the dialog that asks for one (`EnterToken`), which reloads it. `App` returns before half of its hooks when it has no token, so a `HashChange` that finds the first token, or
finds it gone, makes React throw and unmount the page: `page` is `"broken"` then, its effects cleaned up, until a reload (section 7). The `error` event is folded into the `close` event that follows it. `sentOn` is history.

### WebSessions

The bridge is cut down to what it sends: `session_state`, events, snapshots, replies to `get_state`. A frame carries the session it comes from only as history (`of`);
the client never looks at it, as in the code, where only `session_state` and replies to `get_state` name a session. A bucket's messages are abstracted to the set of sessions they come from, its draft
to the session it is a draft of. `gate[k]` is an entry of App's map of gates with its ceremony; `no` tells ceremonies apart as their request ids do.
`Receives` is `handleMessage` with everything that hangs on it: the bucket, the move of the new session (`handleSessionState`), the ceremony's listeners and the stem watcher. `HashChange`
and `AutoStarts` are the effects of `App.tsx`, `Timeout` a query's timer. `answers` and `missed` are history: the replies to the latest ceremony, and the sessions of which a phase may have been lost with a connection.
While the bridge is cut off (`BridgeBreaks`, `BridgeReturns`) its sessions go on, and `Sends` loses what they say; of the requests it has any may be lost, and the answers to the others come if it is back by then, since the page keeps its
resolvers. Whether the bucket under the new stem holds a list of sessions, which counts as state in `stemHasState`, is a choice of the step (`listed` of `Migrated`).
A second new session in the same directory is left out; a session is listed only once it has a file.

### WorkDirs

Every call on the file system is a step: `Saving` is the next of write, close and rename, `SaveFails` its error, `Crashes` the end of the process between
any two. A handler of the session layer is synchronous, so the bridge takes no other request meanwhile; its second half runs when the save has returned. `Starts` is the start of the
bridge with load, migration of `work_dir` and validation. The room keeps the order of each connection: every page has a queue of requests of its own (`inbox`), of which the bridge takes any, and one of answers (`wire`). The bridge's answers go to every page, whoever asked; a request that finds no bridge is lost.
`tabs` are the pages in which `WorkDirsTab` is mounted: only its effect asks for the list by itself, when the tab is opened and when the page connects with it open. An addition that succeeds may take the page away from the tab (`Added`).
`missed` are the pages that made a change and owe the others the question for the list: they lost the question, or the answer that would have made them ask, and have not asked since.
`acked`, `silenced` and `missed` are history. `Starts` also needs the directory of `bridge.json`, which is checked at every start. The list is the list; directories are only there or not (`good`), and a torn file is one value, since the loader
treats every unreadable file alike. The address bar, and the schema check of a file edited by hand, are left out.

## 4. The runs

| Run | Instance | States | Shows |
|---|---|---|---|
| `room_relay` | 2 bridges, 1 web, constants of the code (20 s, 30 s, 3) | 286,804 | `RelayToOwner`, `StatusTold`, `SilenceBounded` |
| `room_takeover` | 3 bridges, 2 misses | 29,084 | the slot: `SlotIsOpenBridge`, `ChallengeHandled`, `ChallengeDecided`; that Room implements BridgeSlot (`SlotImplemented`); that everybody gets a verdict and dead peers are dropped (`EveryoneSettled`) |
| `client_loop` | 3 sockets, cap at 3, 2 frames in flight | 2,480 | `OneWayBack`, `OneConnection`, `BackoffFollowsHealth`, `ComesBack` |
| `pi_session` | 2 processes, one write, one read, two dialogs of one process, one with a timeout | 604,358 | `CommandsInOrder`, `DialogsOnce`, `ManagesOwnPi`, `KilledStaysDown`, `SpawnEnds` |
| `session_routing` | 2 managers, 2 sessions, 2 work dirs, a default work dir | 595,280 | `SessionIsNew`, `RoutedRight` |
| `subagent` | three tasks in parallel, two at a time, or a chain of two | 382,517 | `FrozenReachable`, `ResultsInOrder`, `KillIsFinal`, `CallsSettle` |
| `web_connection` | 3 sockets, 2 tokens, 3 nonces | 311,204 | `OneConnection`, `NeverAsleep`, `EndsUpOnline` |
| `web_sessions` | an old session and a new one in one directory | 1,103,855 | `ReadyAnswered`, `BucketsKept`, `NotStuckLoading` |
| `work_dirs` | 2 directories, 2 pages of which one is used | 650,210 | `AckedDurable`, `EntriesOfPath`, `PagesCatchUp` |
| `client_refused`, `session_migrates`, `work_dir_error` | as above or smaller | – | one disagreement each, section 7 |

Each passing run also checks the `TypeOK` of its module (in `room_takeover` it is
implied by the theorem). Each property of a passing run has a mutant in `PROJECT.json`: a plausible bug under
which TLC finds the property violated.

### Bounds, and why they are enough

* `Room`: a challenge involves an incumbent, a challenger and one more bridge that comes while it is in flight: three bridges.
  Bridges are interchangeable (symmetry); `room_takeover` checks liveness and so uses none. The web's part needs one web, since webs do not interact. Connections are not reused; `Serial` is large enough that a fresh nonce is always there. `MaxBacklog` = 1 unanswered ping of a *live*
  peer; a silent peer collects as many as the heartbeat sends. `room_takeover` uses two misses instead
  of three to stay small, which changes no interleaving.
* `BridgeClient`: the current socket and two that were given up; `MaxAttempt` = 3 covers the first, a middle and a capped delay;
  two frames in flight let one be read before and one after a loss.
* `PiProcess`: the current process and one of the past; a process object is reused after its last event,
  so any number of restarts happens. One write and one read are enough for order between a command that defers and
  one that does not; each is sent once. With two dialogs of one process, one can be left behind when the answer to the other could not be written; one has a timeout.
* `SessionLayer`: two managers are a session and its sibling, or a session and its successor after a crash; two
  sessions are the old one on disk and the new one, or two new ones. A manager is one object and not reused. In `session_routing` a directory holds at most one old session.
* `Subagent`: three tasks with two at a time are what it takes for a slot to wait, a sibling to be parked and a third to finish; a chain of two has a step before and a step after.
  `MaxStarts` = 1: one call, of either kind; `MaxSuspensions` = 2 of the parallel call (two slots parked, or one twice) and 3 of the chain; `MaxResumes` = 2; `MaxMishaps` = 1: one failure, abort or second resume, anywhere.
* `WebConnection`: the current socket and two of the past, a socket being used again after its close event; `MaxPending` = 2 pings are what an interval of 20 s and a timeout of 30 s allow;
  `FailLimit` = 2 (3 in the code) tells the first failure from the last; `MaxFaults` = 2 and `MaxUser` = 2.
* `WebSessions`: `MaxUpsets` = 2 navigations, lost connections and retries give a ceremony, one that replaces it and a return to the first session; `MaxPrompts` = 2: one for each session or two for the new one; `MaxWire` = 2 frames on their way.
* `WorkDirs`: two directories, `ConfigDir` one of them; `MaxAsks` = 2 things the user does (tab opened or left, addition, removal, directory looked into), `MaxFaults` = 1 crash, lost connection or directory gone. The second page is only looked at: it learns of changes it did not ask for.

`CHECK_DEADLOCK FALSE` is set where connections or managers are used up, a bound is reached, or the system rests until somebody does something: a stopped manager, a page without token, a parent pi that has exited,
a page that has all it asked for. In `client_loop` the loop never stops for good (start follows stop), and deadlock is checked.

### Fairness

* `Room` (`FairSpec`): weak fairness on the handshake timers, the challenge timer and the heartbeat tick: timers
  fire. Nothing is assumed of peers: they may never speak, and a close event may never be dispatched.
* `BridgeClient`: timers fire (the idle deadline only for a peer that is silent, since frames re-arm it); a connection attempt ends one way or the other, and attempts
  do not fail for ever (strong fairness on `OpenEvent`); a socket on which `close()` was called gets its close event. The strong fairness is an assumption
  on the network, without which `ComesBack` cannot hold.
* `PiProcess`: timers fire (the watchdog per process, since each restart sets it back) and a process that got SIGKILL exits. pi may never answer and may ignore SIGTERM.
* `SessionLayer`: none; only safety is checked.
* `Subagent`: weak fairness on `Runs`, what happens by itself: Node's event loop and timers, and a sub-pi that either ends or falls silent so that the watchdog fires. Nothing is assumed of resumes, kills or of what holds a dead process's stdout.
* `WebConnection`: a page that loads is mounted, a socket opens or closes, a close event comes, armed timers fire, a pong that is on its way arrives. Nothing is assumed of the user, the other tab or the faults, which are bounded.
* `WebSessions`: the page handles what arrives, its effects run, its timers fire. The bridge may never answer.
* `WorkDirs`: the operator starts the bridge again, pages connect again and read what arrives, the bridge takes its requests and its saves go on.

## 5. What is proved

For every value of the constants that satisfies their assumptions
(named in the module that declares them: that names differ, that timings and limits are those of some configuration, and that bounds are natural numbers;
sizes of the sets and values of the bounds are free):

* `RoomProofs`. `TypeCorrect`; `RoomInvariant`, from which follow `OneOpenBridge` (`SlotIsOpenBridge`), `OwnerIsServed` (`RelayToOwner`), `ChallengesAreHandled` (`ChallengeHandled`),
  `WebsKnowTheTruth` (`StatusTold`); `SilenceEnds` (`SilenceBounded`), `ChallengesAreDecided` (`ChallengeDecided`), `ImplementsSlot` (Room refines BridgeSlot) and `ChallengeBetweenOwners` (the slot passes only between the two bridges of a challenge). None of the properties is inductive alone: that the slot holds the only open bridge
  depends on which connection a challenge will promote, and that on the nonces that can end it. `RoomInv` adds `SlotInStep`, `EntriesInStep` and `ChallengeInStep`, which
  relate slot, map and challenge. The proof has a lemma per handler; handlers that touch neither slot nor challenge are treated together (`QuietKeeps`).
  The refinement maps each step to one step of BridgeSlot or to a stutter (`SlotStep`). For `SilenceBounded` the silence of a web is counted out: `TicksPerMiss` for each
  miss plus the age of the ping that waits, which never exceeds the timeout.
* `BridgeClientProofs`. `ClientInvariant`, `TypeCorrect`, `LoopStaysAwake` (`OneWayBack`), `NeverTwoConnections` (`OneConnection`), `DelayFollowsHealth` (`BackoffFollowsHealth`).
  `ClientInv` adds `AttemptInStep`, what the attempt counter records of the last connections.
* `PiProcessProofs`. `TypesHold` (`TypeOK`), `CommandsKeepOrder` (`CommandsInOrder`), `DialogsGoOnce` (`DialogsOnce`), `IdleSparesWork` (`ManagesOwnPi`), `KilledIsNotRestarted` (`KilledStaysDown`). The invariant adds `QueueInStep`
  (commands wait only for a handshake or a spawn, so a pi that may be written to has an empty queue) and `KillsInStep` (the flag of a kill is up whenever the SIGKILL timer is armed or the current process has been signalled).
  For the order of commands, `Ordered` says that what was written, followed by what waits, is part of what arrived, in the order of arrival; every step writes, queues or loses one that arrives, drops the queue, or writes a part of it (`TrafficStep`).
* `SessionLayerProofs`. `TypeCorrect` and `NewSessionsAreNew` (`SessionIsNew`), for any number of managers, work dirs and sessions and any
  listing of the directories at start. `SessionIsNew` needs `MadeInStep`: a manager not made yet is nowhere in the map, and one of a new session has its snapshot.
  `SessionIsNew` holds although managers move again and again (section 7): however a manager moves, it moves to a file that is newer than itself.
  `CommandsReachTheirPi` (`RoutedRight`) rests on `RouteInStep`, of each manager that has not moved without its pending key: it has one key; under its pending key it has a pi, and, unless it is `crowded`, no file but its own has
  appeared since its snapshot; one made for a stem has that stem's file. Other managers may do what they like meanwhile: a step of one leaves the key, the pi and the file of another alone, or makes it `crowded`
  (`LeftAlone`). That a crowded manager may be bound to a sibling's stem is not excluded but excepted by name (section 7); that it leaves the map when its pi exits is proved of it too.
* `SubagentProofs`. `FrozenIsReachable` (`FrozenReachable`): a process is frozen only together with the registration of its suspension, a suspension leaves the registry only with its process thawed or dead, and
  a parent that exits kills every registered process. `KilledStaysKilled` (`KillIsFinal`) needs `TasksInStep`: a task, and a chain, is suspended at most once at a time and has
  answered then, at most one resume is attached to it, of a suspension that is registered or was killed, and a chain with a killed step is done. `TypesHold` (`TypeOK`) needs `TypeInv`, with what each list of results holds.
  `NothingOutOfOrder` (`ResultsInOrder`), for any width and any number of tasks at a time, rests on an invariant of each call that is not tainted (`JobOk`). Of a chain (`ChainOk`): a step has started only after every
  step before it has settled, passed and left the registry. Of a parallel call (`SlotsOk`): exactly the slots that say so are suspended, and what each of them keeps (`completed`) lists the results of all the slots that are not, each at its rank among
  them; the answer has every slot at its own place. Both walks of the code, the one that merges a resumed slot back and the one that patches its siblings, take a place in such a list to a place in another;
  that this is right is a fact about ranks (taking a slot out of the set moves those behind it by one), which the proof gets from cardinalities of intervals instead of an induction over the list. A step that leaves a call's tasks alone keeps its invariant (`Untouched`).
* `WebConnectionProofs`. `ConnectionInvariant`, `TypeCorrect`, `NeverTwoConnections` (`OneConnection`), `StaysAwake` (`NeverAsleep`). The three hold each other up: a connection is made only when there is none, the
  timer is armed only then, and at most the current socket is connecting or open.
* `WebSessionsProofs`. `ReadyIsAnswered` (`ReadyAnswered`). A reply is counted only for the number of the ceremony that waits for it, a new ceremony starts from nothing, and the gate of `session=new`, the only one that changes
  its key, never runs a ceremony. `BucketsAreKept` (`BucketsKept`): `PhaseTruthful` is not inductive, because it says nothing while a frame is on its way. `TruthInv` adds that of the frames on their way that say something of a
  session's phase the last is right (`Believed`), and that nothing is said, asked or shown of the new session under its stem before that stem is announced (`Unborn`): otherwise the move of the early messages could find a bucket that is older than they are.
  A frame that the outage of the bridge swallows makes its session `missed`, until a frame arrives that is not older than the outage (`Outdated`, `Severed`). Its second half is a lemma on `migratePendingBucket`: it leaves the texts of a bucket that has
  a state alone, and those of `session=new` stay or move whole, to the session of the broadcast. Whose texts they are by right is not claimed there: that is `OwnStem`, which is false (section 7). `TypesHold` (`TypeOK`) bounds the numbers of ceremonies: `CountInv` says that each is
  paid for by a navigation or a retry, a session that is about to start by itself included, since a session starts once each time it is opened.
* `WorkDirsProofs`. `SavesInvariant`, `AnswersAreDurable` (`AckedDurable`). `SaveInStep` says what a save under way may still do: the list in memory differs from the one on disk only in the directory of the request
  being saved, and that one is not among the answered changes once the file has been renamed. `TypesHold` (`TypeOK`): no list ever holds a directory twice, on disk, in memory or in a page.
  `BrowserShowsItsDirectory` (`EntriesOfPath`) needs `QueriesAnswered`: no query has a number higher than the last given, so a new one is unlike all that are on their way, and a request or an answer with the number a browser
  waits for is about the directory it is in.

With these every invariant, and every action property, that a passing run checks is a theorem. What was added to make one inductive was
first checked by TLC on the instance of its run.

## 6. What is only model-checked, or not modelled

* Liveness (`EveryoneSettled`, `ComesBack`, `SpawnEnds`, `CallsSettle`, `EndsUpOnline`, `NotStuckLoading`, `PagesCatchUp`) is beyond the
  prover and checked by TLC only.
* What would take an induction over data is stated so that it takes none: a flush chooses what it writes by position, and filtered lists of results are defined by ranks. What
  `Cardinality` and `Seq` are is taken from the theorems of the library.
* Of the subagent tool a prompt file that cannot be written is modelled in a chain, where it ends the call as any failed start does. In a parallel call it rejects the call while the other workers go on, and the ids of tasks that get suspended then reach
  nobody (`index.ts:878`, `index.ts:499`): that is not modelled. Neither is a parent that is killed by a signal other than SIGINT and SIGTERM (section 7). The rendering, the post-mortem transcript, the discovery of agents and the walk over the process tree are left out: a process and its group are one.
* Of the web page the list of sessions, the queue and `blocked_on` of a bucket, tool segments, caps and rendering are left out. The user interface renders what the connection and the buckets keep.
* The Worker entry, configuration, most file system queries and the schemas keep no state.
* In `PiProcess` the table of outstanding commands is kept only for the handshake; the framing of lines is left out.

## 7. Disagreements between the code and what it says

Three have a run in which TLC shows the behaviour:

* `client_refused`: the room sends an `error` frame before it closes with 1008; the client takes that frame for the confirmation of its handshake and starts its
  backoff over, which the comment on `handshakeConfirmed` rules out.
* `session_migrates`: the frame hook passes the key the manager was made for, so that migration is repeated on every event. After a second new session in the
  same work dir has its file, the next event of the first takes the second's place in the map. The comment calls the migration idempotent.
* `work_dir_error`: an error of the file system while a change is saved (no space, no permission) is neither caught nor answered but ends the bridge and with it every session; the documents
  promise a rollback and an answer with `internal`. The rollback of the list in memory is there, but nobody lives to see it.

The following are stated as definitions beside the properties and are not part of a run; put in place of the INVARIANTs and PROPERTYs of the cfg, TLC refutes each in seconds:

* `ParkedUntilDecided` (`Room`): a challenger that sends any frame while it is parked is refused and its socket closed, although the challenge goes on; when the
  budget ends the closed socket is put into the slot (`room.ts:317`). The comment at `room.ts:384` says that a parked challenger is promoted or terminated when the probe resolves.
* `LateExitIgnored` (`PiProcess`): the exit event of a process that was let go is taken for the exit of its successor, which then runs unmanaged (`pi-process.ts:863`).
* `QueuedForHandshake` (`PiProcess`): when the handshake of a spawn cannot be written, the command that caused the spawn is queued behind the failure and is written after the next spawn (`pi-process.ts:1754`).
* `OwnDialogs` (`PiProcess`): when an answer to a dialog cannot be written the session is `exited` but keeps its process and its other dialogs, and the next command spawns a process without clearing them: they are shown as dialogs
  of the new one (`pi-process.ts:798`), where the comment at `pi-process.ts:1372` wants no ghost dialogs after a restart.
* `StopReachesAll` (`SessionLayer`): a crash is broadcast as `exited`, so the layer forgets a manager that is about to restart pi; `stop()` does not reach it (`session-layer.ts:481`). A test is named for the
  opposite. (The pi loses its pipes when the bridge exits; the model shows that nobody tells it to stop.)
* `SiblingsExcluded` (`SessionLayer`): a manager that waits for the file of its new session takes the newest file that was not there before, so one that another pi of the directory creates meanwhile (a legacy session, or a session that lost its
  pending key in a crash) binds it to that one's stem (`session-layer.ts:535`). The comment at `session-layer.ts:536` and `pi-process.ts:608` say that concurrent siblings are excluded. `RoutedRight` excepts the managers to which that may happen (`crowded`).
* `OwnSlots` (`Subagent`): when a suspended process has died, resume drops its suspension without telling its parallel siblings; the one resumed later no longer counts the slot as waiting and gives it to the next
  finished task, so that results are reported under the wrong task (`index.ts:2582`; `suspensions.ts:99` says that resuming one should not stomp on the others' slots).
* `OwnHistory` (`WebSessions`): events and snapshots name no session and go to the bucket of the session the user looks at when they arrive: what the previous session still streams becomes part of the next one's history (`WsClient.ts:1230`).
* `OwnRefill` (`WebSessions`): the watcher takes the first `session_state` with a real stem of the work dir for the new session's, so a phase change of any other session of that directory puts that one's stem into the URL and
  gives it an open gate (`stem-refilled.ts:241`).
* `OwnStem` (`WebSessions`): the same mix-up makes the early messages and the draft of the new session those of the other one, if that had no state in the page yet (`WsClient.ts:2082`). The comment on `migratePendingBucket` (`WsClient.ts:2037`) wants
  them not to be hijacked by another session, and guards against other directories and against a user who has left, not against this. `BucketsKept` only says that the texts are moved whole or stay.
* `PageSurvives` (`WebConnection`): a token that appears or disappears in another tab takes the page down at its next navigation, because `App` returns at `App.tsx:440`, before the hooks at 479 to 509, when it has none. The comment at `App.tsx:432` has it
  that a `hashchange` does not read the token again; the listener at `App.tsx:363` does. `EndsUpOnline` excepts that page.
* `ListsCatchUp` (`WorkDirs`): nobody announces a change, so the page that made it asks for the list on behalf of all. One whose addition took it away from the tab and which then loses its connection does not ask again, and
  another page goes on showing the old list; so does every page whose question found no bridge. The comment at `App.tsx:126` counts on its four occasions to ask.

Met while modelling, without a definition:

* Room and bridge: the silence after which the heartbeat drops a peer is `MaxMissed * (PongTimeout \div PingInterval + 1)` ticks, 120 s with the constants of the
  code, where the documents speak of about 90 s (`SilenceBounded` states the former); `stop()` of a manager promises no further frames, but the exit event of its process still broadcasts;
  an idle timer that was armed before a crash is not cleared by it; a late answer to the handshake makes a session without a process `ready`; `abort` is not queued behind commands
  that wait for the handshake; commands written between SIGTERM and the exit are lost; a pi that crashes at once is restarted at once, for ever (`pi-process.ts:1405`).
* Subagent: a process left behind that holds a dead sub-pi's stdout keeps its call from answering; a chain goes on after a step that was suspended, resumed and failed;
  the reaper runs when the parent exits and on SIGINT and SIGTERM (`index.ts:3750`), so a parent killed by SIGKILL, or by another signal without a handler, leaves its frozen sub-pis frozen (`FrozenReachable` speaks of the former).
* Web sessions: the deferral of a refilled stem is always cancelled by the hash change it causes itself (`stem-refilled.ts:282`, `App.tsx:417`); a phase change of any session re-arms the snapshot timer of every ceremony (`recovery.ts:286`); a bridge
  that is offline when a ceremony starts is noticed only when the ceremony is next looked at (`recovery.ts:298`); a dialog whose answer was dropped offline stays `submitting` (`DialogHost.tsx:139`); a reconnect in the same session starts no ceremony (`App.tsx:881`).
* Work dirs: the list is asked for when a page connects to the room with the tab open and not when the bridge comes back (`Sidebar.tsx:557`); a change that timed out and landed all the same leaves the page's list stale, and one whose browser was closed still navigates (`DirectoryBrowser.tsx:277`);
  a saved directory that has disappeared keeps the bridge from starting (`state.ts:343`); `currentWorkDir === path` in `handleRemove` is never true.

## 8. Running it

`tlc -workers 2 -config MCRoom.cfg MCRoom.tla`, and likewise for the other configurations; `tlapm RoomProofs.tla` and likewise for the other
`*Proofs` modules. The slowest run takes about three minutes, the proofs a few minutes.
