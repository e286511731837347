----------------------------- MODULE SessionLayer -----------------------------
(***************************************************************************)
(* The routing of the bridge (packages/bridge/src/session-layer.ts): which *)
(* manager, and so which pi process, a command of a session reaches.       *)
(*                                                                         *)
(* A session is a file that pi writes in the session directory of its work *)
(* dir; its stem is the key of the session.  A new session has no stem     *)
(* until pi creates the file: its manager waits under a pending key and    *)
(* migrates to the stem when a frame of it finds a file that was not there *)
(* before it was spawned.                                                  *)
(*                                                                         *)
(* Of a manager (PiProcess) only what the layer sees is kept: whether it   *)
(* has exited, whether a pi process of it runs, and the frames it sends.   *)
(* Commands that change nothing here and replies to them are left out, and *)
(* so is the late answer to a handshake that makes a manager live without  *)
(* a pi (PiProcess, StateReply).                                           *)
(***************************************************************************)
EXTENDS FiniteSets, Sequences, SequencesExt

CONSTANTS
    Managers,   \* PiProcessManager objects that can be made
    WorkDirs,   \* work dirs, with session directories that do not collide
    Stems,      \* names of session files
    LegacyKey,  \* M3_LEGACY_KEY
    DefaultDir, \* defaultWorkDir
    Listings,   \* what the session directories may hold when the bridge starts
    None        \* stands for null and undefined

PendingKey(d) == <<"new", d>>
PendingKeys == {PendingKey(d) : d \in WorkDirs}
Keys == Stems \union PendingKeys \union {LegacyKey}

(* The three kinds of keys differ, and None is nothing else.                *)
ASSUME NamesAssumption ==
    /\ None \notin Managers \union WorkDirs \union Keys
    /\ \A S \in SUBSET Stems : S # None
    /\ PendingKeys \intersect Stems = {}
    /\ LegacyKey \notin Stems \union PendingKeys
    /\ DefaultDir \in WorkDirs \union {None}
    /\ Listings \subseteq [WorkDirs -> Seq(Stems)]

VARIABLES
    managers,   \* the map from keys to managers
    known,      \* managers with an entry in managerKeys
    mapKey,     \* of a manager: the key it was made for
    holder,     \* of a manager: the key its session_state frames carry
    dir,        \* of a manager: its work dir
    snapshot,   \* of a manager: the session files before its first spawn, or None
    phase,      \* of a manager: "exited" or "live"
    pi,         \* of a manager: "none", "running", "lost" (let go, not killed), "gone"
                \* (exited; what it wrote may still be read)
    file,       \* of a manager: the session file its last pi writes
    files,      \* of a work dir: its session files in the order of their names
    workDirs,   \* the list of work dirs
    stopped,    \* stop() was called
    told,       \* history: managers that stop() has stopped
    again,      \* history: managers that moved without having their pending key (any more)
    crowded     \* history: managers that waited under their pending key when another pi
                \* created a session file in their work dir

table == <<managers, known, holder>>
objects == <<mapKey, dir>>
processes == <<snapshot, phase, pi, file>>
history == <<again, crowded>>
vars == <<table, objects, processes, files, workDirs, stopped, told, history>>

KeysOf(m) == {k \in Keys : managers[k] = m}
Mapped == {managers[k] : k \in Keys} \ {None}
Made(m) == mapKey[m] # None
Used == UNION {Range(files[d]) : d \in WorkDirs}

Init ==
    /\ managers = [k \in Keys |-> None]
    /\ known = {}
    /\ mapKey = [m \in Managers |-> None]
    /\ holder = [m \in Managers |-> None]
    /\ dir = [m \in Managers |-> None]
    /\ snapshot = [m \in Managers |-> None]
    /\ phase = [m \in Managers |-> "exited"]
    /\ pi = [m \in Managers |-> "none"]
    /\ file = [m \in Managers |-> None]
    /\ files \in Listings
    /\ workDirs = WorkDirs
    /\ stopped = FALSE
    /\ told = {}
    /\ again = {} /\ crowded = {}

-----------------------------------------------------------------------------
(* Migration                                                                *)

(* Mutant: a session that existed before is not excluded.                   *)
CandidatesAll(m) == Range(files[dir[m]])

(* deriveStemForWorkDir(): the session files that were not there before the *)
(* manager was first spawned.                                               *)
Candidates(m) == Range(files[dir[m]]) \ snapshot[m]

(* The candidate whose name has the latest time.                            *)
IsNewest(m, s) ==
    LET f == files[dir[m]]
    IN \E i \in DOMAIN f :
        /\ f[i] = s /\ s \in Candidates(m)
        /\ \A j \in DOMAIN f : f[j] \in Candidates(m) => j <= i

(* attemptPendingMigration() from the pending key k: the manager moves to   *)
(* the newest candidate, whatever is under that stem or under k.            *)
Migrate(m, k) ==
    \/ /\ Candidates(m) = {}
       /\ UNCHANGED <<managers, holder, again>>
    \/ \E stem \in Stems :
        /\ IsNewest(m, stem)
        /\ managers' = [managers EXCEPT ![k] = None, ![stem] = m]
        /\ holder' = IF m \in known THEN [holder EXCEPT ![m] = stem] ELSE holder
        /\ again' = IF managers[k] # m /\ managers' # managers THEN again \union {m} ELSE again

(* onManagerSessionState() of a phase that is not `exited'.                 *)
OnSessionState(m) ==
    IF KeysOf(m) \intersect PendingKeys = {} THEN UNCHANGED <<managers, holder, again>>
    ELSE \E k \in KeysOf(m) \intersect PendingKeys : Migrate(m, k)

(* Any other frame: tryPendingMigration() with the key the manager was made *)
(* for, whatever its key is now.                                            *)
OnOtherFrame(m) ==
    IF mapKey[m] \in PendingKeys THEN Migrate(m, mapKey[m])
    ELSE UNCHANGED <<managers, holder, again>>

(* onManagerSessionState() of `exited': a key of the manager goes.  (The    *)
(* map is read in the order of insertion, which is not kept here: of two    *)
(* keys either may go.)                                                     *)
OnExited(m) ==
    /\ known' = known \ {m}
    /\ IF KeysOf(m) = {} THEN UNCHANGED managers
       ELSE \E k \in KeysOf(m) : managers' = [managers EXCEPT ![k] = None]
    /\ UNCHANGED holder

-----------------------------------------------------------------------------
(* Routing                                                                  *)

(* spawnManager(): a new manager under the key k.                           *)
Make(m, k, d) ==
    /\ ~Made(m)
    /\ managers' = [managers EXCEPT ![k] = m]
    /\ known' = known \union {m}
    /\ mapKey' = [mapKey EXCEPT ![m] = k]
    /\ holder' = [holder EXCEPT ![m] = k]
    /\ dir' = [dir EXCEPT ![m] = d]

(* Mutant: the latest session is resumed, whichever was asked for.          *)
PinnedLatest(k, d) ==
    IF k \in PendingKeys \/ files[d] = <<>> THEN None ELSE Last(files[d])

(* The session file of a pi that is spawned for the key k in d: the pinned  *)
(* one, none yet, or the latest.                                            *)
Pinned(k, d) ==
    IF k \in Stems THEN k
    ELSE IF k = LegacyKey /\ files[d] # <<>> THEN Last(files[d])
    ELSE None

(* Mutant: the phase is left as it was.                                     *)
SpawnQuietly(m, k, d) ==
    /\ snapshot' = [snapshot EXCEPT ![m] = IF @ = None THEN Range(files[d]) ELSE @]
    /\ pi' = [pi EXCEPT ![m] = "running"]
    /\ file' = [file EXCEPT ![m] = Pinned(k, d)]
    /\ UNCHANGED phase

(* spawnNow() of the manager m, made for k in d.  Its `spawning' broadcast  *)
(* finds no file: the snapshot of a pending manager has just been taken.    *)
Spawn(m, k, d) ==
    /\ snapshot' = [snapshot EXCEPT ![m] = IF @ = None THEN Range(files[d]) ELSE @]
    /\ phase' = [phase EXCEPT ![m] = "live"]
    /\ pi' = [pi EXCEPT ![m] = "running"]
    /\ file' = [file EXCEPT ![m] = Pinned(k, d)]

(* getOrCreateManagerForSession(): the work dir in which a manager is made  *)
(* for the key k: a stem is looked for in the work dirs, a pending key has  *)
(* it, a command without a session has the default when there is no manager *)
(* at all.                                                                  *)
Home(k, d) ==
    \/ k \in Stems /\ managers[k] = None /\ d \in workDirs /\ k \in Range(files[d])
    \/ k = PendingKey(d) /\ managers[k] = None
    \/ k = LegacyKey /\ Mapped = {} /\ d = DefaultDir

(* A command that spawns pi, to a session without a manager.                *)
CommandMakes(k) ==
    /\ ~stopped
    /\ \E m \in Managers, d \in WorkDirs :
        /\ Home(k, d)
        /\ Make(m, k, d)
        /\ Spawn(m, k, d)
    /\ UNCHANGED <<files, workDirs, stopped, told, history>>

(* One that does not spawn pi (abort, extension_ui_response, get_state):    *)
(* the manager is made all the same.  (None of these carries a work dir.)   *)
QueryMakes(k) ==
    /\ ~stopped /\ k \notin PendingKeys
    /\ \E m \in Managers, d \in WorkDirs : Home(k, d) /\ Make(m, k, d)
    /\ UNCHANGED <<processes, files, workDirs, stopped, told, history>>

(* A command to a manager that has exited, or never spawned pi.             *)
CommandWakes(m) ==
    /\ ~stopped /\ m \in Mapped /\ phase[m] = "exited"
    /\ Spawn(m, mapKey[m], dir[m])
    /\ UNCHANGED <<table, objects, files, workDirs, stopped, told, history>>

-----------------------------------------------------------------------------
(* What managers and their pis do                                           *)

(* A pi without a session file creates one.  Its name has the time at which *)
(* the session began, which may be before that of a file that is there.     *)
CreateFile(m) ==
    /\ pi[m] \in {"running", "lost"} /\ file[m] = None
    /\ \E s \in Stems \ Used, i \in 1..(Len(files[dir[m]]) + 1) :
        /\ file' = [file EXCEPT ![m] = s]
        /\ files' = [files EXCEPT ![dir[m]] = InsertAt(@, i, s)]
    /\ crowded' = crowded \union ({managers[PendingKey(dir[m])]} \ {m, None})
    /\ UNCHANGED <<table, objects, snapshot, phase, pi, workDirs, stopped, told, again>>

(* The manager broadcasts its phase or its dialogs.                         *)
StateFrame(m) ==
    /\ phase[m] = "live"
    /\ OnSessionState(m)
    /\ UNCHANGED <<known, objects, processes, files, workDirs, stopped, told, crowded>>

(* The manager forwards an event or a reply of its pi, a lost one included  *)
(* and one whose output is read after its exit event, or answers a command  *)
(* itself.                                                                  *)
OtherFrame(m) ==
    /\ pi[m] # "none" \/ m \in Mapped
    /\ OnOtherFrame(m)
    /\ UNCHANGED <<known, objects, processes, files, workDirs, stopped, told, crowded>>

(* pi exits and is not restarted.                                           *)
Exit(m) ==
    /\ phase[m] = "live"
    /\ phase' = [phase EXCEPT ![m] = "exited"]
    /\ pi' = [pi EXCEPT ![m] = "gone"]
    /\ OnExited(m)
    /\ UNCHANGED <<objects, snapshot, file, files, workDirs, stopped, told, history>>

(* pi crashes: `exited' is broadcast, then pi is spawned again with what it *)
(* was pinned to when the manager was made.                                 *)
Crash(m) ==
    /\ phase[m] = "live" /\ m \notin told
    /\ OnExited(m)
    /\ Spawn(m, mapKey[m], dir[m])
    /\ UNCHANGED <<objects, files, workDirs, stopped, told, history>>

(* The manager gives its pi up, which runs on.                              *)
LetGo(m) ==
    /\ phase[m] = "live"
    /\ phase' = [phase EXCEPT ![m] = "exited"]
    /\ pi' = [pi EXCEPT ![m] = "lost"]
    /\ OnExited(m)
    /\ UNCHANGED <<objects, snapshot, file, files, workDirs, stopped, told, history>>

(* A lost pi exits; nothing is broadcast.                                   *)
LostExit(m) ==
    /\ pi[m] = "lost"
    /\ pi' = [pi EXCEPT ![m] = "gone"]
    /\ UNCHANGED <<table, objects, snapshot, phase, file, files, workDirs, stopped, told, history>>

-----------------------------------------------------------------------------
(* work_dir_add, work_dir_remove: no manager is touched.                    *)
WorkDirAdd(d) ==
    /\ ~stopped
    /\ workDirs' = workDirs \union {d}
    /\ UNCHANGED <<table, objects, processes, files, stopped, told, history>>

WorkDirRemove(d) ==
    /\ ~stopped
    /\ workDirs' = workDirs \ {d}
    /\ UNCHANGED <<table, objects, processes, files, stopped, told, history>>

(* stop(): the managers of the map are stopped.                             *)
Stop ==
    /\ ~stopped
    /\ stopped' = TRUE
    /\ told' = Mapped
    /\ managers' = [k \in Keys |-> None]
    /\ known' = {}
    /\ UNCHANGED <<holder, objects, processes, files, workDirs, history>>

Next ==
    \/ \E k \in Keys : CommandMakes(k) \/ QueryMakes(k)
    \/ \E m \in Managers :
        \/ CommandWakes(m) \/ CreateFile(m) \/ StateFrame(m) \/ OtherFrame(m)
        \/ Exit(m) \/ Crash(m) \/ LetGo(m) \/ LostExit(m)
    \/ \E d \in WorkDirs : WorkDirAdd(d) \/ WorkDirRemove(d)
    \/ Stop

Spec == Init /\ [][Next]_vars

-----------------------------------------------------------------------------
(* Properties                                                               *)

(* Every variable has its type; a manager is live exactly when it has a pi  *)
(* that it has not let go, and only one that was made is known.             *)
TypeOK ==
    /\ managers \in [Keys -> Managers \union {None}]
    /\ known \subseteq {m \in Managers : Made(m)}
    /\ mapKey \in [Managers -> Keys \union {None}]
    /\ holder \in [Managers -> Keys \union {None}]
    /\ dir \in [Managers -> WorkDirs \union {None}]
    /\ snapshot \in [Managers -> {None} \union SUBSET Stems]
    /\ phase \in [Managers -> {"exited", "live"}]
    /\ pi \in [Managers -> {"none", "running", "lost", "gone"}]
    /\ file \in [Managers -> Stems \union {None}]
    /\ files \in [WorkDirs -> Seq(Stems)]
    /\ workDirs \subseteq WorkDirs
    /\ stopped \in BOOLEAN
    /\ told \subseteq Managers /\ again \subseteq Managers /\ crowded \subseteq Managers
    /\ \A m \in Managers : phase[m] = "live" <=> pi[m] = "running"

(* A stem addresses a manager of the work dir its file is in, and a manager *)
(* made for a new session is never bound to one that was there before it    *)
(* started (deriveStemForWorkDir and its snapshot), however late it moves   *)
(* and however often.                                                       *)
SessionIsNew ==
    \A m \in Managers, s \in Stems :
        managers[s] = m \/ (holder[m] = s /\ mapKey[m] # s) =>
            /\ s \in Range(files[dir[m]])
            /\ mapKey[m] \in PendingKeys => snapshot[m] # None /\ s \notin snapshot[m]

(* A command for a session reaches the pi that writes that session's file,  *)
(* through any number of new sessions, clicks, crashes and exits of its own *)
(* manager and of others, unless another pi created a file in the work dir  *)
(* while the manager waited for its own.  And a manager whose pi has exited *)
(* is gone from the map, whichever key it had by then, so that the next     *)
(* command makes a new one.  Neither is promised of a manager that moved    *)
(* again after it had lost its pending key (MigratesOnce).                  *)
RoutedRight ==
    \A m \in Managers \ again :
        /\ \A s \in Stems :
              managers[s] = m /\ pi[m] = "running" => file[m] = s \/ m \in crowded
        /\ m \in Mapped /\ phase[m] = "exited" => snapshot[m] = None

(* What the comment of tryPendingMigration() says ("Idempotent: once the    *)
(* map key has been swapped ..., subsequent calls become no-ops"): a        *)
(* manager that has a stem keeps it.                                        *)
MigratesOnce ==
    [][\A m \in Managers : holder[m] \in Stems => holder'[m] = holder[m]]_vars

(* What the comment of attemptPendingMigration() says ("This excludes both  *)
(* residual and concurrent sibling sessions"): a manager moves to the file  *)
(* of its own pi.  It moves to that of a sibling that created it meanwhile. *)
SiblingsExcluded ==
    \A m \in Managers \ again, s \in Stems :
        managers[s] = m /\ pi[m] = "running" => file[m] = s

(* What a test of stop() is named for ("stops all managers (no orphan       *)
(* children)"): no pi runs on under a manager that was not stopped.         *)
StopReachesAll ==
    stopped => \A m \in Managers : pi[m] = "running" => m \in told

=============================================================================
