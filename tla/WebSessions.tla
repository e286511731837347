----------------------------- MODULE WebSessions -----------------------------
(***************************************************************************)
(* What the web page keeps about sessions: the buckets of WsClient         *)
(* (packages/web/src/ws/WsClient.ts), the recovery ceremony (recovery.ts), *)
(* the watcher that replaces session=new in the URL by the session's file  *)
(* stem (stem-refilled.ts), and the parts of App.tsx that tie them to the  *)
(* URL.  The bridge behind the connection is the one of SessionLayer, cut  *)
(* down to what it sends.                                                  *)
(*                                                                         *)
(* Only session_state frames and the replies to get_state say which        *)
(* session they are about.  The session that events and snapshots come     *)
(* from is kept in the model's frames as a history variable; the client    *)
(* never looks at it.                                                      *)
(*                                                                         *)
(* A bucket's draft stands for the session whose message it is a draft of, *)
(* its messages for the set of sessions they are from: texts, segments,    *)
(* order and caps are left out.                                            *)
(***************************************************************************)
EXTENDS Naturals, Sequences, FiniteSets

CONSTANTS
    Old,        \* sessions that exist when the page is opened
    Fresh,      \* the session that the user's prompt to session=new creates
    DirOf,      \* the work dir of a session
    New,        \* SESSION_NEW
    Legacy,     \* M3_LEGACY_KEY
    None,       \* stands for null
    MaxPrompts, \* bound: prompts, of this page and others
    MaxUpsets,  \* bound: navigations, connections lost, retries
    MaxWire     \* bound: frames on their way to the page

Stems == Old \union {Fresh}
Keys == Stems \union {New, Legacy}

ASSUME KeysAssumption ==
    /\ Fresh \notin Old
    /\ {New, Legacy, None} \intersect Stems = {}
    /\ Cardinality({New, Legacy, None}) = 3

ASSUME BoundsAssumption == {MaxPrompts, MaxUpsets, MaxWire} \subseteq Nat

VARIABLES
    \* the bridge
    phase,      \* the phase of a session
    pending,    \* Fresh is still known as new:<work dir>
    history,    \* sessions whose file holds a message
    talking,    \* the session streams the message of its next turn
    due,        \* sessions that have a prompt waiting
    asked,      \* requests at the bridge
    bridgeUp,   \* the bridge is connected
    \* the connection
    online,     \* connState is "online"
    wire,       \* frames on their way to the page
    \* the page
    hash,       \* the session in the URL
    route,      \* auth.session of App
    key,        \* currentSessionKey of the client
    bucket,     \* _sessions
    status,     \* bridgeStatus: None until the first one
    watch,      \* the stem watcher: off, or whether it refilled and deferred
    gate,       \* the gates of App's map
    auto,       \* autoStartConsumedRef
    \* history and bounds
    answers,    \* replies to the latest ceremony of a gate
    missed,     \* sessions of which a phase may have been lost
    upsets,
    prompts

bridge == <<phase, pending, history, talking, due, asked, bridgeUp>>
page == <<hash, route, key, bucket, status, watch, gate, auto>>
bounds == <<upsets, prompts>>
vars == <<bridge, online, wire, page, answers, missed, bounds>>

Phases == {"exited", "spawning", "idle", "running"}

EmptyBucket == [msgs |-> {}, draft |-> None, phase |-> None, dir |-> None]

(* The two conditions of migratePendingBucket.                              *)
HasState(b) == b.msgs # {} \/ b.draft # None \/ b.phase # None

Off == [on |-> FALSE, refilled |-> FALSE, deferred |-> FALSE]
Watching == [Off EXCEPT !.on = TRUE]

(* createReadyGate, and initiateRecovery before its first ceremony.         *)
Absent == [kind |-> "absent", ready |-> FALSE, error |-> "none", no |-> 0,
           active |-> FALSE, snapshot |-> "pending", state |-> "pending",
           offline |-> FALSE]
ReadyGate == [Absent EXCEPT !.kind = "open", !.ready = TRUE]
ColdGate == [Absent EXCEPT !.kind = "ceremony"]

(* The key a session's frames carry on the wire.                            *)
WireKey(s) == IF s = Fresh /\ pending THEN New ELSE s

StateFrame(s, k, p) == [type |-> "session_state", of |-> s, key |-> k, phase |-> p]
EventFrame(s, what) == [type |-> what, of |-> s]

Delivers(frames) ==
    /\ Len(wire) + Len(frames) <= MaxWire
    /\ wire' = IF online THEN wire \o frames ELSE wire

(* What the bridge sends without a connection is lost.                      *)
Sends(frames) == IF bridgeUp THEN Delivers(frames) ELSE UNCHANGED wire

(* Phases the page does not get to see, until it hears of the session       *)
(* again.  What was sent before the bridge lost its connection, which are   *)
(* the frames in front of the news of that, is not news any more.           *)
Misses(s) == missed' = IF online /\ bridgeUp THEN missed ELSE missed \union {s}
BridgeDown == [type |-> "bridge_status", up |-> FALSE]
Outdated == \E i \in 1 .. Len(wire) : wire[i] = BridgeDown
Hears(sessions) == missed' = IF Outdated THEN missed ELSE missed \ sessions

Init ==
    /\ phase = [s \in Stems |-> "exited"]
    /\ pending = TRUE
    /\ history = Old
    /\ talking = [s \in Stems |-> FALSE]
    /\ due = {}
    /\ asked = {}
    /\ bridgeUp = TRUE
    /\ online = TRUE
    /\ wire = <<[type |-> "bridge_status", up |-> TRUE]>>
    /\ hash = None
    /\ route = None
    /\ key = None
    /\ bucket = [k \in Keys |-> EmptyBucket]
    /\ status = None
    /\ watch = Off
    /\ gate = [k \in Keys |-> Absent]
    /\ auto = None
    /\ answers = {}
    /\ missed = {}
    /\ upsets = 0
    /\ prompts = 0

-----------------------------------------------------------------------------
(* The bridge.                                                              *)

Moves(s, p) ==
    /\ phase' = [phase EXCEPT ![s] = p]
    /\ Sends(<<StateFrame(s, WireKey(s), p)>>)
    /\ Misses(s)

Queries(s) == {r \in asked : r.type = "get_messages" /\ r.of = s}

(* A prompt, or a get_messages for a session without a pi, starts one.      *)
Spawns(s) ==
    /\ phase[s] = "exited"
    /\ s \in due \/ Queries(s) # {}
    /\ Moves(s, "spawning")
    /\ UNCHANGED <<pending, history, talking, due, asked, bridgeUp, online, page,
                   answers, bounds>>

(* The handshake of the spawned pi ends, or it is given up with what was    *)
(* waiting for it: the refusals are command_results, which resolve nothing. *)
SpawnEnds(s) ==
    /\ phase[s] = "spawning"
    /\ \/ Moves(s, "idle") /\ UNCHANGED <<due, asked>>
       \/ /\ Moves(s, "exited")
          /\ due' = due \ {s}
          /\ asked' = asked \ Queries(s)
    /\ UNCHANGED <<pending, history, talking, bridgeUp, online, page, answers, bounds>>

StartsTurn(s) ==
    /\ s \in due
    /\ phase[s] = "idle"
    /\ due' = due \ {s}
    /\ Moves(s, "running")
    /\ UNCHANGED <<pending, history, talking, asked, bridgeUp, online, page, answers,
                   bounds>>

Talks(s) ==
    /\ phase[s] = "running"
    /\ ~talking[s]
    /\ talking' = [talking EXCEPT ![s] = TRUE]
    /\ Sends(<<EventFrame(s, "message_update")>>)
    /\ UNCHANGED <<phase, pending, history, due, asked, bridgeUp, online, page,
                   answers, missed, bounds>>

EndsTurn(s) ==
    /\ phase[s] = "running"
    /\ talking[s]
    /\ talking' = [talking EXCEPT ![s] = FALSE]
    /\ history' = history \union {s}
    /\ phase' = [phase EXCEPT ![s] = "idle"]
    /\ Sends(<<EventFrame(s, "message_end"), StateFrame(s, WireKey(s), "idle")>>)
    /\ Misses(s)
    /\ UNCHANGED <<pending, due, asked, bridgeUp, online, page, answers, bounds>>

(* The file of the new session is found, and its stem announced.            *)
Migrates ==
    /\ pending
    /\ phase[Fresh] \in {"idle", "running"}
    /\ pending' = FALSE
    /\ Sends(<<StateFrame(Fresh, Fresh, phase[Fresh])>>)
    /\ Misses(Fresh)
    /\ UNCHANGED <<phase, history, talking, due, asked, bridgeUp, online, page,
                   answers, bounds>>

(* get_messages is answered by pi, get_state, which comes after it, by the  *)
(* bridge: without data when the session has no pi.                         *)
Answers(r) ==
    /\ asked' = asked \ {r}
    /\ IF r.type = "get_messages"
       THEN /\ phase[r.of] \in {"idle", "running"}
            /\ Sends(<<[type |-> "snapshot", of |-> r.of, no |-> r.no,
                        msgs |-> {r.of} \intersect history]>>)
       ELSE /\ phase[r.of] = "exited" => Queries(r.of) = {}
            /\ Sends(<<[type |-> "result", of |-> r.of, no |-> r.no,
                        ok |-> phase[r.of] # "exited", phase |-> phase[r.of]]>>)
    /\ UNCHANGED <<phase, pending, history, talking, due, bridgeUp, online, page,
                   answers, missed, bounds>>

(* Another page prompts an old session.                                     *)
OtherPrompts(s) ==
    /\ bridgeUp
    /\ s \in Old \ due
    /\ prompts < MaxPrompts
    /\ prompts' = prompts + 1
    /\ due' = due \union {s}
    /\ UNCHANGED <<phase, pending, history, talking, asked, bridgeUp, online, wire,
                   page, answers, missed, upsets>>

-----------------------------------------------------------------------------
(* The connection.                                                          *)

Known == {f.of : f \in {wire[i] : i \in 1 .. Len(wire)}
                    \ {[type |-> "bridge_status", up |-> u] : u \in BOOLEAN}}

(* The page's connection is lost, and with it every frame on its way.  The  *)
(* bridge answers the requests that have reached it all the same, and the   *)
(* resolvers outlive the connection.                                        *)
Breaks ==
    /\ online
    /\ upsets < MaxUpsets
    /\ upsets' = upsets + 1
    /\ online' = FALSE
    /\ missed' = missed \union Known
    /\ wire' = <<>>
    /\ asked' \in SUBSET asked
    /\ UNCHANGED <<phase, pending, history, talking, due, bridgeUp, page, answers,
                   prompts>>

(* The room tells a page that connects how the bridge is.                   *)
Reconnects ==
    /\ ~online
    /\ online' = TRUE
    /\ wire' = <<[type |-> "bridge_status", up |-> bridgeUp]>>
    /\ UNCHANGED <<bridge, page, answers, missed, bounds>>

(* The bridge loses its connection and gets it back.  Its sessions go on,   *)
(* and so do its answers: they are lost until it is back.                   *)
BridgeBreaks ==
    /\ bridgeUp
    /\ upsets < MaxUpsets
    /\ upsets' = upsets + 1
    /\ bridgeUp' = FALSE
    /\ asked' \in SUBSET asked
    /\ Delivers(<<BridgeDown>>)
    /\ UNCHANGED <<phase, pending, history, talking, due, online, page, answers,
                   missed, prompts>>

BridgeReturns ==
    /\ ~bridgeUp
    /\ bridgeUp' = TRUE
    /\ Delivers(<<[type |-> "bridge_status", up |-> TRUE]>>)
    /\ UNCHANGED <<phase, pending, history, talking, due, asked, online, page,
                   answers, missed, bounds>>

-----------------------------------------------------------------------------
(* The recovery ceremony of a gate.                                         *)

\* Mutant: checkComplete forgets cancelActive.
EndedActive(g, ready, error) == [g EXCEPT !.ready = ready, !.error = error]

(* cancelActive and the transition that follows it.                         *)
Ended(g, ready, error) == [ColdGate EXCEPT !.no = g.no, !.ready = ready, !.error = error]

(* checkComplete.  Which of the two queries failed only words the error.    *)
Checked(g) ==
    CASE ~g.active -> g
      [] g.active /\ g.offline -> Ended(g, FALSE, "bridge_offline")
      [] g.active /\ ~g.offline /\ "pending" \in {g.snapshot, g.state} -> g
      [] g.active /\ ~g.offline /\ {g.snapshot, g.state} = {"ok"} -> Ended(g, TRUE, "none")
      [] OTHER -> Ended(g, FALSE, "failed")

(* startCeremony: it sends both queries, and what is sent offline is lost.  *)
(* That the bridge is known to be offline is only noted.                    *)
Starts(k) ==
    LET g == gate[k] IN
    IF g.kind # "ceremony"
    THEN UNCHANGED <<gate, asked, answers>>
    ELSE /\ gate' = [gate EXCEPT ![k] =
                [ColdGate EXCEPT !.no = g.no + 1, !.active = TRUE,
                                 !.offline = (status = FALSE)]]
         /\ answers' = {q \in answers : q[1] # k}
         /\ asked' = IF online /\ bridgeUp
                     THEN asked \union {[type |-> t, of |-> k, no |-> g.no + 1] :
                                            t \in {"get_messages", "get_state"}}
                     ELSE asked

\* Mutant: cancelActive leaves the resolvers of the old ceremony registered.
ResolvedLate(g, no, query, outcome) ==
    IF g.active THEN Checked([g EXCEPT ![query] = outcome]) ELSE g

(* The resolver registered for reply number `no', when it still is.         *)
Resolved(g, no, query, outcome) ==
    IF g.active /\ g.no = no THEN Checked([g EXCEPT ![query] = outcome]) ELSE g

(* One of the two timers of a ceremony.  One that fires after the reply     *)
(* came changes nothing, and a phase that arms the snapshot timer again     *)
(* only moves its deadline: deadlines are left out.                         *)
Timeout(k, query) ==
    /\ gate[k].active
    /\ gate[k][query] = "pending"
    /\ gate' = [gate EXCEPT ![k] = Checked([@ EXCEPT ![query] = "fail"])]
    /\ UNCHANGED <<bridge, online, wire, hash, route, key, bucket, status, watch,
                   auto, answers, missed, bounds>>

-----------------------------------------------------------------------------
(* Frames arrive: handleMessage.  The listeners run before the store.       *)

Current == IF key = None THEN Legacy ELSE key

\* Mutant: migratePendingBucket does not look at the stem's bucket.
MigratedOver(s, k, listed) ==
    LET new == bucket[New] IN
    IF k \notin {New, s} \/ (new.dir # None /\ new.dir # DirOf[s]) \/ ~HasState(new)
    THEN bucket
    ELSE [bucket EXCEPT ![s] = new, ![New] = EmptyBucket]

(* migratePendingBucket for stem s, when the current session is k.  A list  *)
(* of sessions in the stem's bucket counts as state too; nothing else here  *)
(* depends on it, so that it is there is a choice of the step.              *)
Migrated(s, k, listed) ==
    LET new == bucket[New] IN
    IF k \notin {New, s} \/ (new.dir # None /\ new.dir # DirOf[s])
    THEN bucket
    ELSE IF ~HasState(bucket[s]) /\ ~listed
    THEN [bucket EXCEPT ![s] = new, ![New] = EmptyBucket]
    ELSE IF ~HasState(new)
    THEN [bucket EXCEPT ![New] = EmptyBucket]
    ELSE bucket

(* The watcher of stem-refilled.ts, subscribed in the work dir of the new   *)
(* session, replaces the URL and rekeys the gate; the list query it defers  *)
(* is sent at once when the session is idle.                                *)
Refills(f) ==
    /\ watch.on
    /\ ~watch.refilled
    /\ f.key \in Stems
    /\ DirOf[f.key] = DirOf[Fresh]

Quiet(p) == p \in {"idle", "exited"}

(* setBucketSessionPhase and setBucketWorkDir.                              *)
Stored(b, f) == [b EXCEPT ![f.key].phase = f.phase, ![f.key].dir = DirOf[f.of]]

(* A session_state frame.                                                   *)
OnSessionState(f) ==
    LET refills == Refills(f)
        now == IF refills THEN f.key ELSE key IN
    /\ key' = now
    /\ hash' = IF refills THEN f.key ELSE hash
    /\ watch' = IF refills
                THEN [watch EXCEPT !.refilled = TRUE, !.deferred = ~Quiet(f.phase)]
                ELSE [watch EXCEPT !.deferred = @ /\ ~Quiet(f.phase)]
    /\ gate' = IF refills
               THEN [gate EXCEPT ![f.key] = gate[New], ![New] = Absent]
               ELSE gate
    /\ \E listed \in BOOLEAN :
        bucket' = Stored(IF f.key \in Stems THEN Migrated(f.key, now, listed) ELSE bucket, f)
    /\ Hears({f.key} \intersect Stems)
    /\ UNCHANGED <<status, answers>>

OnResult(f) ==
    /\ bucket' = IF f.ok THEN [bucket EXCEPT ![f.of].phase = f.phase] ELSE bucket
    /\ gate' = [gate EXCEPT ![f.of] =
                    Resolved(@, f.no, "state", IF f.ok THEN "ok" ELSE "fail")]
    /\ answers' = IF f.ok /\ f.no = gate[f.of].no
                  THEN answers \union {<<f.of, "state">>} ELSE answers
    /\ IF f.ok THEN Hears({f.of}) ELSE UNCHANGED missed
    /\ UNCHANGED <<key, hash, watch, status>>

(* setBucketMessages, and the draft a snapshot clears.                      *)
Replaced(b, msgs) == [b EXCEPT !.msgs = msgs, !.draft = None]

(* appendStreamingDraft: a delta of another message replaces the draft.     *)
Drafted(b, msg) == [b EXCEPT !.draft = msg]

(* upsertMessage and clearStreamingDraft.                                   *)
Upserted(b, msg) ==
    [b EXCEPT !.msgs = @ \union {msg}, !.draft = IF @ = msg THEN None ELSE @]

(* Neither a snapshot nor an event says whose it is: it goes to the session *)
(* the user is looking at.                                                  *)
OnSnapshot(f) ==
    /\ bucket' = [bucket EXCEPT ![Current] = Replaced(@, f.msgs)]
    /\ gate' = [gate EXCEPT ![f.of] = Resolved(@, f.no, "snapshot", "ok")]
    /\ answers' = IF f.no = gate[f.of].no
                  THEN answers \union {<<f.of, "snapshot">>} ELSE answers
    /\ UNCHANGED <<key, hash, watch, status, missed>>

OnEvent(f) ==
    /\ bucket' = [bucket EXCEPT ![Current] =
            IF f.type = "message_update" THEN Drafted(@, f.of) ELSE Upserted(@, f.of)]
    /\ UNCHANGED <<key, hash, watch, status, gate, answers, missed>>

OnBridgeStatus(f) ==
    /\ status' = f.up
    /\ gate' = IF f.up
               THEN gate
               ELSE [k \in Keys |-> Checked([gate[k] EXCEPT !.offline = @ \/ gate[k].active])]
    /\ UNCHANGED <<key, hash, watch, bucket, answers, missed>>

Receives ==
    /\ wire # <<>>
    /\ wire' = Tail(wire)
    /\ LET f == Head(wire) IN
       \/ f.type = "session_state" /\ OnSessionState(f)
       \/ f.type = "result" /\ OnResult(f)
       \/ f.type = "snapshot" /\ OnSnapshot(f)
       \/ f.type \in {"message_update", "message_end"} /\ OnEvent(f)
       \/ f.type = "bridge_status" /\ OnBridgeStatus(f)
    /\ UNCHANGED <<bridge, online, route, auto, bounds>>

-----------------------------------------------------------------------------
(* The user and App.                                                        *)

(* A click, or the back button, changes the URL; the event comes later.     *)
(* A session is listed once its file exists.                                *)
Clicks(k) ==
    /\ upsets < MaxUpsets
    /\ k = Fresh => ~pending
    /\ upsets' = upsets + 1
    /\ k # hash
    /\ hash' = k
    /\ UNCHANGED <<bridge, online, wire, route, key, bucket, status, watch, gate,
                   auto, answers, missed, prompts>>

(* The hashchange event, the render and the effects that depend on the      *)
(* session: a gate for the session, the watcher while it is `new'.          *)
HashChange ==
    /\ hash # route \/ hash # key
    /\ key' = hash
    /\ route' = hash
    /\ watch' = IF hash = route THEN watch ELSE IF hash = New THEN Watching ELSE Off
    /\ gate' = IF hash # None /\ gate[hash].kind = "absent"
               THEN [gate EXCEPT ![hash] = IF hash = New THEN ReadyGate ELSE ColdGate]
               ELSE gate
    /\ auto' = IF hash = None THEN None ELSE auto
    /\ UNCHANGED <<bridge, online, wire, hash, bucket, status, answers, missed, bounds>>

\* Mutant: the session is marked as started before the page is online.
AutoStartsOffline ==
    /\ route # None
    /\ auto # route
    /\ auto' = route
    /\ IF online /\ status # FALSE THEN Starts(route) ELSE UNCHANGED <<gate, asked, answers>>
    /\ UNCHANGED <<phase, pending, history, talking, due, bridgeUp, online, wire, hash,
                   route, key, bucket, status, watch, missed, bounds>>

(* The effect of RecoveryView.                                              *)
AutoStarts ==
    /\ route # None
    /\ online
    /\ status # FALSE
    /\ auto # route
    /\ auto' = route
    /\ Starts(route)
    /\ UNCHANGED <<phase, pending, history, talking, due, bridgeUp, online, wire, hash,
                   route, key, bucket, status, watch, missed, bounds>>

(* The button of the error card.                                            *)
Retries ==
    /\ route # None
    /\ gate[route].error # "none"
    /\ Starts(route)
    /\ upsets < MaxUpsets
    /\ upsets' = upsets + 1
    /\ UNCHANGED <<phase, pending, history, talking, due, bridgeUp, online, wire, hash,
                   route, key, bucket, status, watch, auto, missed, prompts>>

(* The input bar of a session that is shown and not busy.  session=new goes *)
(* to the pending session of the work dir; a second new session in the same *)
(* dir is left out.                                                         *)
Prompts ==
    /\ route # None
    /\ gate[route].ready
    /\ bucket[route].phase \notin {"running", "spawning"}
    /\ online
    /\ bridgeUp
    /\ LET s == IF route = New THEN Fresh ELSE route IN
       /\ route = New => pending
       /\ s \notin due
       /\ due' = due \union {s}
    /\ prompts < MaxPrompts
    /\ prompts' = prompts + 1
    /\ UNCHANGED <<phase, pending, history, talking, asked, bridgeUp, online, wire,
                   page, answers, missed, upsets>>

(* The 3 s of the deferred list query are over: the list is queried.        *)
DeferredFires ==
    /\ watch.deferred
    /\ watch' = [watch EXCEPT !.deferred = FALSE]
    /\ UNCHANGED <<bridge, online, wire, hash, route, key, bucket, status, gate,
                   auto, answers, missed, bounds>>

-----------------------------------------------------------------------------
BridgeStep ==
    \/ \E s \in Stems :
        Spawns(s) \/ SpawnEnds(s) \/ StartsTurn(s) \/ Talks(s) \/ EndsTurn(s)
    \/ Migrates
    \/ \E r \in asked : Answers(r)
    \/ \E s \in Old : OtherPrompts(s)

Network == Breaks \/ Reconnects \/ BridgeBreaks \/ BridgeReturns

Timeouts == \E k \in Keys, t \in {"snapshot", "state"} : Timeout(k, t)

PageStep ==
    \/ Receives
    \/ HashChange
    \/ AutoStarts
    \/ DeferredFires
    \/ Timeouts

User == Retries \/ Prompts \/ \E k \in Stems \union {New, None} : Clicks(k)

Next == BridgeStep \/ Network \/ PageStep \/ User

(* The page handles what arrives, its effects run and its timers fire.      *)
Fairness ==
    /\ WF_vars(Receives)
    /\ WF_vars(HashChange)
    /\ WF_vars(AutoStarts)
    /\ WF_vars(Timeouts)

Spec == Init /\ [][Next]_vars /\ Fairness

-----------------------------------------------------------------------------
TypeOK ==
    /\ phase \in [Stems -> Phases]
    /\ asked \subseteq [type : {"get_messages", "get_state"}, of : Stems, no : 1 .. MaxUpsets + 1]
    /\ {hash, route, key} \subseteq Stems \union {New, None}
    /\ \A k \in Keys :
        /\ bucket[k].phase \in Phases \union {None}
        /\ bucket[k].draft \in Stems \union {None}
        /\ bucket[k].msgs \subseteq Stems
    /\ status \in BOOLEAN \union {None}
    /\ auto \in Stems \union {New, None}
    /\ \A k \in Keys :
        /\ gate[k].kind \in {"absent", "open", "ceremony"}
        /\ gate[k].no \in 0 .. MaxUpsets + 1
        /\ gate[k].error \in {"none", "failed", "bridge_offline"}
        /\ ~(gate[k].ready /\ (gate[k].error # "none" \/ gate[k].active))
    /\ missed \subseteq Stems

(* The chat is shown only after recovery: when a gate that runs ceremonies  *)
(* says ready, both queries of its latest ceremony have been answered.  A   *)
(* late reply to a ceremony that was cancelled does not count.              *)
ReadyAnswered ==
    \A k \in Stems :
        gate[k].kind = "ceremony" /\ gate[k].ready =>
            {k} \X {"snapshot", "state"} \subseteq answers

SameTexts(b, c) == b.msgs = c.msgs /\ b.draft = c.draft

(* What a bucket says of a session's phase is the session's phase, unless a *)
(* frame that says otherwise is on its way or was lost.                     *)
PhaseTruthful ==
    \A s \in Stems \ missed :
        bucket[s].phase # None /\ (\A i \in 1 .. Len(wire) :
                wire[i].type \in {"session_state", "result"} => wire[i].of # s)
            => bucket[s].phase = phase[s]

(* No broadcast loses a message or a draft the page holds.  Those of a      *)
(* bucket that is in use stay as they are.  The early ones of session=new   *)
(* stay, or become those of the session of the broadcast, whole: one whose  *)
(* bucket was not in use, of the same work dir, and that the user looks at, *)
(* or, while the user is at session=new, is taken for.  That it is the one  *)
(* they belong to is OwnStem, below.                                        *)
NothingOverwritten ==
    [][Len(wire) > 0 /\ Head(wire).type = "session_state" /\ wire' = Tail(wire) =>
        /\ \A s \in Stems : HasState(bucket[s]) => SameTexts(bucket'[s], bucket[s])
        /\ \/ SameTexts(bucket'[New], bucket[New])
           \/ LET s == Head(wire).key IN
                /\ s \in Stems /\ ~HasState(bucket[s])
                /\ bucket[New].dir \in {None, DirOf[s]}
                /\ key' \in {New, s}
                /\ SameTexts(bucket'[s], bucket[New])]_vars

(* What the page holds of a session is kept: its phase is the session's,    *)
(* and its messages and draft survive every broadcast.                      *)
BucketsKept == []PhaseTruthful /\ NothingOverwritten

(* "Recovering" is not the last word: a session that is open on a connected *)
(* page ends up recovered or with an error and a button, although the loss  *)
(* of a connection starts nothing again.                                    *)
NotStuckLoading ==
    <>[](route \in Stems /\ online /\ status # FALSE =>
            gate[route].ready \/ gate[route].error # "none")

(* The comments on the routing of snapshots and events in WsClient.ts: a    *)
(* frame without a session "must belong to the session the user is          *)
(* currently viewing".                                                      *)
OwnHistory ==
    \A s \in Stems : bucket[s].msgs \subseteq {s}

(* stem-refilled.ts: the watcher puts the stem of the session that the      *)
(* user's own prompt created into the URL.                                  *)
OwnRefill ==
    watch.refilled => key = Fresh

OfFresh(b) == Fresh \in b.msgs \/ b.draft = Fresh

(* The comment on migratePendingBucket in WsClient.ts: what the page holds  *)
(* of the new session is not hijacked by a broadcast of another one.        *)
OwnStem ==
    [][Len(wire) > 0 /\ Head(wire).type = "session_state" /\ wire' = Tail(wire) =>
        \A s \in Old : OfFresh(bucket'[s]) => OfFresh(bucket[s])]_vars

=============================================================================
