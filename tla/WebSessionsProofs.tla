--------------------------- MODULE WebSessionsProofs ---------------------------
(***************************************************************************)
(* The page's sessions, for any sessions, work dirs and bounds.            *)
(*                                                                         *)
(* The chat is never shown on the word of a reply that does not count.     *)
(* That ready means answered rests on a reply being counted only for the   *)
(* number of the ceremony that waits for it, on a new ceremony starting    *)
(* from nothing, and on the gate of session=new, which is the only one     *)
(* that changes its key, never running a ceremony.                         *)
(*                                                                         *)
(* What a bucket says of a phase is right because, of the frames on their  *)
(* way that say something of a session, the last one is right, and because *)
(* nothing is said, asked or shown of the new session under its stem       *)
(* before that stem is announced.                                          *)
(***************************************************************************)
EXTENDS WebSessions, FiniteSetTheorems, TLAPS

Outcomes == {"pending", "ok", "fail"}
Queried == {"snapshot", "state"}

Gates ==
    [kind : {"absent", "open", "ceremony"}, ready : BOOLEAN,
     error : {"none", "failed", "bridge_offline"}, no : Nat, active : BOOLEAN,
     snapshot : Outcomes, state : Outcomes, offline : BOOLEAN]

(* What the gate of k may claim, given the replies to its latest ceremony.  *)
Backed(g, k, replies) ==
    /\ g.active => g.kind = "ceremony"
    /\ g.kind = "ceremony" /\ (g.ready \/ (g.active /\ g.snapshot = "ok")) =>
            <<k, "snapshot">> \in replies
    /\ g.kind = "ceremony" /\ (g.ready \/ (g.active /\ g.state = "ok")) =>
            <<k, "state">> \in replies

Inv ==
    /\ gate \in [Keys -> Gates]
    /\ gate[New].kind # "ceremony"
    /\ \A k \in Keys : Backed(gate[k], k, answers)

LEMMA Gateless ==
    /\ Absent \in Gates /\ ColdGate \in Gates /\ ReadyGate \in Gates
    /\ \A k, replies : /\ Backed(Absent, k, replies)
                       /\ Backed(ColdGate, k, replies)
                       /\ Backed(ReadyGate, k, replies)
    /\ ColdGate.kind = "ceremony" /\ ReadyGate.kind = "open" /\ Absent.kind = "absent"
  BY DEF Absent, ColdGate, ReadyGate, Gates, Backed, Outcomes

LEMMA MoreReplies ==
    ASSUME NEW g, NEW k, NEW old, NEW new, old \subseteq new, Backed(g, k, old)
    PROVE  Backed(g, k, new)
  BY DEF Backed

(* checkComplete ends a ceremony with ready only after two good replies.    *)
LEMMA CheckedGate ==
    ASSUME NEW g \in Gates, NEW k, NEW replies, Backed(g, k, replies)
    PROVE  Checked(g) \in Gates /\ Backed(Checked(g), k, replies)
<1>1. CASE Checked(g) = g
  BY <1>1
<1>2. ASSUME NEW ready \in BOOLEAN, NEW error \in {"failed", "none", "bridge_offline"},
             Checked(g) = Ended(g, ready, error), g.active,
             ready => g.snapshot = "ok" /\ g.state = "ok"
      PROVE  Checked(g) \in Gates /\ Backed(Checked(g), k, replies)
  BY <1>2 DEF Ended, ColdGate, Absent, Gates, Backed, Outcomes
<1>3. CASE g.active /\ g.offline
  BY <1>2, <1>3 DEF Checked, Gates
<1>4. CASE g.active /\ ~g.offline /\ {g.snapshot, g.state} = {"ok"}
  BY <1>2, <1>4 DEF Checked, Gates
<1>5. CASE g.active /\ ~g.offline /\ "pending" \notin {g.snapshot, g.state}
           /\ {g.snapshot, g.state} # {"ok"}
  BY <1>2, <1>5 DEF Checked, Gates
<1>6. CASE ~g.active \/ (~g.offline /\ "pending" \in {g.snapshot, g.state})
  BY <1>1, <1>6 DEF Checked, Gates
<1> QED
  BY <1>3, <1>4, <1>5, <1>6 DEF Gates

LEMMA ResolvedGate ==
    ASSUME NEW g \in Gates, NEW k, NEW replies, Backed(g, k, replies),
           NEW no, NEW query \in Queried, NEW outcome \in {"ok", "fail"},
           outcome = "ok" /\ g.no = no => <<k, query>> \in replies
    PROVE  /\ Resolved(g, no, query, outcome) \in Gates
           /\ Backed(Resolved(g, no, query, outcome), k, replies)
<1> DEFINE h == [g EXCEPT ![query] = outcome]
<1>1. CASE g.active /\ g.no = no
  <2>1. CASE query = "snapshot"
    <3>1. h = [g EXCEPT !.snapshot = outcome]
      BY <2>1
    <3>2. h \in Gates /\ Backed(h, k, replies)
      BY <1>1, <2>1, <3>1 DEF Gates, Outcomes, Backed
    <3> QED
      BY <1>1, <3>2, CheckedGate DEF Resolved
  <2>2. CASE query = "state"
    <3>1. h = [g EXCEPT !.state = outcome]
      BY <2>2
    <3>2. h \in Gates /\ Backed(h, k, replies)
      BY <1>1, <2>2, <3>1 DEF Gates, Outcomes, Backed
    <3> QED
      BY <1>1, <3>2, CheckedGate DEF Resolved
  <2> QED
    BY <2>1, <2>2 DEF Queried
<1>2. CASE ~(g.active /\ g.no = no)
  BY <1>2 DEF Resolved
<1> QED
  BY <1>1, <1>2

(* A step of one gate, with the replies it has had.                         *)
LEMMA GateChanges ==
    ASSUME Inv, NEW k, NEW g, gate' = [gate EXCEPT ![k] = g],
           k \in Keys => g \in Gates /\ Backed(g, k, answers'),
           k = New => g.kind # "ceremony",
           \A j \in Keys, query \in Queried :
                j # k /\ <<j, query>> \in answers => <<j, query>> \in answers'
    PROVE  Inv'
<1>1. New \in Keys
  BY DEF Keys
<1>2. \A j \in Keys : j # k => Backed(gate[j], j, answers')
  BY DEF Inv, Backed, Queried
<1>3. \A j \in Keys : gate'[j] = IF j = k THEN g ELSE gate[j]
  BY DEF Inv
<1> QED
  BY <1>1, <1>2, <1>3 DEF Inv

LEMMA InitInv == Init => Inv
  BY Gateless DEF Init, Inv, Keys

(* A reply is resolved: by its number, whatever session it says it is of.   *)
LEMMA ReplyInv ==
    ASSUME Inv, NEW k, NEW no, NEW query \in Queried, NEW outcome \in {"ok", "fail"},
           gate' = [gate EXCEPT ![k] = Resolved(@, no, query, outcome)],
           answers' = IF outcome = "ok" /\ no = gate[k].no
                      THEN answers \union {<<k, query>>} ELSE answers
    PROVE  Inv'
<1> DEFINE g == Resolved(gate[k], no, query, outcome)
<1>1. gate' = [gate EXCEPT ![k] = g]
  OBVIOUS
<1>2. answers \subseteq answers'
  OBVIOUS
<1>3. ASSUME k \in Keys
      PROVE  g \in Gates /\ Backed(g, k, answers')
  <2>1. gate[k] \in Gates /\ Backed(gate[k], k, answers')
    BY <1>2, <1>3, MoreReplies DEF Inv
  <2> QED
    BY <2>1, ResolvedGate
<1>4. k = New => g = gate[New]
  BY DEF Inv, Backed, Resolved, Keys
<1> HIDE DEF g
<1> QED
  BY <1>1, <1>2, <1>3, <1>4, GateChanges DEF Inv

LEMMA StartsInv == ASSUME Inv, NEW k, Starts(k) PROVE Inv'
<1>1. CASE gate[k].kind # "ceremony"
  BY <1>1 DEF Starts, Inv, Backed
<1>2. CASE gate[k].kind = "ceremony"
  <2> DEFINE g == [ColdGate EXCEPT !.no = gate[k].no + 1, !.active = TRUE,
                                   !.offline = (status = FALSE)]
  <2>1. gate' = [gate EXCEPT ![k] = g] /\ answers' = {q \in answers : q[1] # k}
    BY <1>2 DEF Starts
  <2>2. /\ g.active = TRUE /\ g.kind = "ceremony" /\ g.ready = FALSE
        /\ g.snapshot = "pending" /\ g.state = "pending"
    BY DEF ColdGate, Absent
  <2>4. Backed(g, k, answers')
    BY <2>2 DEF Backed
  <2>5. ASSUME k \in Keys PROVE g \in Gates
    <3>1. gate[k].no + 1 \in Nat /\ (status = FALSE) \in BOOLEAN
      BY <2>5 DEF Inv, Gates
    <3> QED
      BY <3>1 DEF Gates, ColdGate, Absent, Outcomes
  <2>3. k # New
    BY <1>2 DEF Inv
  <2> HIDE DEF g
  <2> QED
    BY <2>1, <2>3, <2>4, <2>5, GateChanges DEF Queried
<1> QED
  BY <1>1, <1>2

LEMMA TimeoutInv ==
    ASSUME Inv, NEW k \in Keys, NEW query \in Queried, Timeout(k, query) PROVE Inv'
<1>1. /\ gate' = [gate EXCEPT ![k] = Resolved(gate[k], gate[k].no, query, "fail")]
      /\ answers' = answers
  BY DEF Timeout, Resolved
<1> QED
  BY <1>1, ReplyInv

(* The gate of session=new is always open, so that it may move.             *)
LEMMA RefillInv ==
    ASSUME Inv, NEW k \in Stems, UNCHANGED answers,
           gate' = [gate EXCEPT ![k] = gate[New], ![New] = Absent]
    PROVE  Inv'
<1>1. New \in Keys /\ k \in Keys /\ k # New
  BY KeysAssumption DEF Keys
<1>2. gate[New] \in Gates /\ Backed(gate[New], k, answers)
  BY <1>1 DEF Inv, Backed
<1> QED
  BY <1>1, <1>2, Gateless DEF Inv

LEMMA BridgeStatusInv ==
    ASSUME Inv, NEW f, OnBridgeStatus(f) PROVE Inv'
<1>1. CASE UNCHANGED <<gate, answers>>
  BY <1>1 DEF Inv
<1>2. CASE /\ UNCHANGED answers
           /\ gate' = [k \in Keys |->
                          Checked([gate[k] EXCEPT !.offline = @ \/ gate[k].active])]
  <2>1. ASSUME NEW k \in Keys
        PROVE  /\ gate'[k] \in Gates /\ Backed(gate'[k], k, answers)
               /\ k = New => gate'[k].kind # "ceremony"
    <3> DEFINE h == [gate[k] EXCEPT !.offline = gate[k].offline \/ gate[k].active]
    <3>1. gate[k] \in Gates /\ Backed(gate[k], k, answers)
      BY DEF Inv
    <3>2. h \in Gates /\ Backed(h, k, answers) /\ h.active = gate[k].active
          /\ h.kind = gate[k].kind
      BY <3>1 DEF Gates, Backed
    <3>3. gate'[k] = Checked(h)
      BY <1>2
    <3> HIDE DEF h
    <3>4. k = New => ~h.active
      BY <3>1, <3>2 DEF Inv, Backed
    <3>5. ~h.active => Checked(h) = h
      BY DEF Checked
    <3> QED
      BY <3>2, <3>3, <3>4, <3>5, CheckedGate DEF Inv
  <2> QED
    BY <1>2, <2>1 DEF Inv, Keys
<1> QED
  BY <1>1, <1>2 DEF OnBridgeStatus

LEMMA ReceivesInv == ASSUME Inv, Receives PROVE Inv'
<1> DEFINE f == Head(wire)
<1>1. CASE OnSessionState(f)
  <2>1. CASE Refills(f)
    BY <1>1, <2>1, RefillInv DEF OnSessionState, Refills
  <2>2. CASE ~Refills(f)
    BY <1>1, <2>2 DEF OnSessionState, Inv
  <2> QED
    BY <2>1, <2>2
<1>2. CASE OnResult(f)
  <2>1. CASE f.ok
    BY <1>2, <2>1, ReplyInv DEF OnResult, Queried
  <2>2. CASE ~f.ok
    BY <1>2, <2>2, ReplyInv DEF OnResult, Queried
  <2> QED
    BY <2>1, <2>2
<1>3. CASE OnSnapshot(f)
  BY <1>3, ReplyInv DEF OnSnapshot, Queried
<1>4. CASE OnEvent(f)
  BY <1>4 DEF OnEvent, Inv
<1>5. CASE OnBridgeStatus(f)
  BY <1>5, BridgeStatusInv
<1> QED
  BY <1>1, <1>2, <1>3, <1>4, <1>5 DEF Receives

LEMMA HashChangeInv == ASSUME Inv, HashChange PROVE Inv'
<1>1. CASE UNCHANGED gate
  BY <1>1 DEF HashChange, Inv
<1>2. CASE gate' = [gate EXCEPT ![hash] = IF hash = New THEN ReadyGate ELSE ColdGate]
  BY <1>2, Gateless, GateChanges DEF HashChange
<1> QED
  BY <1>1, <1>2 DEF HashChange

LEMMA StepInv == Inv /\ [Next]_vars => Inv'
<1> SUFFICES ASSUME Inv, [Next]_vars PROVE Inv'
  OBVIOUS
<1>1. CASE UNCHANGED <<gate, answers>>
  BY <1>1 DEF Inv
<1>2. CASE BridgeStep
  BY <1>1, <1>2 DEF BridgeStep, Spawns, SpawnEnds, StartsTurn, Talks, EndsTurn, Migrates,
                    Answers, OtherPrompts, page
<1>3. CASE Network
  BY <1>1, <1>3 DEF Network, Breaks, Reconnects, BridgeBreaks, BridgeReturns, page
<1>4. CASE PageStep
  BY <1>1, <1>4, ReceivesInv, HashChangeInv, StartsInv, TimeoutInv
     DEF PageStep, AutoStarts, DeferredFires, Timeouts, Queried
<1>5. CASE User
  BY <1>1, <1>5, StartsInv DEF User, Retries, Prompts, Clicks, page
<1>6. CASE UNCHANGED vars
  BY <1>1, <1>6 DEF vars, page
<1> QED
  BY <1>2, <1>3, <1>4, <1>5, <1>6 DEF Next

(* The chat of a session that was recovered is shown only when both queries *)
(* of its latest ceremony were answered; replies to ceremonies that were    *)
(* cancelled, timeouts and a bridge that goes away never open the gate      *)
(* (startCeremony, cancelActive, checkComplete).                            *)
THEOREM ReadyIsAnswered == Spec => []ReadyAnswered
<1>1. Inv => ReadyAnswered
  <2>1. ASSUME Inv, NEW k \in Stems, gate[k].kind = "ceremony", gate[k].ready
        PROVE  {k} \X {"snapshot", "state"} \subseteq answers
    <3>1. <<k, "snapshot">> \in answers /\ <<k, "state">> \in answers
      BY <2>1 DEF Inv, Backed, Keys
    <3> QED
      BY <3>1
  <2> QED
    BY <2>1 DEF ReadyAnswered
<1> QED
  BY <1>1, InitInv, StepInv, PTL DEF Spec

-----------------------------------------------------------------------------
(* The types of what the bridge sends and the page keeps.                   *)

Ceremonies == {"get_messages", "get_state"}
Places == Stems \union {New, None}
Dirs == {DirOf[s] : s \in Stems} \union {None}
Buckets ==
    [msgs : SUBSET Stems, draft : Stems \union {None}, phase : Phases \union {None}, dir : Dirs]

(* A frame that is not sent under its session's stem is of the new session. *)
StateFrames == {f \in [type : {"session_state"}, of : Stems, key : Stems \union {New},
                       phase : Phases] : f.key = f.of \/ (f.key = New /\ f.of = Fresh)}
ResultFrames == [type : {"result"}, of : Stems, no : Nat, ok : BOOLEAN, phase : Phases]
SnapshotFrames == [type : {"snapshot"}, of : Stems, no : Nat, msgs : SUBSET Stems]
EventFrames == [type : {"message_update", "message_end"}, of : Stems]
StatusFrames == [type : {"bridge_status"}, up : BOOLEAN]
Frames == UNION {StateFrames, ResultFrames, SnapshotFrames, EventFrames, StatusFrames}

Wired == wire \in Seq(Frames) /\ (~online => wire = <<>>)
Requests == [type : Ceremonies, of : Stems, no : Nat \ {0}]

PageInv ==
    /\ phase \in [Stems -> Phases]
    /\ bucket \in [Keys -> Buckets]
    /\ Wired
    /\ asked \subseteq Requests
    /\ {hash, route, key} \subseteq Places /\ auto \in Places
    /\ status \in BOOLEAN \union {None}
    /\ missed \subseteq Stems
    /\ bridgeUp \in BOOLEAN

LEMMA Names ==
    /\ New \in Keys /\ Legacy \in Keys /\ Stems \subseteq Keys /\ Fresh \in Stems
    /\ New \notin Stems /\ Legacy \notin Stems /\ None \notin Stems
    /\ New # None /\ New # Legacy /\ Legacy # None
<1>1. New # None /\ New # Legacy /\ Legacy # None
  <2>1. ASSUME NEW a, NEW b PROVE Cardinality({a, b}) # 3
    <3>1. Cardinality({a, b}) <= 2
      <4>1. IsFiniteSet({a}) /\ Cardinality({a}) = 1
        BY FS_Singleton
      <4>2. IsFiniteSet({a} \union {b}) /\ Cardinality({a} \union {b}) \in {1, 2}
        BY <4>1, FS_AddElement
      <4>3. {a, b} = {a} \union {b}
        OBVIOUS
      <4> QED
        BY <4>2, <4>3
    <3> QED
      BY <3>1
  <2>2. CASE New = None
    <3>1. {New, Legacy, None} = {New, Legacy}
      BY <2>2
    <3> QED
      BY <2>1, <3>1, KeysAssumption
  <2>3. CASE New = Legacy
    <3>1. {New, Legacy, None} = {New, None}
      BY <2>3
    <3> QED
      BY <2>1, <3>1, KeysAssumption
  <2>4. CASE Legacy = None
    <3>1. {New, Legacy, None} = {New, None}
      BY <2>4
    <3> QED
      BY <2>1, <3>1, KeysAssumption
  <2> QED
    BY <2>2, <2>3, <2>4
<1> QED
  BY <1>1, KeysAssumption DEF Keys, Stems

LEMMA PageInit == Init => PageInv
<1> SUFFICES ASSUME Init PROVE PageInv
  OBVIOUS
<1>1. EmptyBucket \in Buckets
  BY DEF EmptyBucket, Buckets, Dirs
<1>2. [type |-> "bridge_status", up |-> TRUE] \in Frames
  BY DEF Frames, StatusFrames
<1>3. wire \in Seq(Frames)
  BY <1>2 DEF Init
<1> QED
  BY <1>1, <1>3 DEF Init, PageInv, Wired, Phases, Places

(* What is sent reaches the wire of a page that is online.                  *)
LEMMA SentTypes ==
    ASSUME Wired, NEW f \in Frames, Sends(<<f>>), online' = online
    PROVE  Wired'
  BY DEF Wired, Sends, Delivers

LEMMA SentBoth ==
    ASSUME Wired, NEW e \in Frames, NEW f \in Frames, Sends(<<e, f>>), online' = online
    PROVE  Wired'
<1>1. wire \in Seq(Frames) => wire \o <<e, f>> \in Seq(Frames)
  OBVIOUS
<1> QED
  BY <1>1 DEF Wired, Sends, Delivers

LEMMA NewsTypes ==
    ASSUME Wired, NEW f \in Frames, Delivers(<<f>>), online' = online
    PROVE  Wired'
  BY DEF Wired, Delivers

LEMMA MovesTypes ==
    ASSUME PageInv, NEW s \in Stems, NEW p \in Phases, Moves(s, p), UNCHANGED online
    PROVE  phase' \in [Stems -> Phases] /\ Wired' /\ missed' \subseteq Stems
<1>1. StateFrame(s, WireKey(s), p) \in Frames
  BY DEF StateFrame, WireKey, Frames, StateFrames
<1>2. Wired'
  BY <1>1, SentTypes DEF Moves, PageInv
<1> QED
  BY <1>2 DEF Moves, Misses, PageInv

LEMMA BridgePage == ASSUME PageInv, BridgeStep PROVE PageInv'
<1>1. /\ UNCHANGED <<online, bucket, hash, route, key, auto, status>>
      /\ asked' \subseteq asked /\ bridgeUp' = bridgeUp
  BY DEF BridgeStep, Spawns, SpawnEnds, StartsTurn, Talks, EndsTurn, Migrates, Answers,
         OtherPrompts, page
<1>2. ASSUME phase' \in [Stems -> Phases], Wired', missed' \subseteq Stems PROVE PageInv'
  BY <1>1, <1>2 DEF PageInv
<1>3. ASSUME NEW s \in Stems, Spawns(s) \/ SpawnEnds(s) \/ StartsTurn(s) PROVE PageInv'
  BY <1>1, <1>2, <1>3, MovesTypes DEF Spawns, SpawnEnds, StartsTurn, Phases
<1>4. ASSUME NEW s \in Stems, Talks(s) PROVE PageInv'
  <2>1. EventFrame(s, "message_update") \in Frames
    BY DEF EventFrame, Frames, EventFrames
  <2>2. Wired'
    BY <1>1, <1>4, <2>1, SentTypes DEF Talks, PageInv
  <2> QED
    BY <1>2, <1>4, <2>2 DEF Talks, PageInv
<1>5. ASSUME NEW s \in Stems, EndsTurn(s) PROVE PageInv'
  <2>1. EventFrame(s, "message_end") \in Frames /\ StateFrame(s, WireKey(s), "idle") \in Frames
    BY DEF EventFrame, Frames, EventFrames, StateFrame, WireKey, StateFrames, Phases
  <2>2. Wired'
    BY <1>1, <1>5, <2>1, SentBoth DEF EndsTurn, PageInv
  <2> QED
    BY <1>2, <1>5, <2>2 DEF EndsTurn, Misses, PageInv, Phases
<1>6. CASE Migrates
  <2>1. StateFrame(Fresh, Fresh, phase[Fresh]) \in Frames
    BY Names DEF Frames, StateFrame, StateFrames, PageInv
  <2>2. Wired'
    BY <1>1, <1>6, <2>1, SentTypes DEF Migrates, PageInv
  <2> QED
    BY <1>2, <1>6, <2>2, Names DEF Migrates, Misses, PageInv
<1>7. ASSUME NEW r \in asked, Answers(r) PROVE PageInv'
  <2>1. r \in Requests
    BY DEF PageInv
  <2>2. [type |-> "snapshot", of |-> r.of, no |-> r.no, msgs |-> {r.of} \intersect history] \in Frames
    BY <2>1 DEF Frames, SnapshotFrames, Requests
  <2>3. [type |-> "result", of |-> r.of, no |-> r.no, ok |-> phase[r.of] # "exited",
         phase |-> phase[r.of]] \in Frames
    BY <2>1 DEF Frames, ResultFrames, Requests, PageInv
  <2>4. Wired'
    BY <1>1, <1>7, <2>2, <2>3, SentTypes DEF Answers, PageInv
  <2> QED
    BY <1>2, <1>7, <2>4 DEF Answers, PageInv
<1>8. ASSUME NEW s \in Old, OtherPrompts(s) PROVE PageInv'
  BY <1>1, <1>2, <1>8 DEF OtherPrompts, PageInv, Wired
<1> QED
  BY <1>3, <1>4, <1>5, <1>6, <1>7, <1>8 DEF BridgeStep

LEMMA NetworkPage == ASSUME PageInv, Network PROVE PageInv'
<1>1. UNCHANGED <<phase, bucket, hash, route, key, auto, status>> /\ asked' \subseteq asked
  BY DEF Network, Breaks, Reconnects, BridgeBreaks, BridgeReturns, bridge, page
<1>2. \A u \in BOOLEAN : [type |-> "bridge_status", up |-> u] \in Frames
  BY DEF Frames, StatusFrames
<1>3. CASE Breaks
  <2>1. Known \subseteq Stems
    <3>1. ASSUME NEW i \in 1 .. Len(wire),
                 wire[i] \notin {[type |-> "bridge_status", up |-> u] : u \in BOOLEAN}
          PROVE  wire[i].of \in Stems
      <4>1. wire[i] \in Frames
        BY DEF PageInv, Wired
      <4>2. wire[i] \notin StatusFrames
        BY <3>1 DEF StatusFrames
      <4> QED
        BY <4>1, <4>2 DEF Frames, StateFrames, ResultFrames, SnapshotFrames, EventFrames
    <3> QED
      BY <3>1 DEF Known
  <2>2. Wired'
    BY <1>3 DEF Breaks, Wired
  <2> QED
    BY <1>1, <1>3, <2>1, <2>2 DEF Breaks, PageInv
<1>4. CASE Reconnects
  <2>1. Wired'
    BY <1>2, <1>4 DEF Reconnects, Wired, PageInv
  <2> QED
    BY <1>1, <1>4, <2>1 DEF Reconnects, bridge, PageInv
<1>5. CASE BridgeBreaks \/ BridgeReturns
  <2>1. Wired'
    BY <1>2, <1>5, NewsTypes DEF BridgeBreaks, BridgeReturns, BridgeDown, PageInv
  <2> QED
    BY <1>1, <1>5, <2>1 DEF BridgeBreaks, BridgeReturns, PageInv
<1> QED
  BY <1>3, <1>4, <1>5 DEF Network

(* migratePendingBucket touches the buckets of the stem and of session=new, *)
(* and neither loses what they hold nor puts it over something.             *)
MovesEarly(s, k) ==
    /\ ~HasState(bucket[s])
    /\ bucket[New].dir \in {None, DirOf[s]}
    /\ k \in {New, s}

LEMMA MigratedBuckets ==
    ASSUME PageInv, NEW s \in Stems, NEW k, NEW listed \in BOOLEAN,
           NEW moved, moved = Migrated(s, k, listed)
    PROVE  /\ moved \in [Keys -> Buckets]
           /\ \A j \in Stems : j # s => moved[j] = bucket[j]
           /\ HasState(bucket[s]) => moved[s] = bucket[s]
           /\ \/ SameTexts(moved[New], bucket[New])
              \/ MovesEarly(s, k) /\ SameTexts(moved[s], bucket[New])
<1>1. EmptyBucket \in Buckets
  BY DEF EmptyBucket, Buckets, Dirs
<1>2. CASE moved = bucket
  BY <1>2, Names DEF PageInv, SameTexts
<1>3. CASE /\ moved = [bucket EXCEPT ![s] = bucket[New], ![New] = EmptyBucket]
           /\ MovesEarly(s, k)
  <2>1. moved[s] = bucket[New]
    BY <1>3, Names DEF PageInv
  <2>2. moved \in [Keys -> Buckets]
    BY <1>1, <1>3, Names DEF PageInv
  <2>3. \A j \in Stems : j # s => moved[j] = bucket[j]
    BY <1>3, Names DEF PageInv
  <2> QED
    BY <1>3, <2>1, <2>2, <2>3 DEF SameTexts, MovesEarly
<1>4. CASE moved = [bucket EXCEPT ![New] = EmptyBucket] /\ ~HasState(bucket[New])
  <2>1. SameTexts(moved[New], bucket[New])
    BY <1>4, Names DEF PageInv, SameTexts, HasState, EmptyBucket
  <2>2. moved \in [Keys -> Buckets] /\ \A j \in Stems : moved[j] = bucket[j]
    BY <1>1, <1>4, Names DEF PageInv
  <2> QED
    BY <2>1, <2>2
<1> QED
  BY <1>2, <1>3, <1>4 DEF Migrated, MovesEarly

LEMMA StoredBuckets ==
    ASSUME NEW b \in [Keys -> Buckets], NEW f \in StateFrames
    PROVE  /\ Stored(b, f) \in [Keys -> Buckets]
           /\ \A j \in Keys : /\ SameTexts(Stored(b, f)[j], b[j])
                              /\ j # f.key => Stored(b, f)[j] = b[j]
           /\ Stored(b, f)[f.key].phase = f.phase
<1>1. f.key \in Keys /\ f.phase \in Phases /\ DirOf[f.of] \in Dirs
  BY DEF StateFrames, Keys, Dirs
<1>2. Stored(b, f) = [b EXCEPT ![f.key] = [b[f.key] EXCEPT !.phase = f.phase, !.dir = DirOf[f.of]]]
  BY <1>1 DEF Stored
<1>3. [b[f.key] EXCEPT !.phase = f.phase, !.dir = DirOf[f.of]] \in Buckets
  BY <1>1 DEF Buckets
<1> QED
  BY <1>1, <1>2, <1>3 DEF SameTexts, Buckets

(* Where frames without a session end up.                                   *)
LEMMA CurrentKey == ASSUME PageInv PROVE Current \in Keys
  BY Names DEF PageInv, Current, Places, Keys

LEMMA EditedBucket ==
    ASSUME PageInv, NEW k \in Keys, NEW b \in Buckets, bucket' = [bucket EXCEPT ![k] = b],
           b.phase = bucket[k].phase
    PROVE  /\ bucket' \in [Keys -> Buckets]
           /\ \A j \in Keys : bucket'[j].phase = bucket[j].phase
  BY DEF PageInv

LEMMA FrameKinds ==
    ASSUME NEW f \in Frames
    PROVE  /\ f.type = "session_state" => f \in StateFrames
           /\ f.type = "result" => f \in ResultFrames
           /\ f.type = "snapshot" => f \in SnapshotFrames
           /\ f.type \in {"message_update", "message_end"} => f \in EventFrames
           /\ f.type = "bridge_status" => f \in StatusFrames
  BY DEF Frames, StateFrames, ResultFrames, SnapshotFrames, EventFrames, StatusFrames

LEMMA SnapshotBuckets ==
    ASSUME PageInv, NEW f \in Frames, f.type = "snapshot", OnSnapshot(f)
    PROVE  /\ bucket' \in [Keys -> Buckets]
           /\ \A j \in Keys : bucket'[j].phase = bucket[j].phase
<1>1. f.msgs \in SUBSET Stems /\ Current \in Keys /\ bucket[Current] \in Buckets
  BY FrameKinds, CurrentKey DEF SnapshotFrames, PageInv
<1>2. Replaced(bucket[Current], f.msgs) \in Buckets
      /\ Replaced(bucket[Current], f.msgs).phase = bucket[Current].phase
  BY <1>1 DEF Replaced, Buckets
<1>3. bucket' = [bucket EXCEPT ![Current] = Replaced(bucket[Current], f.msgs)]
  BY DEF OnSnapshot
<1> QED
  BY <1>1, <1>2, <1>3, EditedBucket

LEMMA EventBuckets ==
    ASSUME PageInv, NEW f \in Frames, f.type \in {"message_update", "message_end"}, OnEvent(f)
    PROVE  /\ bucket' \in [Keys -> Buckets]
           /\ \A j \in Keys : bucket'[j].phase = bucket[j].phase
<1>1. f.of \in Stems /\ Current \in Keys /\ bucket[Current] \in Buckets
  BY FrameKinds, CurrentKey DEF EventFrames, PageInv
<1>2. /\ Drafted(bucket[Current], f.of) \in Buckets
      /\ Drafted(bucket[Current], f.of).phase = bucket[Current].phase
  BY <1>1 DEF Drafted, Buckets
<1>3. /\ Upserted(bucket[Current], f.of) \in Buckets
      /\ Upserted(bucket[Current], f.of).phase = bucket[Current].phase
  BY <1>1 DEF Upserted, Buckets
<1>4. \/ bucket' = [bucket EXCEPT ![Current] = Drafted(bucket[Current], f.of)]
      \/ bucket' = [bucket EXCEPT ![Current] = Upserted(bucket[Current], f.of)]
  BY DEF OnEvent
<1> QED
  BY <1>1, <1>2, <1>3, <1>4, EditedBucket

LEMMA ResultBuckets ==
    ASSUME PageInv, NEW f \in Frames, f.type = "result", OnResult(f)
    PROVE  /\ bucket' \in [Keys -> Buckets]
           /\ \A j \in Keys : bucket'[j].phase = IF f.ok /\ j = f.of THEN f.phase
                                                 ELSE bucket[j].phase
<1>1. f \in ResultFrames /\ f.of \in Keys
  BY FrameKinds, Names DEF ResultFrames
<1>2. CASE f.ok
  <2>1. bucket' = [bucket EXCEPT ![f.of] = [bucket[f.of] EXCEPT !.phase = f.phase]]
    BY <1>2 DEF OnResult
  <2>2. [bucket[f.of] EXCEPT !.phase = f.phase] \in Buckets
        /\ [bucket[f.of] EXCEPT !.phase = f.phase].phase = f.phase
    BY <1>1 DEF Buckets, ResultFrames, PageInv
  <2> QED
    BY <1>1, <1>2, <2>1, <2>2 DEF PageInv
<1>3. CASE ~f.ok
  BY <1>3 DEF OnResult, PageInv
<1> QED
  BY <1>2, <1>3

(* A broadcast of a session's state.                                        *)
LEMMA StateBuckets ==
    ASSUME PageInv, NEW f \in Frames, f.type = "session_state", OnSessionState(f)
    PROVE  /\ f \in StateFrames
           /\ bucket' \in [Keys -> Buckets]
           /\ bucket'[f.key].phase = f.phase
           /\ \A s \in Stems : s # f.key => bucket'[s].phase = bucket[s].phase
           /\ \A s \in Stems : HasState(bucket[s]) => SameTexts(bucket'[s], bucket[s])
           /\ \/ SameTexts(bucket'[New], bucket[New])
              \/ f.key \in Stems /\ MovesEarly(f.key, key') /\ SameTexts(bucket'[f.key], bucket[New])
<1>1. f \in StateFrames /\ f.key \in Stems \union {New}
  BY FrameKinds DEF StateFrames
<1>2. PICK moved \in [Keys -> Buckets] :
          /\ bucket' = Stored(moved, f)
          /\ \A s \in Stems : s # f.key => moved[s] = bucket[s]
          /\ \A s \in Stems : HasState(bucket[s]) => SameTexts(moved[s], bucket[s])
          /\ \/ SameTexts(moved[New], bucket[New])
             \/ f.key \in Stems /\ MovesEarly(f.key, key') /\ SameTexts(moved[f.key], bucket[New])
  <2>1. CASE f.key \in Stems
    <3>1. PICK listed \in BOOLEAN : bucket' = Stored(Migrated(f.key, key', listed), f)
      BY <2>1 DEF OnSessionState
    <3>2. PICK moved : moved = Migrated(f.key, key', listed)
      OBVIOUS
    <3>3. /\ moved \in [Keys -> Buckets]
          /\ \A j \in Stems : j # f.key => moved[j] = bucket[j]
          /\ HasState(bucket[f.key]) => moved[f.key] = bucket[f.key]
          /\ \/ SameTexts(moved[New], bucket[New])
             \/ MovesEarly(f.key, key') /\ SameTexts(moved[f.key], bucket[New])
      BY <2>1, <3>2, MigratedBuckets
    <3>4. \A s \in Stems : HasState(bucket[s]) => SameTexts(moved[s], bucket[s])
      BY <3>3 DEF SameTexts
    <3> QED
      BY <2>1, <3>1, <3>2, <3>3, <3>4
  <2>2. CASE f.key \notin Stems
    <3>1. bucket' = Stored(bucket, f) /\ bucket \in [Keys -> Buckets]
      BY <2>2 DEF OnSessionState, PageInv
    <3>2. /\ \A s \in Stems : SameTexts(bucket[s], bucket[s])
          /\ SameTexts(bucket[New], bucket[New])
      BY DEF SameTexts
    <3> QED
      BY <3>1, <3>2
  <2> QED
    BY <2>1, <2>2
<1>3. /\ bucket' \in [Keys -> Buckets]
      /\ \A j \in Keys : SameTexts(bucket'[j], moved[j]) /\ (j # f.key => bucket'[j] = moved[j])
      /\ bucket'[f.key].phase = f.phase
  BY <1>1, <1>2, StoredBuckets
<1>4. \A s \in Stems : HasState(bucket[s]) => SameTexts(bucket'[s], bucket[s])
  BY <1>2, <1>3, Names DEF SameTexts
<1>5. /\ SameTexts(moved[New], bucket[New]) => SameTexts(bucket'[New], bucket[New])
      /\ f.key \in Stems /\ SameTexts(moved[f.key], bucket[New]) => SameTexts(bucket'[f.key], bucket[New])
  BY <1>3, Names DEF SameTexts
<1> QED
  BY <1>1, <1>2, <1>3, <1>4, <1>5, Names

LEMMA ReceivedFrame ==
    ASSUME Wired, wire # <<>>, wire' = Tail(wire), online' = online
    PROVE  Head(wire) \in Frames /\ Wired' /\ online
<1>1. Head(wire) \in Frames /\ Tail(wire) \in Seq(Frames)
  BY DEF Wired
<1> QED
  BY <1>1 DEF Wired

LEMMA ReceivesPage == ASSUME PageInv, Receives PROVE PageInv'
<1>1. PICK f : f = Head(wire)
  OBVIOUS
<1>2. f \in Frames /\ Wired'
  BY <1>1, ReceivedFrame DEF Receives, PageInv
<1>3. UNCHANGED <<phase, asked, route, auto, bridgeUp>>
  BY DEF Receives, bridge
<1>4. ASSUME bucket' \in [Keys -> Buckets], {hash', key'} \subseteq Places,
             status' \in BOOLEAN \union {None}, missed' \subseteq Stems
      PROVE  PageInv'
  BY <1>2, <1>3, <1>4 DEF PageInv
<1>5. CASE f.type = "session_state" /\ OnSessionState(f)
  <2>1. f.key \in Stems \union {New} /\ bucket' \in [Keys -> Buckets]
    BY <1>2, <1>5, StateBuckets DEF StateFrames
  <2> QED
    BY <1>4, <1>5, <2>1 DEF OnSessionState, Hears, PageInv, Places
<1>6. CASE f.type = "result" /\ OnResult(f)
  <2>1. bucket' \in [Keys -> Buckets]
    BY <1>2, <1>6, ResultBuckets
  <2> QED
    BY <1>4, <1>6, <2>1 DEF OnResult, Hears, PageInv
<1>7. CASE f.type = "snapshot" /\ OnSnapshot(f)
  <2>1. bucket' \in [Keys -> Buckets]
    BY <1>2, <1>7, SnapshotBuckets
  <2> QED
    BY <1>4, <1>7, <2>1 DEF OnSnapshot, PageInv
<1>8. CASE f.type \in {"message_update", "message_end"} /\ OnEvent(f)
  <2>1. bucket' \in [Keys -> Buckets]
    BY <1>2, <1>8, EventBuckets
  <2> QED
    BY <1>4, <1>8, <2>1 DEF OnEvent, PageInv
<1>9. CASE f.type = "bridge_status" /\ OnBridgeStatus(f)
  <2>1. f.up \in BOOLEAN
    BY <1>2, <1>9, FrameKinds DEF StatusFrames
  <2> QED
    BY <1>4, <1>9, <2>1 DEF OnBridgeStatus, PageInv
<1> QED
  BY <1>1, <1>5, <1>6, <1>7, <1>8, <1>9 DEF Receives

(* Both queries of a ceremony name the session it is for, a stem.           *)
LEMMA StartsAsks ==
    ASSUME Inv, PageInv, NEW k, k = route, route # None, Starts(k)
    PROVE  asked' \subseteq asked \union [type : Ceremonies, of : {route} \intersect Stems,
                                          no : {gate'[route].no}]
           /\ asked' \subseteq Requests
<1>1. CASE gate[k].kind # "ceremony"
  BY <1>1 DEF Starts, PageInv
<1>2. CASE gate[k].kind = "ceremony"
  <2>1. k \in Stems
    BY <1>2 DEF Inv, PageInv, Places
  <2>2. gate'[k].no = gate[k].no + 1 /\ gate[k].no \in Nat
    <3>1. gate' = [gate EXCEPT ![k] = [ColdGate EXCEPT !.no = gate[k].no + 1, !.active = TRUE,
                                                       !.offline = (status = FALSE)]]
      BY <1>2 DEF Starts
    <3>2. k \in Keys /\ gate[k] \in Gates
      BY <2>1, Names DEF Inv
    <3> QED
      BY <3>1, <3>2 DEF Inv, Gates, ColdGate, Absent
  <2>3. asked' \subseteq asked \union {[type |-> t, of |-> k, no |-> gate[k].no + 1] : t \in Ceremonies}
    BY <1>2 DEF Starts, Ceremonies
  <2>4. \A t \in Ceremonies : [type |-> t, of |-> k, no |-> gate[k].no + 1] \in
            [type : Ceremonies, of : {route} \intersect Stems, no : {gate'[route].no}] \intersect Requests
    BY <2>1, <2>2 DEF Requests
  <2> QED
    BY <2>3, <2>4 DEF PageInv
<1> QED
  BY <1>1, <1>2

LEMMA PageStepPage == ASSUME Inv, PageInv, PageStep PROVE PageInv'
<1>1. CASE Receives
  BY <1>1, ReceivesPage
<1>2. CASE HashChange
  BY <1>2 DEF HashChange, bridge, PageInv, Wired, Places
<1>3. CASE AutoStarts
  <2>1. asked' \subseteq Requests
    BY <1>3, StartsAsks DEF AutoStarts
  <2> QED
    BY <1>3, <2>1 DEF AutoStarts, PageInv, Wired
<1>4. ASSUME DeferredFires \/ Timeouts
      PROVE  PageInv'
  BY <1>4 DEF DeferredFires, Timeouts, Timeout, bridge, PageInv, Wired
<1> QED
  BY <1>1, <1>2, <1>3, <1>4 DEF PageStep

LEMMA UserPage == ASSUME Inv, PageInv, User PROVE PageInv'
<1>1. CASE Retries
  <2>1. asked' \subseteq Requests
    BY <1>1, StartsAsks DEF Retries
  <2> QED
    BY <1>1, <2>1 DEF Retries, PageInv, Wired
<1>2. CASE Prompts
  BY <1>2 DEF Prompts, page, PageInv, Wired
<1>3. ASSUME NEW k \in Stems \union {New, None}, Clicks(k) PROVE PageInv'
  BY <1>3 DEF Clicks, bridge, PageInv, Wired, Places
<1> QED
  BY <1>1, <1>2, <1>3 DEF User

LEMMA PageInvStep == Inv /\ PageInv /\ [Next]_vars => PageInv'
<1> SUFFICES ASSUME Inv, PageInv, [Next]_vars PROVE PageInv'
  OBVIOUS
<1>1. CASE UNCHANGED vars
  BY <1>1 DEF vars, bridge, page, PageInv, Wired
<1> QED
  BY <1>1, BridgePage, NetworkPage, PageStepPage, UserPage DEF Next

LEMMA KeepsTexts ==
    ASSUME PageInv, [Next]_vars,
           Len(wire) > 0 /\ Head(wire).type = "session_state" /\ wire' = Tail(wire)
    PROVE  /\ \A s \in Stems : HasState(bucket[s]) => SameTexts(bucket'[s], bucket[s])
           /\ \/ SameTexts(bucket'[New], bucket[New])
              \/ LET s == Head(wire).key IN
                   s \in Stems /\ MovesEarly(s, key') /\ SameTexts(bucket'[s], bucket[New])
<1>1. CASE Receives
  <2>1. PICK f : f = Head(wire)
    OBVIOUS
  <2>2. f \in Frames /\ f.type = "session_state" /\ OnSessionState(f)
    <3>1. f \in Frames
      BY <1>1, <2>1, ReceivedFrame DEF Receives, PageInv
    <3> QED
      BY <1>1, <2>1, <3>1 DEF Receives
  <2> QED
    BY <2>1, <2>2, StateBuckets
<1>2. CASE ~Receives
  <2>1. UNCHANGED bucket
    BY <1>2 DEF Next, BridgeStep, Spawns, SpawnEnds, StartsTurn, Talks, EndsTurn, Migrates,
       Answers, OtherPrompts, Network, Breaks, Reconnects, BridgeBreaks, BridgeReturns,
       PageStep, HashChange, AutoStarts, DeferredFires, Timeouts, Timeout, User, Retries, Prompts, Clicks,
       page, vars
  <2> QED
    BY <2>1 DEF SameTexts
<1> QED
  BY <1>1, <1>2

-----------------------------------------------------------------------------
(* What the frames on their way say about the phase of a session: the last  *)
(* of them is right, and without any the page's bucket is.  Of a session    *)
(* whose phase may have been lost only what was sent since the bridge lost  *)
(* its connection counts; nothing is sent before that is over.              *)

Says(f, s) ==
    \/ f.type = "session_state" /\ f.key = s
    \/ f.type = "result" /\ f.of = s /\ f.ok
Supersedes(f, s, lost) == Says(f, s) \/ (s \in lost /\ f = BridgeDown)
Silent(w, s) == \A i \in 1 .. Len(w) : ~Says(w[i], s)
Tells(w, s, lost, p) ==
    \A i \in 1 .. Len(w) :
        Says(w[i], s) /\ (\A j \in 1 .. Len(w) : j > i => ~Supersedes(w[j], s, lost))
            => w[i].phase = p

Believed(s) ==
    /\ Tells(wire, s, missed, phase[s])
    /\ s \notin missed /\ Silent(wire, s) => bucket[s].phase \in {None, phase[s]}

Behind(w, i) == \E j \in 1 .. Len(w) : j > i /\ w[j] = BridgeDown
Severed ==
    ~bridgeUp => \A s \in Stems : \A i \in 1 .. Len(wire) :
                    Says(wire[i], s) => Behind(wire, i)

(* Nothing is said of the new session before its stem is announced.         *)
Unborn ==
    /\ hash # Fresh /\ route # Fresh
    /\ bucket[Fresh].phase = None
    /\ Silent(wire, Fresh)
    /\ \A r \in asked : r.of # Fresh

TruthInv ==
    /\ Inv /\ PageInv
    /\ \A s \in Stems : Believed(s)
    /\ Severed
    /\ pending => Unborn

LEMMA Nothing == \A s, lost, p : Silent(<<>>, s) /\ Tells(<<>>, s, lost, p)
  BY DEF Silent, Tells

(* Less counts of a session that may have been missed.                      *)
LEMMA TellsLess ==
    ASSUME NEW w, NEW s, NEW p, NEW old, NEW new, s \in old => s \in new,
           Tells(w, s, old, p)
    PROVE  Tells(w, s, new, p)
  BY DEF Tells, Supersedes

LEMMA NoNews ==
    ASSUME NEW w, NEW s, NEW p, NEW old, NEW new,
           \A i \in 1 .. Len(w) : w[i] # BridgeDown, Tells(w, s, old, p)
    PROVE  Tells(w, s, new, p)
  BY DEF Tells, Supersedes

LEMMA OneMore ==
    ASSUME NEW w \in Seq(Frames), NEW f \in Frames, NEW s, NEW lost, NEW p,
           Tells(w, s, lost, p)
    PROVE  /\ ~Says(f, s) => /\ Tells(Append(w, f), s, lost, p)
                             /\ Silent(Append(w, f), s) <=> Silent(w, s)
           /\ Says(f, s) => Tells(Append(w, f), s, lost, f.phase) /\ ~Silent(Append(w, f), s)
<1>1. /\ Len(Append(w, f)) = Len(w) + 1 /\ Len(w) \in Nat
      /\ \A i \in 1 .. Len(w) : Append(w, f)[i] = w[i]
      /\ Append(w, f)[Len(w) + 1] = f
  OBVIOUS
<1>2. CASE ~Says(f, s)
  <2>1. Silent(Append(w, f), s) <=> Silent(w, s)
    BY <1>1, <1>2 DEF Silent
  <2>2. ASSUME NEW i \in 1 .. Len(w) + 1, Says(Append(w, f)[i], s),
               \A j \in 1 .. Len(w) + 1 : j > i => ~Supersedes(Append(w, f)[j], s, lost)
        PROVE  Append(w, f)[i].phase = p
    <3>1. i \in 1 .. Len(w)
      BY <1>1, <1>2, <2>2
    <3>2. Says(w[i], s) /\ \A j \in 1 .. Len(w) : j > i => ~Supersedes(w[j], s, lost)
      BY <1>1, <2>2, <3>1
    <3> QED
      BY <1>1, <3>1, <3>2 DEF Tells
  <2> QED
    BY <1>1, <1>2, <2>1, <2>2 DEF Tells
<1>3. CASE Says(f, s)
  <2>1. ~Silent(Append(w, f), s)
    BY <1>1, <1>3 DEF Silent
  <2>2. ASSUME NEW i \in 1 .. Len(w) + 1,
               \A j \in 1 .. Len(w) + 1 : j > i => ~Supersedes(Append(w, f)[j], s, lost)
        PROVE  Append(w, f)[i].phase = f.phase
    BY <1>1, <1>3, <2>2 DEF Supersedes
  <2> QED
    BY <1>1, <1>3, <2>1, <2>2 DEF Tells
<1> QED
  BY <1>2, <1>3

LEMMA OneLess ==
    ASSUME NEW w \in Seq(Frames), w # <<>>, NEW s, NEW lost, NEW p,
           Tells(w, s, lost, p)
    PROVE  /\ Tells(Tail(w), s, lost, p)
           /\ Silent(w, s) => Silent(Tail(w), s)
           /\ Silent(Tail(w), s) /\ Says(Head(w), s)
                /\ (s \in lost => \A i \in 1 .. Len(w) : w[i] # BridgeDown) => Head(w).phase = p
           /\ Silent(Tail(w), s) /\ ~Says(Head(w), s) => Silent(w, s)
<1>1. /\ Len(w) \in Nat /\ Len(w) >= 1 /\ Len(Tail(w)) = Len(w) - 1 /\ Head(w) = w[1]
      /\ \A i \in 1 .. Len(w) - 1 : Tail(w)[i] = w[i + 1]
  OBVIOUS
<1>2. \A j \in 2 .. Len(w) : w[j] = Tail(w)[j - 1] /\ j - 1 \in 1 .. Len(w) - 1
  BY <1>1
<1>3. Tells(Tail(w), s, lost, p)
  <2>1. ASSUME NEW i \in 1 .. Len(w) - 1, Says(Tail(w)[i], s),
               \A j \in 1 .. Len(w) - 1 : j > i => ~Supersedes(Tail(w)[j], s, lost)
        PROVE  Tail(w)[i].phase = p
    <3>1. i + 1 \in 1 .. Len(w) /\ Tail(w)[i] = w[i + 1]
      BY <1>1
    <3>2. ASSUME NEW j \in 1 .. Len(w), j > i + 1 PROVE ~Supersedes(w[j], s, lost)
      <4>1. j \in 2 .. Len(w) /\ j - 1 > i
        BY <1>1, <3>2
      <4> QED
        BY <1>2, <2>1, <4>1
    <3> QED
      BY <2>1, <3>1, <3>2 DEF Tells
  <2> QED
    BY <1>1, <2>1 DEF Tells
<1>4. Silent(w, s) => Silent(Tail(w), s)
  BY <1>1 DEF Silent
<1>5. ASSUME Silent(Tail(w), s) PROVE \A j \in 1 .. Len(w) : j > 1 => ~Says(w[j], s)
  <2> SUFFICES ASSUME NEW j \in 1 .. Len(w), j > 1 PROVE ~Says(w[j], s)
    OBVIOUS
  <2>1. j \in 2 .. Len(w)
    BY <1>1
  <2> QED
    BY <1>1, <1>2, <1>5, <2>1 DEF Silent
<1>6. Silent(Tail(w), s) /\ Says(Head(w), s)
        /\ (s \in lost => \A i \in 1 .. Len(w) : w[i] # BridgeDown) => Head(w).phase = p
  BY <1>1, <1>5 DEF Tells, Supersedes
<1>7. Silent(Tail(w), s) /\ ~Says(Head(w), s) => Silent(w, s)
  <2> SUFFICES ASSUME Silent(Tail(w), s), ~Says(Head(w), s), NEW i \in 1 .. Len(w)
               PROVE  ~Says(w[i], s)
    BY DEF Silent
  <2> QED
    BY <1>1, <1>5
<1> QED
  BY <1>3, <1>4, <1>6, <1>7

LEMMA TruthInit == Init => TruthInv
<1> SUFFICES ASSUME Init PROVE TruthInv
  OBVIOUS
<1>1. Inv /\ PageInv
  BY InitInv, PageInit
<1>2. \A s, lost, p : Silent(wire, s) /\ Tells(wire, s, lost, p)
  BY DEF Init, Silent, Tells, Says
<1>3. \A s \in Stems : bucket[s].phase = None
  BY Names DEF Init, EmptyBucket
<1>4. hash # Fresh /\ route # Fresh /\ asked = {}
  BY Names DEF Init
<1>5. Severed
  BY DEF Init, Severed
<1> QED
  BY <1>1, <1>2, <1>3, <1>4, <1>5, Names DEF TruthInv, Believed, Unborn

(* PhaseTruthful follows: a frame that says something of s is of s.         *)
LEMMA TruthImplies == TruthInv => PhaseTruthful
<1> SUFFICES ASSUME TruthInv, NEW s \in Stems \ missed, bucket[s].phase # None,
                    \A i \in 1 .. Len(wire) :
                        wire[i].type \in {"session_state", "result"} => wire[i].of # s
             PROVE  bucket[s].phase = phase[s]
  BY DEF PhaseTruthful
<1>1. ASSUME NEW i \in 1 .. Len(wire) PROVE ~Says(wire[i], s)
  <2>1. wire[i] \in Frames
    BY DEF TruthInv, PageInv, Wired
  <2>2. wire[i].type = "session_state" => wire[i].key # s
    <3>1. wire[i].type = "session_state" => wire[i] \in StateFrames
      BY <2>1, FrameKinds
    <3> QED
      BY <3>1, Names DEF StateFrames
  <2> QED
    BY <2>2 DEF Says
<1>2. Silent(wire, s)
  BY <1>1 DEF Silent
<1> QED
  BY <1>2 DEF TruthInv, Believed

Kept == UNCHANGED <<bucket, hash, route>> /\ asked' \subseteq asked
Truth == (\A u \in Stems : Believed(u)) /\ (pending => Unborn)

(* A frame that says nothing of a phase.                                    *)
LEMMA QuietTruth ==
    ASSUME TruthInv, Kept, UNCHANGED phase, missed \subseteq missed', pending' => pending,
           NEW f \in Frames, \A u \in Stems : ~Says(f, u),
           wire' = wire \/ wire' = Append(wire, f)
    PROVE  Truth'
<1>1. wire \in Seq(Frames)
  BY DEF TruthInv, PageInv, Wired
<1>2. \A u \in Stems : /\ Tells(wire', u, missed, phase[u])
                       /\ Silent(wire', u) <=> Silent(wire, u)
  BY <1>1, OneMore DEF TruthInv, Believed
<1>3. \A u \in Stems : Tells(wire', u, missed', phase[u])
  BY <1>2, TellsLess
<1>4. \A u \in Stems : Believed(u)'
  BY <1>2, <1>3 DEF TruthInv, Believed, Kept
<1>5. pending' => Unborn'
  BY <1>2, Names DEF TruthInv, Unborn, Kept
<1> QED
  BY <1>4, <1>5 DEF Truth

(* A session's phase becomes p and a frame f tells it, after frames that do *)
(* not; the page does not see it when it or the bridge is offline, or when  *)
(* f is still of session=new.                                               *)
LEMMA SpokenTruth ==
    ASSUME TruthInv, Kept, NEW s \in Stems, NEW p, phase' = [phase EXCEPT ![s] = p],
           NEW w \in Seq(Frames), NEW f \in Frames,
           \A u \in Stems : Tells(w, u, missed, phase[u]) /\ (Silent(w, u) <=> Silent(wire, u)),
           wire' = IF online /\ bridgeUp THEN Append(w, f) ELSE wire,
           missed \subseteq missed', (online /\ bridgeUp) \/ s \in missed' \/ p = phase[s],
           \A u \in Stems : u # s => ~Says(f, u),
           IF pending /\ s = Fresh /\ pending' THEN ~Says(f, s) ELSE Says(f, s) /\ f.phase = p,
           pending' => pending
    PROVE  Truth'
<1>1. \A u \in Stems : phase'[u] = IF u = s THEN p ELSE phase[u]
  BY DEF TruthInv, PageInv
<1>2. wire \in Seq(Frames) /\ (~online => wire = <<>>)
  BY DEF TruthInv, PageInv, Wired
<1>3. ASSUME NEW u \in Stems, u # s PROVE Believed(u)'
  <2>1. Tells(wire', u, missed, phase[u]) /\ (Silent(wire', u) <=> Silent(wire, u))
    BY <1>2, <1>3, OneMore DEF TruthInv, Believed
  <2>2. Tells(wire', u, missed', phase[u])
    BY <2>1, TellsLess
  <2> QED
    BY <1>1, <1>3, <2>1, <2>2 DEF TruthInv, Believed, Kept
<1>4. pending' /\ s = Fresh => Silent(wire', s) /\ \A lost : Tells(wire', s, lost, p)
  <2> SUFFICES ASSUME pending', s = Fresh
               PROVE  Silent(wire', s) /\ \A lost : Tells(wire', s, lost, p)
    OBVIOUS
  <2>1. Silent(wire', s)
    BY <1>2, OneMore DEF TruthInv, Unborn
  <2> QED
    BY <2>1 DEF Silent, Tells
<1>5. Believed(s)'
  <2>1. CASE pending' /\ s = Fresh
    BY <1>1, <1>4, <2>1 DEF TruthInv, Unborn, Believed, Kept
  <2>2. CASE online /\ bridgeUp /\ ~(pending' /\ s = Fresh)
    <3>1. Tells(wire', s, missed, p) /\ ~Silent(wire', s)
      BY <2>2, OneMore
    <3>2. Tells(wire', s, missed', p)
      BY <3>1, TellsLess
    <3> QED
      BY <1>1, <3>1, <3>2 DEF Believed
  <2>3. CASE ~(online /\ bridgeUp) /\ p = phase[s]
    <3>1. UNCHANGED wire /\ Tells(wire, s, missed, p)
      BY <2>3 DEF TruthInv, Believed
    <3>2. Tells(wire', s, missed', p)
      BY <3>1, TellsLess
    <3> QED
      BY <1>1, <2>3, <3>1, <3>2 DEF TruthInv, Believed, Kept
  <2>4. CASE ~(online /\ bridgeUp) /\ s \in missed'
    <3>1. Tells(wire, s, missed', p)
      <4>1. CASE ~online
        BY <1>2, <4>1, Nothing
      <4>2. CASE ~bridgeUp
        BY <2>4, <4>2 DEF TruthInv, Severed, Behind, Tells, Supersedes
      <4> QED
        BY <2>4, <4>1, <4>2
    <3>2. Tells(wire', s, missed', p)
      BY <2>4, <3>1
    <3> QED
      BY <1>1, <2>4, <3>2 DEF Believed
  <2> QED
    BY <2>1, <2>2, <2>3, <2>4
<1>6. pending' => Silent(wire', Fresh)
  <2>1. CASE s # Fresh
    BY <1>2, <2>1, OneMore, Names DEF TruthInv, Unborn, Believed
  <2> QED
    BY <1>4, <2>1
<1>7. pending' => Unborn'
  BY <1>6 DEF TruthInv, Unborn, Kept
<1> QED
  BY <1>3, <1>5, <1>7 DEF Truth

LEMMA WireAsIs ==
    ASSUME TruthInv
    PROVE  /\ wire \in Seq(Frames)
           /\ \A u \in Stems : Tells(wire, u, missed, phase[u]) /\ (Silent(wire, u) <=> Silent(wire, u))
  BY DEF TruthInv, PageInv, Wired, Believed

LEMMA DeliveredWire ==
    ASSUME wire \in Seq(Frames), NEW f \in Frames, Delivers(<<f>>)
    PROVE  wire' = IF online THEN Append(wire, f) ELSE wire
<1>1. wire \o <<f>> = Append(wire, f)
  OBVIOUS
<1> QED
  BY <1>1 DEF Delivers

LEMMA SentWire ==
    ASSUME wire \in Seq(Frames), NEW f \in Frames, Sends(<<f>>)
    PROVE  wire' = IF online /\ bridgeUp THEN Append(wire, f) ELSE wire
  BY DeliveredWire DEF Sends

LEMMA StateSays ==
    ASSUME NEW s \in Stems, NEW p \in Phases
    PROVE  /\ StateFrame(s, WireKey(s), p) \in Frames
           /\ StateFrame(s, WireKey(s), p).phase = p
           /\ \A u \in Stems : Says(StateFrame(s, WireKey(s), p), u) <=>
                                  u = s /\ ~(s = Fresh /\ pending)
  BY Names DEF StateFrame, WireKey, Frames, StateFrames, Says

LEMMA MovesTruth ==
    ASSUME TruthInv, Kept, UNCHANGED <<pending>>, NEW s \in Stems, NEW p \in Phases, Moves(s, p)
    PROVE  Truth'
<1>1. PICK f : f = StateFrame(s, WireKey(s), p)
  OBVIOUS
<1>2. /\ f \in Frames /\ f.phase = p
      /\ \A u \in Stems : Says(f, u) <=> u = s /\ ~(s = Fresh /\ pending)
  BY <1>1, StateSays
<1>3. wire' = IF online /\ bridgeUp THEN Append(wire, f) ELSE wire
  BY <1>1, <1>2, WireAsIs, SentWire DEF Moves
<1>4. missed \subseteq missed' /\ ((online /\ bridgeUp) \/ s \in missed') /\ phase' = [phase EXCEPT ![s] = p]
  BY DEF Moves, Misses
<1> QED
  BY <1>2, <1>3, <1>4, WireAsIs, SpokenTruth

LEMMA EndsTurnTruth ==
    ASSUME TruthInv, NEW s \in Stems, EndsTurn(s) PROVE Truth'
<1>1. PICK e, f, w, p : /\ e = EventFrame(s, "message_end") /\ f = StateFrame(s, WireKey(s), "idle")
                        /\ w = Append(wire, e) /\ p = "idle"
  OBVIOUS
<1>2. /\ f \in Frames /\ f.phase = p
      /\ \A u \in Stems : Says(f, u) <=> u = s /\ ~(s = Fresh /\ pending)
  BY <1>1, StateSays DEF Phases
<1>3. e \in Frames /\ \A u \in Stems : ~Says(e, u)
  BY <1>1 DEF EventFrame, Frames, EventFrames, Says
<1>4. /\ w \in Seq(Frames)
      /\ \A u \in Stems : Tells(w, u, missed, phase[u]) /\ (Silent(w, u) <=> Silent(wire, u))
  BY <1>1, <1>3, WireAsIs, OneMore
<1>5. wire' = IF online /\ bridgeUp THEN Append(w, f) ELSE wire
  <2>1. wire \o <<e, f>> = Append(w, f)
    BY <1>1, <1>2, <1>3, WireAsIs
  <2> QED
    BY <1>1, <2>1 DEF EndsTurn, Sends, Delivers
<1>6. /\ missed \subseteq missed' /\ ((online /\ bridgeUp) \/ s \in missed') /\ phase' = [phase EXCEPT ![s] = p]
      /\ Kept /\ UNCHANGED <<pending>>
  BY <1>1 DEF EndsTurn, Misses, Kept, page
<1> QED
  BY <1>2, <1>4, <1>5, <1>6, SpokenTruth

LEMMA MigratesTruth == ASSUME TruthInv, Migrates PROVE Truth'
<1>1. PICK f, p : f = StateFrame(Fresh, Fresh, p) /\ p = phase[Fresh]
  OBVIOUS
<1>2. /\ f \in Frames /\ f.phase = p
      /\ \A u \in Stems : Says(f, u) <=> u = Fresh
  BY <1>1, Names DEF StateFrame, Frames, StateFrames, Says, TruthInv, PageInv
<1>3. wire' = IF online /\ bridgeUp THEN Append(wire, f) ELSE wire
  BY <1>1, <1>2, WireAsIs, SentWire DEF Migrates
<1>4. /\ missed \subseteq missed' /\ phase' = [phase EXCEPT ![Fresh] = p]
      /\ Kept /\ ~pending'
  BY <1>1 DEF Migrates, Misses, Kept, page, TruthInv, PageInv
<1> QED
  BY <1>1, <1>2, <1>3, <1>4, WireAsIs, SpokenTruth, Names

LEMMA AnswersTruth == ASSUME TruthInv, NEW r \in asked, Answers(r) PROVE Truth'
<1>1. r \in Requests /\ UNCHANGED <<phase, pending, missed>> /\ Kept
      /\ r.of \in Stems
  BY DEF TruthInv, PageInv, Answers, Kept, page, Requests
<1>2. CASE r.type = "get_messages"
  <2>1. PICK f : f = [type |-> "snapshot", of |-> r.of, no |-> r.no, msgs |-> {r.of} \intersect history]
    OBVIOUS
  <2>2. f \in Frames /\ \A u \in Stems : ~Says(f, u)
    BY <1>1, <2>1 DEF Frames, SnapshotFrames, Requests, Says
  <2>3. wire' = IF online /\ bridgeUp THEN Append(wire, f) ELSE wire
    BY <1>2, <2>1, <2>2, WireAsIs, SentWire DEF Answers
  <2> QED
    BY <1>1, <2>2, <2>3, QuietTruth
<1>3. CASE r.type # "get_messages"
  <2>1. PICK f : f = [type |-> "result", of |-> r.of, no |-> r.no, ok |-> phase[r.of] # "exited",
                      phase |-> phase[r.of]]
    OBVIOUS
  <2>2. f \in Frames /\ \A u \in Stems : Says(f, u) <=> u = r.of /\ phase[r.of] # "exited"
    BY <1>1, <2>1 DEF Frames, ResultFrames, Requests, Says, TruthInv, PageInv
  <2>3. wire' = IF online /\ bridgeUp THEN Append(wire, f) ELSE wire
    BY <1>3, <2>1, <2>2, WireAsIs, SentWire DEF Answers
  <2>4. CASE phase[r.of] = "exited"
    BY <1>1, <2>2, <2>3, <2>4, QuietTruth
  <2>5. CASE phase[r.of] # "exited"
    <3>1. PICK s, p : s = r.of /\ p = phase[s]
      OBVIOUS
    <3>2. s \in Stems /\ phase' = [phase EXCEPT ![s] = p] /\ (pending => s # Fresh)
      BY <1>1, <3>1 DEF TruthInv, PageInv, Unborn
    <3>3. f.phase = p /\ \A u \in Stems : Says(f, u) <=> u = s
      BY <2>1, <2>2, <2>5, <3>1
    <3> QED
      BY <1>1, <2>2, <2>3, <3>1, <3>2, <3>3, WireAsIs, SpokenTruth
  <2> QED
    BY <2>4, <2>5
<1> QED
  BY <1>2, <1>3

LEMMA BridgeTruth == ASSUME TruthInv, BridgeStep PROVE Truth'
<1>1. ASSUME NEW s \in Stems, Spawns(s) \/ SpawnEnds(s) \/ StartsTurn(s) PROVE Truth'
  <2>1. Kept /\ UNCHANGED <<pending>>
    BY <1>1 DEF Spawns, SpawnEnds, StartsTurn, Kept, page
  <2>2. \E p \in Phases : Moves(s, p)
    BY <1>1 DEF Spawns, SpawnEnds, StartsTurn, Phases
  <2> QED
    BY <2>1, <2>2, MovesTruth
<1>2. ASSUME NEW s \in Stems, Talks(s) PROVE Truth'
  <2>1. PICK f : f = EventFrame(s, "message_update")
    OBVIOUS
  <2>2. f \in Frames /\ \A u \in Stems : ~Says(f, u)
    BY <2>1 DEF EventFrame, Frames, EventFrames, Says
  <2>3. wire' = IF online /\ bridgeUp THEN Append(wire, f) ELSE wire
    BY <1>2, <2>1, <2>2, WireAsIs, SentWire DEF Talks
  <2>4. Kept /\ UNCHANGED <<phase, pending, missed>>
    BY <1>2 DEF Talks, Kept, page
  <2> QED
    BY <2>2, <2>3, <2>4, QuietTruth
<1>3. ASSUME NEW s \in Old, OtherPrompts(s) PROVE Truth'
  <2>1. UNCHANGED wire /\ Kept /\ UNCHANGED <<phase, pending, missed>>
    BY <1>3 DEF OtherPrompts, Kept, page
  <2> QED
    BY <2>1 DEF TruthInv, Truth, Believed, Unborn, Kept
<1> QED
  BY <1>1, <1>2, <1>3, EndsTurnTruth, MigratesTruth, AnswersTruth DEF BridgeStep

LEMMA StatusSaysNothing ==
    ASSUME NEW up \in BOOLEAN, NEW f, f = [type |-> "bridge_status", up |-> up]
    PROVE  f \in Frames /\ \A u \in Stems : ~Says(f, u)
  BY DEF Frames, StatusFrames, Says

LEMMA NetworkTruth == ASSUME TruthInv, Network PROVE Truth'
<1>1. UNCHANGED <<phase, pending>> /\ Kept
  BY DEF Network, Breaks, Reconnects, BridgeBreaks, BridgeReturns, bridge, page, Kept
<1>2. CASE Breaks
  <2>1. ASSUME NEW s \in Stems, s \notin missed' PROVE Silent(wire, s)
    <3> SUFFICES ASSUME NEW i \in 1 .. Len(wire) PROVE ~Says(wire[i], s)
      BY DEF Silent
    <3>1. wire[i] \in Frames
      BY DEF TruthInv, PageInv, Wired
    <3>2. Says(wire[i], s) => wire[i].of = s /\ wire[i].type # "bridge_status"
      <4>1. wire[i].type = "session_state" => wire[i] \in StateFrames
        BY <3>1, FrameKinds
      <4> QED
        BY <4>1, Names DEF Says, StateFrames
    <3>3. wire[i].type # "bridge_status" => wire[i].of \in Known
      BY DEF Known
    <3> QED
      BY <1>2, <2>1, <3>2, <3>3 DEF Breaks
  <2>2. wire' = <<>> /\ missed \subseteq missed'
    BY <1>2 DEF Breaks
  <2>3. \A s, lost, p : Silent(wire', s) /\ Tells(wire', s, lost, p)
    BY <2>2, Nothing
  <2>4. \A s \in Stems : Believed(s)'
    BY <1>1, <2>1, <2>2, <2>3 DEF TruthInv, Believed, Kept
  <2> QED
    BY <1>1, <2>3, <2>4 DEF TruthInv, Unborn, Kept, Truth
<1>3. CASE Reconnects
  <2>1. PICK f : f = [type |-> "bridge_status", up |-> bridgeUp]
    OBVIOUS
  <2>2. f \in Frames /\ \A u \in Stems : ~Says(f, u)
    BY <2>1, StatusSaysNothing DEF TruthInv, PageInv
  <2>3. wire' = Append(wire, f) /\ UNCHANGED missed
    BY <1>3, <2>1 DEF Reconnects, TruthInv, PageInv, Wired
  <2> QED
    BY <1>1, <2>2, <2>3, QuietTruth
<1>4. CASE BridgeBreaks \/ BridgeReturns
  <2>1. PICK f, up : up = bridgeUp' /\ f = [type |-> "bridge_status", up |-> up]
    OBVIOUS
  <2>2. f \in Frames /\ \A u \in Stems : ~Says(f, u)
    BY <1>4, <2>1, StatusSaysNothing DEF BridgeBreaks, BridgeReturns
  <2>3. Delivers(<<f>>)
    BY <1>4, <2>1 DEF BridgeBreaks, BridgeReturns, BridgeDown
  <2>4. (wire' = wire \/ wire' = Append(wire, f)) /\ UNCHANGED missed
    BY <1>4, <2>2, <2>3, WireAsIs, DeliveredWire DEF BridgeBreaks, BridgeReturns
  <2> QED
    BY <1>1, <2>2, <2>4, QuietTruth
<1> QED
  BY <1>2, <1>3, <1>4 DEF Network

(* A frame arrives that says something of session k at most.                *)
LEMMA HeardTruth ==
    ASSUME TruthInv, wire # <<>>, wire' = Tail(wire), UNCHANGED <<phase, route, asked, pending>>,
           NEW f, f = Head(wire), NEW gone, Hears(gone),
           \A s \in Stems : s \in gone => Says(f, s),
           \A s \in Stems : bucket'[s].phase = IF Says(f, s) THEN f.phase ELSE bucket[s].phase,
           pending => hash' # Fresh \/ Says(f, Fresh)
    PROVE  Truth'
<1>1. wire \in Seq(Frames)
  BY DEF TruthInv, PageInv, Wired
<1>2. ASSUME NEW s \in Stems
      PROVE  /\ Tells(wire', s, missed, phase[s])
             /\ Silent(wire, s) => Silent(wire', s)
             /\ Silent(wire', s) /\ Says(f, s) /\ (s \in missed => ~Outdated) => f.phase = phase[s]
             /\ Silent(wire', s) /\ ~Says(f, s) => Silent(wire, s)
  BY <1>1, OneLess DEF TruthInv, Believed, Outdated
<1>3. ASSUME NEW s \in Stems PROVE Believed(s)'
  <2>1. CASE s \notin missed
    <3>1. s \notin missed'
      BY <2>1 DEF Hears
    <3> QED
      BY <1>2, <2>1, <3>1, TellsLess DEF TruthInv, Believed
  <2>2. CASE s \in missed /\ s \in missed'
    BY <1>2, <2>2, TellsLess DEF TruthInv, Believed
  <2>3. CASE s \in missed /\ s \notin missed'
    <3>1. ~Outdated /\ Says(f, s)
      BY <2>3 DEF Hears
    <3>2. \A i \in 1 .. Len(wire') : wire'[i] # BridgeDown
      BY <1>1, <3>1 DEF Outdated
    <3>3. Tells(wire', s, missed', phase[s])
      BY <1>2, <3>2, NoNews
    <3>4. Silent(wire', s) => f.phase = phase[s]
      BY <1>2, <3>1
    <3> QED
      BY <2>3, <3>1, <3>3, <3>4 DEF Believed
  <2> QED
    BY <2>1, <2>2, <2>3
<1>4. pending => ~Says(f, Fresh)
  <2>1. Head(wire) = wire[1] /\ 1 \in 1 .. Len(wire)
    BY <1>1
  <2> QED
    BY <2>1 DEF TruthInv, Unborn, Silent
<1>5. pending' => Unborn'
  BY <1>2, <1>4, Names DEF TruthInv, Unborn
<1> QED
  BY <1>3, <1>5 DEF Truth

LEMMA ReceivesTruth == ASSUME TruthInv, Receives PROVE Truth'
<1>1. PICK f : f = Head(wire)
  OBVIOUS
<1>2. /\ f \in Frames /\ PageInv
      /\ wire # <<>> /\ wire' = Tail(wire) /\ UNCHANGED <<phase, route, asked, pending>>
  BY <1>1, ReceivedFrame DEF Receives, TruthInv, PageInv, bridge
<1>3. CASE f.type = "session_state" /\ OnSessionState(f)
  <2>1. /\ f.key \in Stems \union {New}
        /\ bucket'[f.key].phase = f.phase
        /\ \A s \in Stems : s # f.key => bucket'[s].phase = bucket[s].phase
    BY <1>2, <1>3, StateBuckets DEF StateFrames
  <2>2. \A s : Says(f, s) <=> s = f.key
    BY <1>3 DEF Says
  <2>3. PICK gone : gone = {f.key} \intersect Stems
    OBVIOUS
  <2>4. /\ Hears(gone) /\ \A s \in Stems : s \in gone => Says(f, s)
        /\ \A s \in Stems : bucket'[s].phase = IF Says(f, s) THEN f.phase ELSE bucket[s].phase
    BY <1>3, <2>1, <2>2, <2>3 DEF OnSessionState
  <2>5. pending => hash' # Fresh \/ Says(f, Fresh)
    BY <1>3, <2>2 DEF OnSessionState, TruthInv, Unborn
  <2> QED
    BY <1>1, <1>2, <2>4, <2>5, HeardTruth
<1>4. CASE f.type # "session_state"
  <2>1. \A s : Says(f, s) <=> f.type = "result" /\ f.of = s /\ f.ok
    BY <1>4 DEF Says
  <2>2. pending => hash' # Fresh \/ Says(f, Fresh)
    BY <1>1, <1>4 DEF Receives, OnResult, OnSnapshot, OnEvent, OnBridgeStatus, TruthInv, Unborn
  <2>3. PICK gone : gone = IF f.type = "result" /\ f.ok THEN {f.of} ELSE {}
    OBVIOUS
  <2>4. Hears(gone) /\ \A s \in Stems : s \in gone => Says(f, s)
    <3>1. CASE f.type = "result" /\ f.ok
      BY <1>1, <2>1, <2>3, <3>1 DEF Receives, OnResult
    <3>2. CASE ~(f.type = "result" /\ f.ok)
      <4>1. UNCHANGED missed /\ gone = {}
        BY <1>1, <1>4, <2>3, <3>2 DEF Receives, OnResult, OnSnapshot, OnEvent, OnBridgeStatus
      <4> QED
        BY <4>1 DEF Hears
    <3> QED
      BY <3>1, <3>2
  <2>5. \A s \in Stems : bucket'[s].phase = IF Says(f, s) THEN f.phase ELSE bucket[s].phase
    <3>1. CASE f.type = "result" /\ OnResult(f)
      <4>1. \A j \in Keys : bucket'[j].phase = IF f.ok /\ j = f.of THEN f.phase ELSE bucket[j].phase
        BY <1>2, <3>1, ResultBuckets
      <4> QED
        BY <2>1, <3>1, <4>1, Names
    <3>2. CASE f.type = "snapshot" /\ OnSnapshot(f)
      <4>1. \A j \in Keys : bucket'[j].phase = bucket[j].phase
        BY <1>2, <3>2, SnapshotBuckets
      <4> QED
        BY <2>1, <3>2, <4>1, Names
    <3>3. CASE f.type \in {"message_update", "message_end"} /\ OnEvent(f)
      <4>1. \A j \in Keys : bucket'[j].phase = bucket[j].phase
        BY <1>2, <3>3, EventBuckets
      <4> QED
        BY <2>1, <3>3, <4>1, Names
    <3>4. CASE f.type = "bridge_status" /\ OnBridgeStatus(f)
      BY <2>1, <3>4 DEF OnBridgeStatus
    <3> QED
      BY <1>1, <1>4, <3>1, <3>2, <3>3, <3>4 DEF Receives
  <2> QED
    BY <1>1, <1>2, <2>2, <2>4, <2>5, HeardTruth
<1> QED
  BY <1>1, <1>3, <1>4 DEF Receives

LEMMA ActsTruth ==
    ASSUME TruthInv, UNCHANGED <<wire, phase, bucket, missed, pending>>,
           pending => hash' # Fresh /\ route' # Fresh,
           \A r \in asked' : r \in asked \/ r.of = route
    PROVE  Truth'
  BY DEF TruthInv, Truth, Believed, Unborn

LEMMA PageStepTruth == ASSUME TruthInv, PageStep PROVE Truth'
<1>1. CASE HashChange
  BY <1>1, ActsTruth DEF HashChange, bridge, TruthInv, Unborn
<1>2. CASE AutoStarts
  <2>1. \A r \in asked' : r \in asked \/ r.of = route
    BY <1>2, StartsAsks DEF AutoStarts, TruthInv
  <2> QED
    BY <1>2, <2>1, ActsTruth DEF AutoStarts, TruthInv, Unborn
<1>3. ASSUME DeferredFires \/ Timeouts
      PROVE  Truth'
  BY <1>3, ActsTruth DEF DeferredFires, Timeouts, Timeout, bridge, TruthInv, Unborn
<1> QED
  BY <1>1, <1>2, <1>3, ReceivesTruth DEF PageStep

LEMMA UserTruth == ASSUME TruthInv, User PROVE Truth'
<1>1. CASE Retries
  <2>1. \A r \in asked' : r \in asked \/ r.of = route
    BY <1>1, StartsAsks DEF Retries, TruthInv
  <2> QED
    BY <1>1, <2>1, ActsTruth DEF Retries, TruthInv, Unborn
<1>2. CASE Prompts
  BY <1>2, ActsTruth DEF Prompts, page, TruthInv, Unborn
<1>3. ASSUME NEW k \in Stems \union {New, None}, Clicks(k) PROVE Truth'
  BY <1>3, ActsTruth DEF Clicks, bridge, TruthInv, Unborn
<1> QED
  BY <1>1, <1>2, <1>3 DEF User

(* Without its connection the bridge sends nothing, so the news of that     *)
(* stays behind all it has sent.                                            *)
LEMMA SeveredStep == ASSUME TruthInv, [Next]_vars PROVE Severed'
<1>1. wire \in Seq(Frames) /\ (~online => wire = <<>>)
  BY DEF TruthInv, PageInv, Wired
<1>2. CASE BridgeStep \/ User \/ HashChange \/ AutoStarts \/ DeferredFires \/ Timeouts \/ UNCHANGED vars
  <2>1. bridgeUp' = bridgeUp /\ (~bridgeUp => wire' = wire)
    BY <1>2 DEF BridgeStep, Spawns, SpawnEnds, StartsTurn, Moves, Talks, EndsTurn, Migrates,
       Answers, OtherPrompts, Sends, User, Retries, Prompts, Clicks, HashChange, AutoStarts,
       DeferredFires, Timeouts, Timeout, bridge, vars
  <2> QED
    BY <2>1 DEF TruthInv, Severed
<1>3. CASE Receives
  <2>1. wire # <<>> /\ wire' = Tail(wire) /\ UNCHANGED bridgeUp
    BY <1>3 DEF Receives, bridge
  <2>2. /\ Len(wire) \in Nat /\ Len(wire') = Len(wire) - 1
        /\ \A i \in 1 .. Len(wire) - 1 : wire'[i] = wire[i + 1]
    BY <1>1, <2>1
  <2>3. ASSUME NEW i \in 1 .. Len(wire'), Behind(wire, i + 1) PROVE Behind(wire', i)
    <3>1. PICK j \in 1 .. Len(wire) : j > i + 1 /\ wire[j] = BridgeDown
      BY <2>3 DEF Behind
    <3>2. j - 1 \in 1 .. Len(wire') /\ j - 1 > i /\ wire'[j - 1] = wire[j]
      BY <2>2, <3>1
    <3> QED
      BY <3>1, <3>2 DEF Behind
  <2>4. \A i \in 1 .. Len(wire') : i + 1 \in 1 .. Len(wire) /\ wire'[i] = wire[i + 1]
    BY <2>2
  <2> QED
    BY <2>1, <2>3, <2>4 DEF TruthInv, Severed
<1>4. CASE Breaks
  <2>1. wire' = <<>>
    BY <1>4 DEF Breaks
  <2> QED
    BY <2>1 DEF Severed
<1>5. CASE Reconnects
  <2>1. Len(wire') = 1 /\ wire'[1].type = "bridge_status"
    BY <1>5 DEF Reconnects
  <2> QED
    BY <2>1 DEF Severed, Says
<1>6. CASE BridgeBreaks
  <2>1. wire' = IF online THEN Append(wire, BridgeDown) ELSE wire
    BY <1>1, <1>6, StatusSaysNothing, DeliveredWire DEF BridgeBreaks, BridgeDown
  <2>2. CASE online
    <3>1. /\ Len(wire) \in Nat /\ Len(wire') = Len(wire) + 1
          /\ wire'[Len(wire) + 1] = BridgeDown
      BY <1>1, <2>1, <2>2
    <3>2. \A s : ~Says(BridgeDown, s)
      BY DEF BridgeDown, Says
    <3>3. ASSUME NEW i \in 1 .. Len(wire'), i # Len(wire) + 1 PROVE Behind(wire', i)
      BY <3>1, <3>3 DEF Behind
    <3> QED
      BY <3>1, <3>2, <3>3 DEF Severed
  <2>3. CASE ~online
    BY <1>1, <2>1, <2>3 DEF Severed
  <2> QED
    BY <2>2, <2>3
<1>7. CASE BridgeReturns
  BY <1>7 DEF BridgeReturns, Severed
<1> QED
  BY <1>2, <1>3, <1>4, <1>5, <1>6, <1>7 DEF Next, Network, PageStep

LEMMA TruthStep == TruthInv /\ [Next]_vars => TruthInv'
<1> SUFFICES ASSUME TruthInv, [Next]_vars PROVE TruthInv'
  OBVIOUS
<1>1. Inv' /\ PageInv'
  BY StepInv, PageInvStep DEF TruthInv
<1>2. Truth'
  <2>1. CASE UNCHANGED vars
    BY <2>1, ActsTruth DEF vars, bridge, page, TruthInv, Unborn
  <2> QED
    BY <2>1, BridgeTruth, NetworkTruth, PageStepTruth, UserTruth DEF Next
<1> QED
  BY <1>1, <1>2, SeveredStep DEF TruthInv, Truth

(* The bucket of a session tells its phase unless a frame that says         *)
(* otherwise is on its way or was lost with a connection, and no broadcast  *)
(* loses messages or a draft: the early ones of a new session stay or move, *)
(* whole, to a bucket that was not in use (handleMessage,                   *)
(* migratePendingBucket).                                                   *)
THEOREM BucketsAreKept == Spec => BucketsKept
<1>1. TruthInv /\ [Next]_vars =>
        [Len(wire) > 0 /\ Head(wire).type = "session_state" /\ wire' = Tail(wire) =>
            /\ \A s \in Stems : HasState(bucket[s]) => SameTexts(bucket'[s], bucket[s])
            /\ \/ SameTexts(bucket'[New], bucket[New])
               \/ LET s == Head(wire).key IN
                    /\ s \in Stems /\ ~HasState(bucket[s])
                    /\ bucket[New].dir \in {None, DirOf[s]}
                    /\ key' \in {New, s}
                    /\ SameTexts(bucket'[s], bucket[New])]_vars
  BY KeepsTexts DEF TruthInv, MovesEarly
<1> QED
  BY <1>1, TruthInit, TruthStep, TruthImplies, PTL DEF Spec, BucketsKept, NothingOverwritten

-----------------------------------------------------------------------------
(* The number of ceremonies of a gate: each needs a click or a retry of its *)
(* own, because a session is started once for every time it is opened, and  *)
(* the gate a refill brings to a stem never starts one.                     *)

Sound(g) == g.ready => g.error = "none" /\ ~g.active
Watches == [on : BOOLEAN, refilled : BOOLEAN, deferred : BOOLEAN]

(* The page is about to start session k by itself.                          *)
Opening(k) == (hash = k /\ (route # k \/ auto # k)) \/ (route = k /\ auto # k)
Counted(k) ==
    /\ gate[k].kind # "ceremony" => gate[k].no = 0
    /\ gate[k].kind # "open" => gate[k].no + (IF Opening(k) THEN 1 ELSE 0) <= upsets

CountInv ==
    /\ upsets \in 0 .. MaxUpsets
    /\ watch \in Watches
    /\ watch.on /\ ~watch.refilled => gate[New].kind = "open"
    /\ hash # None \/ route # None \/ watch.on => upsets >= 1
    /\ \A k \in Keys : Sound(gate[k]) /\ Counted(k)
    /\ \A r \in asked : r.no \in 1 .. MaxUpsets

TypeInv == Inv /\ PageInv /\ CountInv

LEMMA CountInit == Init => CountInv
  BY BoundsAssumption, Names
     DEF Init, CountInv, Watches, Off, Absent, Sound, Counted, Opening, Keys

LEMMA CountImplies == TypeInv => TypeOK
<1> SUFFICES ASSUME TypeInv PROVE TypeOK
  OBVIOUS
<1>1. \A k \in Keys : gate[k].no \in 0 .. MaxUpsets + 1
  <2> SUFFICES ASSUME NEW k \in Keys PROVE gate[k].no \in 0 .. MaxUpsets + 1
    OBVIOUS
  <2>1. gate[k].no \in Nat /\ upsets \in 0 .. MaxUpsets /\ MaxUpsets \in Nat
    BY BoundsAssumption DEF TypeInv, Inv, Gates, CountInv
  <2>2. Counted(k)
    BY DEF TypeInv, CountInv
  <2>3. gate[k].no = 0 \/ gate[k].no <= upsets
    BY <2>1, <2>2 DEF Counted
  <2> QED
    BY <2>1, <2>3
<1>2. asked \subseteq [type : {"get_messages", "get_state"}, of : Stems, no : 1 .. MaxUpsets + 1]
  <2> SUFFICES ASSUME NEW r \in asked
               PROVE  r \in [type : {"get_messages", "get_state"}, of : Stems, no : 1 .. MaxUpsets + 1]
    OBVIOUS
  <2>1. r \in Requests /\ r.no \in 1 .. MaxUpsets + 1
    BY BoundsAssumption DEF TypeInv, PageInv, CountInv
  <2> QED
    BY <2>1 DEF Requests, Ceremonies
<1>3. ASSUME NEW k \in Keys
      PROVE  /\ bucket[k].phase \in Phases \union {None}
             /\ bucket[k].draft \in Stems \union {None}
             /\ bucket[k].msgs \subseteq Stems
  <2>1. bucket[k] \in Buckets
    BY DEF TypeInv, PageInv
  <2> QED
    BY <2>1 DEF Buckets
<1>4. ASSUME NEW k \in Keys
      PROVE  /\ gate[k].kind \in {"absent", "open", "ceremony"}
             /\ gate[k].error \in {"none", "failed", "bridge_offline"}
             /\ ~(gate[k].ready /\ (gate[k].error # "none" \/ gate[k].active))
  <2>1. gate[k] \in Gates /\ Sound(gate[k])
    BY DEF TypeInv, Inv, CountInv
  <2> QED
    BY <2>1 DEF Gates, Sound
<1> QED
  BY <1>1, <1>2, <1>3, <1>4 DEF TypeOK, TypeInv, PageInv, Places

(* Ending or resolving a ceremony neither turns a gate into another kind    *)
(* nor starts one.                                                          *)
Alike(g, h) == h.kind = g.kind /\ h.no = g.no /\ (Sound(g) => Sound(h))

LEMMA CheckedAlike ==
    ASSUME NEW g \in Gates, g.active => g.kind = "ceremony" PROVE Alike(g, Checked(g))
<1>1. ASSUME NEW ready \in BOOLEAN, NEW error, g.active, ready => error = "none",
             Checked(g) = Ended(g, ready, error)
      PROVE  Alike(g, Checked(g))
  BY <1>1 DEF Ended, ColdGate, Absent, Alike, Sound
<1>2. CASE Checked(g) = g
  BY <1>2 DEF Alike
<1> QED
  BY <1>1, <1>2 DEF Checked

LEMMA ResolvedAlike ==
    ASSUME NEW g \in Gates, g.active => g.kind = "ceremony",
           NEW no, NEW query \in Queried, NEW outcome \in {"ok", "fail"}
    PROVE  Alike(g, Resolved(g, no, query, outcome))
<1>1. CASE g.active /\ g.no = no
  <2>1. PICK h : h = [g EXCEPT ![query] = outcome]
    OBVIOUS
  <2>2. h \in Gates /\ h.active = g.active /\ h.kind = g.kind /\ h.no = g.no /\ Alike(g, h)
    <3>1. h = [g EXCEPT !.snapshot = outcome] \/ h = [g EXCEPT !.state = outcome]
      BY <2>1 DEF Queried
    <3> QED
      BY <3>1 DEF Gates, Outcomes, Alike, Sound
  <2>3. Resolved(g, no, query, outcome) = Checked(h)
    BY <1>1, <2>1 DEF Resolved
  <2>4. Alike(h, Checked(h))
    BY <2>2, CheckedAlike
  <2> QED
    BY <2>2, <2>3, <2>4 DEF Alike
<1>2. CASE ~(g.active /\ g.no = no)
  BY <1>2 DEF Resolved, Alike
<1> QED
  BY <1>1, <1>2

(* Steps that open nothing.                                                 *)
LEMMA SameCounts ==
    ASSUME CountInv, UNCHANGED <<hash, route, auto, upsets>>, asked' \subseteq asked,
           watch' \in Watches, watch'.on = watch.on, watch'.refilled = watch.refilled,
           \A k \in Keys : Alike(gate[k], gate'[k])
    PROVE  CountInv'
<1>1. ASSUME NEW k \in Keys PROVE Sound(gate'[k]) /\ Counted(k)'
  BY <1>1 DEF CountInv, Counted, Opening, Alike
<1>2. watch'.on /\ ~watch'.refilled => gate'[New].kind = "open"
  BY Names DEF CountInv, Alike
<1> QED
  BY <1>1, <1>2 DEF CountInv

LEMMA SameWatch ==
    ASSUME CountInv, UNCHANGED watch
    PROVE  watch' \in Watches /\ watch'.on = watch.on /\ watch'.refilled = watch.refilled
  BY DEF CountInv

LEMMA AlikeItself == \A g : Alike(g, g)
  BY DEF Alike

(* The stem takes over the open gate of session=new.                        *)
LEMMA RefillCounts ==
    ASSUME TypeInv, NEW f \in StateFrames, OnSessionState(f), Refills(f),
           UNCHANGED <<route, auto, upsets, asked>>
    PROVE  CountInv'
<1>1. PICK k : k = f.key /\ k \in Stems
  BY DEF Refills
<1>2. /\ hash' = k /\ watch.on /\ ~watch.refilled
      /\ gate' = [gate EXCEPT ![k] = gate[New], ![New] = Absent]
      /\ watch' = [watch EXCEPT !.refilled = TRUE, !.deferred = ~Quiet(f.phase)]
  BY <1>1 DEF OnSessionState, Refills
<1>3. gate[New].kind = "open" /\ gate[New].no = 0 /\ Sound(gate[New]) /\ upsets >= 1
  BY <1>2, Names DEF TypeInv, CountInv, Counted
<1>4. watch' \in Watches /\ watch'.refilled
  BY <1>2 DEF TypeInv, CountInv, Watches, Quiet
<1>5. gate'[k] = gate[New] /\ gate'[New] = Absent
      /\ \A j \in Keys : j # k /\ j # New => gate'[j] = gate[j]
  BY <1>1, <1>2, Names DEF TypeInv, Inv
<1>6. ASSUME NEW j \in Keys PROVE Sound(gate'[j]) /\ Counted(j)'
  <2>1. CASE j = k
    BY <1>3, <1>5, <2>1 DEF Counted
  <2>2. CASE j = New
    BY <1>3, <1>5, <2>2 DEF Counted, Absent, Sound, TypeInv, CountInv
  <2>3. CASE j # k /\ j # New
    <3>1. Opening(j)' => Opening(j)
      BY <1>2, <2>3 DEF Opening
    <3>2. gate[j].no \in Nat
      BY DEF TypeInv, Inv, Gates
    <3> QED
      BY <1>5, <2>3, <3>1, <3>2 DEF TypeInv, CountInv, Counted
  <2> QED
    BY <2>1, <2>2, <2>3
<1> QED
  BY <1>3, <1>4, <1>6 DEF TypeInv, CountInv

LEMMA ReceivesCounts == ASSUME TypeInv, Receives PROVE CountInv'
<1>1. PICK f : f = Head(wire)
  OBVIOUS
<1>2. /\ f \in Frames /\ CountInv /\ Inv
      /\ UNCHANGED <<route, auto, upsets>> /\ asked' = asked
  BY <1>1, ReceivedFrame DEF Receives, TypeInv, PageInv, bridge, bounds
<1>3. ASSUME UNCHANGED watch, UNCHANGED hash, \A k \in Keys : Alike(gate[k], gate'[k])
      PROVE  CountInv'
  BY <1>2, <1>3, SameWatch, SameCounts
<1>4. ASSUME NEW k, NEW no, NEW query \in Queried, NEW outcome \in {"ok", "fail"},
             gate' = [gate EXCEPT ![k] = Resolved(gate[k], no, query, outcome)]
      PROVE  \A j \in Keys : Alike(gate[j], gate'[j])
  <2> SUFFICES ASSUME NEW j \in Keys PROVE Alike(gate[j], gate'[j])
    OBVIOUS
  <2>1. gate[j] \in Gates /\ (gate[j].active => gate[j].kind = "ceremony")
    BY <1>2 DEF Inv, Backed
  <2>2. gate'[j] = IF j = k THEN Resolved(gate[j], no, query, outcome) ELSE gate[j]
    BY <1>2, <1>4 DEF Inv
  <2> QED
    BY <2>1, <2>2, ResolvedAlike, AlikeItself
<1>5. CASE f.type = "session_state" /\ OnSessionState(f) /\ Refills(f)
  BY <1>2, <1>5, FrameKinds, RefillCounts
<1>6. CASE f.type = "session_state" /\ OnSessionState(f) /\ ~Refills(f)
  <2>1. /\ UNCHANGED <<hash, gate>>
        /\ watch' = [watch EXCEPT !.deferred = watch.deferred /\ ~Quiet(f.phase)]
    BY <1>6 DEF OnSessionState
  <2>2. watch' \in Watches /\ watch'.on = watch.on /\ watch'.refilled = watch.refilled
    BY <1>2, <2>1 DEF CountInv, Watches, Quiet
  <2> QED
    BY <1>2, <2>1, <2>2, SameCounts, AlikeItself
<1>7. CASE f.type = "result" /\ OnResult(f)
  <2>1. PICK outcome \in {"ok", "fail"} :
            gate' = [gate EXCEPT ![f.of] = Resolved(gate[f.of], f.no, "state", outcome)]
    BY <1>7 DEF OnResult
  <2> QED
    BY <1>3, <1>4, <1>7, <2>1 DEF OnResult, Queried
<1>8. CASE f.type = "snapshot" /\ OnSnapshot(f)
  BY <1>3, <1>4, <1>8 DEF OnSnapshot, Queried
<1>9. CASE f.type \in {"message_update", "message_end"} /\ OnEvent(f)
  BY <1>3, <1>9, AlikeItself DEF OnEvent
<1>10. CASE f.type = "bridge_status" /\ OnBridgeStatus(f)
  <2>1. CASE UNCHANGED gate
    BY <1>3, <1>10, <2>1, AlikeItself DEF OnBridgeStatus
  <2>2. CASE gate' = [k \in Keys |-> Checked([gate[k] EXCEPT !.offline = @ \/ gate[k].active])]
    <3>1. ASSUME NEW k \in Keys PROVE Alike(gate[k], gate'[k])
      <4>1. PICK h : h = [gate[k] EXCEPT !.offline = gate[k].offline \/ gate[k].active]
        OBVIOUS
      <4>2. gate[k] \in Gates /\ (gate[k].active => gate[k].kind = "ceremony")
        BY <1>2 DEF Inv, Backed
      <4>3. h \in Gates /\ h.active = gate[k].active /\ Alike(gate[k], h)
        BY <4>1, <4>2 DEF Gates, Alike, Sound
      <4>4. gate'[k] = Checked(h)
        BY <2>2, <4>1
      <4>5. Alike(h, Checked(h))
        BY <4>2, <4>3, CheckedAlike DEF Alike
      <4> QED
        BY <4>3, <4>4, <4>5 DEF Alike
    <3> QED
      BY <1>3, <1>10, <3>1 DEF OnBridgeStatus
  <2> QED
    BY <1>10, <2>1, <2>2 DEF OnBridgeStatus
<1> QED
  BY <1>1, <1>5, <1>6, <1>7, <1>8, <1>9, <1>10 DEF Receives

LEMMA HashChangeCounts == ASSUME TypeInv, HashChange PROVE CountInv'
<1>1. /\ CountInv /\ Inv /\ {hash, route, key} \subseteq Places
      /\ UNCHANGED <<hash, upsets>> /\ asked' = asked /\ route' = hash
      /\ auto' = IF hash = None THEN None ELSE auto
      /\ watch' = IF hash = route THEN watch ELSE IF hash = New THEN Watching ELSE Off
  BY DEF HashChange, bridge, bounds, TypeInv, PageInv
<1>2. /\ \A k \in Keys : \/ gate'[k] = gate[k]
                         \/ gate'[k] \in {ReadyGate, ColdGate} /\ gate[k].kind = "absent"
      /\ hash = New /\ gate[New].kind = "absent" => gate'[New] = ReadyGate
  <2>1. CASE hash # None /\ gate[hash].kind = "absent"
    <3>1. PICK g : /\ g = IF hash = New THEN ReadyGate ELSE ColdGate
                   /\ gate' = [gate EXCEPT ![hash] = g]
      BY <2>1 DEF HashChange
    <3>2. \A k \in Keys : gate'[k] = IF k = hash THEN g ELSE gate[k]
      BY <1>1, <3>1 DEF Inv
    <3> QED
      BY <2>1, <3>1, <3>2, Names
  <2>2. CASE ~(hash # None /\ gate[hash].kind = "absent")
    <3>1. gate' = gate
      BY <2>2 DEF HashChange
    <3>2. hash = New => gate[New].kind # "absent"
      BY <2>2, Names
    <3> QED
      BY <3>1, <3>2
  <2> QED
    BY <2>1, <2>2
<1>3. ReadyGate.kind = "open" /\ ReadyGate.no = 0 /\ Sound(ReadyGate)
      /\ ColdGate.no = 0 /\ Sound(ColdGate)
  BY DEF ReadyGate, ColdGate, Absent, Sound
<1>4. ASSUME NEW k \in Keys PROVE Sound(gate'[k]) /\ Counted(k)'
  <2>1. Opening(k)' => Opening(k)
    <3>1. None \notin Keys
      BY Names DEF Keys
    <3> QED
      BY <1>1, <3>1 DEF Opening
  <2>2. gate[k].no \in Nat
    BY <1>1 DEF Inv, Gates
  <2> QED
    BY <1>1, <1>2, <1>3, <2>1, <2>2 DEF CountInv, Counted
<1>5. watch' \in Watches /\ (watch'.on => watch.on \/ hash = New)
  BY <1>1 DEF CountInv, Watches, Watching, Off
<1>6. watch'.on /\ ~watch'.refilled => gate'[New].kind = "open"
  <2>1. gate[New].kind \in {"absent", "open"}
    BY <1>1, Names DEF Inv, Gates
  <2>2. watch'.on /\ ~watch'.refilled => hash = New \/ gate[New].kind = "open"
    BY <1>1 DEF CountInv, Off
  <2> QED
    BY <1>2, <1>3, <2>1, <2>2, Names
<1> QED
  BY <1>1, <1>4, <1>5, <1>6, Names DEF CountInv

(* A ceremony is paid for by the click that opened the session, or by the   *)
(* retry itself.                                                            *)
LEMMA StartsCounts ==
    ASSUME TypeInv, NEW k, k = route, route # None, Starts(k), UNCHANGED <<hash, route, watch>>,
           \/ auto # k /\ auto' = k /\ UNCHANGED upsets
           \/ UNCHANGED auto /\ upsets < MaxUpsets /\ upsets' = upsets + 1
    PROVE  CountInv'
<1>1. CountInv /\ Inv /\ PageInv /\ upsets \in Nat /\ MaxUpsets \in Nat /\ upsets' \in 0 .. MaxUpsets
      /\ upsets' >= upsets
  BY BoundsAssumption DEF TypeInv, CountInv
<1>2. \A j \in Keys : Opening(j)' => Opening(j)
  BY DEF Opening
<1>3. ASSUME NEW j \in Keys, gate'[j] = gate[j] PROVE Sound(gate'[j]) /\ Counted(j)'
  <2>1. gate[j].no \in Nat
    BY <1>1 DEF Inv, Gates
  <2> QED
    BY <1>1, <1>2, <1>3, <2>1 DEF CountInv, Counted
<1>4. CASE gate[k].kind # "ceremony"
  <2>1. UNCHANGED <<gate, asked>>
    BY <1>4 DEF Starts
  <2> QED
    BY <1>1, <1>3, <2>1 DEF CountInv
<1>5. CASE gate[k].kind = "ceremony"
  <2>1. k \in Keys /\ gate[k].no \in Nat
    BY <1>1, Names DEF PageInv, Places, Keys, Inv, Gates
  <2>2. PICK g : g = [ColdGate EXCEPT !.no = gate[k].no + 1, !.active = TRUE,
                                      !.offline = (status = FALSE)]
    OBVIOUS
  <2>3. \A j \in Keys : gate'[j] = IF j = k THEN g ELSE gate[j]
    BY <1>1, <1>5, <2>2 DEF Starts, Inv
  <2>4. g.kind = "ceremony" /\ g.no = gate[k].no + 1 /\ Sound(g)
    BY <2>2 DEF ColdGate, Absent, Sound
  <2>5. g.no + (IF Opening(k)' THEN 1 ELSE 0) <= upsets'
    <3>1. gate[k].no + (IF Opening(k) THEN 1 ELSE 0) <= upsets
      BY <1>1, <1>5, <2>1 DEF CountInv, Counted
    <3>2. CASE auto # k /\ auto' = k /\ UNCHANGED upsets
      <4>1. Opening(k) /\ ~Opening(k)'
        BY <3>2 DEF Opening
      <4> QED
        BY <1>1, <2>1, <2>4, <3>1, <3>2, <4>1
    <3>3. CASE UNCHANGED auto /\ upsets < MaxUpsets /\ upsets' = upsets + 1
      <4>1. Opening(k)' <=> Opening(k)
        BY <3>3 DEF Opening
      <4> QED
        BY <1>1, <2>1, <2>4, <3>1, <3>3, <4>1
    <3> QED
      BY <3>2, <3>3
  <2>6. ASSUME NEW j \in Keys PROVE Sound(gate'[j]) /\ Counted(j)'
    BY <1>3, <2>3, <2>4, <2>5 DEF Counted
  <2>7. \A r \in asked' : r.no \in 1 .. MaxUpsets
    <3>1. gate'[route].no \in 1 .. MaxUpsets
      BY <1>1, <2>1, <2>3, <2>4, <2>5
    <3>2. \A r \in asked' : r \in asked \/ r.no = gate'[route].no
      BY <1>1, StartsAsks
    <3> QED
      BY <1>1, <3>1, <3>2 DEF CountInv
  <2>8. gate'[New] = gate[New]
    BY <1>1, <1>5, <2>3, Names DEF Inv
  <2> QED
    BY <1>1, <2>6, <2>7, <2>8 DEF CountInv
<1> QED
  BY <1>4, <1>5

LEMMA CountStep == TypeInv /\ [Next]_vars => CountInv'
<1> SUFFICES ASSUME TypeInv, [Next]_vars PROVE CountInv'
  OBVIOUS
<1>1. ASSUME UNCHANGED <<gate, watch, hash, route, auto, upsets>>, asked' \subseteq asked PROVE CountInv'
  BY <1>1, SameWatch, SameCounts, AlikeItself DEF TypeInv
<1>2. CASE BridgeStep
  BY <1>1, <1>2 DEF BridgeStep, Spawns, SpawnEnds, StartsTurn, Talks, EndsTurn, Migrates,
                    Answers, OtherPrompts, page, bounds
<1>3. ASSUME NEW k \in Stems \union {New, None}, Clicks(k) PROVE CountInv'
  <2>1. /\ upsets \in 0 .. MaxUpsets /\ upsets < MaxUpsets /\ upsets' = upsets + 1
        /\ UNCHANGED <<gate, watch>> /\ asked' = asked
    BY <1>3 DEF Clicks, bridge, TypeInv, CountInv
  <2>2. ASSUME NEW j \in Keys PROVE Sound(gate'[j]) /\ Counted(j)'
    <3>1. gate[j].no \in Nat
      BY DEF TypeInv, Inv, Gates
    <3> QED
      BY <2>1, <3>1, BoundsAssumption DEF TypeInv, CountInv, Counted
  <2> QED
    BY <2>1, <2>2, BoundsAssumption DEF TypeInv, CountInv
<1>4. CASE Breaks \/ BridgeBreaks
  <2>1. /\ upsets \in 0 .. MaxUpsets /\ upsets < MaxUpsets /\ upsets' = upsets + 1
        /\ UNCHANGED <<gate, watch, hash, route, auto>> /\ asked' \subseteq asked
    BY <1>4 DEF Breaks, BridgeBreaks, page, TypeInv, CountInv
  <2>2. ASSUME NEW j \in Keys PROVE Sound(gate'[j]) /\ Counted(j)'
    <3>1. gate[j].no \in Nat
      BY DEF TypeInv, Inv, Gates
    <3> QED
      BY <2>1, <3>1, BoundsAssumption DEF TypeInv, CountInv, Counted, Opening
  <2> QED
    BY <2>1, <2>2, BoundsAssumption DEF TypeInv, CountInv
<1>5. CASE Reconnects \/ BridgeReturns
  BY <1>1, <1>5 DEF Reconnects, BridgeReturns, bridge, page, bounds
<1>6. CASE AutoStarts
  BY <1>6, StartsCounts DEF AutoStarts, bounds
<1>7. CASE Retries
  BY <1>7, StartsCounts DEF Retries
<1>8. CASE Prompts \/ UNCHANGED vars
  BY <1>1, <1>8 DEF Prompts, vars, bridge, page, bounds
<1>9. CASE DeferredFires
  <2>1. watch' = [watch EXCEPT !.deferred = FALSE]
        /\ UNCHANGED <<gate, hash, route, auto, upsets>> /\ asked' = asked
    BY <1>9 DEF DeferredFires, bridge, bounds
  <2>2. watch' \in Watches /\ watch'.on = watch.on /\ watch'.refilled = watch.refilled
    BY <2>1 DEF TypeInv, CountInv, Watches
  <2> QED
    BY <2>1, <2>2, SameCounts, AlikeItself DEF TypeInv
<1>10. ASSUME NEW k \in Keys, NEW t \in {"snapshot", "state"}, Timeout(k, t) PROVE CountInv'
  <2>1. /\ UNCHANGED <<watch, hash, route, auto, upsets>> /\ asked' = asked
        /\ gate' = [gate EXCEPT ![k] = Resolved(gate[k], gate[k].no, t, "fail")]
    BY <1>10 DEF Timeout, Resolved, bridge, bounds
  <2>2. ASSUME NEW j \in Keys PROVE Alike(gate[j], gate'[j])
    <3>1. gate[j] \in Gates /\ (gate[j].active => gate[j].kind = "ceremony")
      BY DEF TypeInv, Inv, Backed
    <3>2. gate'[j] = IF j = k THEN Resolved(gate[j], gate[j].no, t, "fail") ELSE gate[j]
      BY <2>1 DEF TypeInv, Inv
    <3> QED
      BY <3>1, <3>2, ResolvedAlike, AlikeItself DEF Queried
  <2> QED
    BY <2>1, <2>2, SameWatch, SameCounts DEF TypeInv
<1> QED
  BY <1>2, <1>3, <1>4, <1>5, <1>6, <1>7, <1>8, <1>9, <1>10, ReceivesCounts, HashChangeCounts
  DEF Next, Network, PageStep, Timeouts, User

(* The page's gates, buckets, URL and queries keep their types, a gate that *)
(* is ready shows neither an error nor a running ceremony, and no session   *)
(* is started more often than the user opened or retried it                 *)
(* (autoStartConsumedRef).                                                  *)
THEOREM TypesHold == Spec => []TypeOK
<1>1. Init => TypeInv
  BY InitInv, PageInit, CountInit DEF TypeInv
<1>2. TypeInv /\ [Next]_vars => TypeInv'
  BY StepInv, PageInvStep, CountStep DEF TypeInv
<1> QED
  BY <1>1, <1>2, CountImplies, PTL DEF Spec
=============================================================================
