---------------------------- MODULE SubagentProofs ----------------------------
(***************************************************************************)
(* No sub-pi is ever left frozen where nobody can reach it, and what was   *)
(* killed stays killed, for any tool calls of any width and any bounds.    *)
(* The results of a parallel call and the steps of a chain stay in order:  *)
(* the invariant says of every call, until tasks of another call are taken *)
(* for its own, what each list it keeps holds at the rank of every slot.   *)
(***************************************************************************)
EXTENDS Subagent, SequenceTheorems, FiniteSetTheorems, TLAPS

States == {"none", "running", "stopped", "dead", "reaped", "closed"}
Suspensions == [proc : Tasks, live : BOOLEAN, cancelled : BOOLEAN]
Resumes == [of : Nat, st : {"listening", "deaf", "settled"}]

(* The part of the types the proof needs.                                   *)
Types ==
    /\ st \in [Tasks -> States]
    /\ susp \in Seq(Suspensions)
    /\ leg \in Seq(Resumes)
    /\ \A r \in Legs : leg[r].of \in Ids
    /\ gone \in BOOLEAN

Inv == Types /\ FrozenReachable

LEMMA InitInv == Init => Inv
<1> SUFFICES ASSUME Init PROVE Inv
  OBVIOUS
<1>1. Types
  <2>1. /\ susp \in Seq(Suspensions)
        /\ leg \in Seq(Resumes)
        /\ Legs = {}
    BY EmptySeq DEF Init, Legs
  <2> QED
    BY <2>1 DEF Init, Types, States
<1>2. FrozenReachable
  BY DEF Init, FrozenReachable
<1> QED
  BY <1>1, <1>2 DEF Inv

(* Registering a suspension.                                                *)
LEMMA Registered ==
    ASSUME NEW f \in Seq(Suspensions), NEW t \in Tasks
    PROVE  /\ Append(f, Suspension(t)) \in Seq(Suspensions)
           /\ DOMAIN Append(f, Suspension(t)) = 1 .. Len(f) + 1
           /\ DOMAIN f = 1 .. Len(f) /\ Len(f) \in Nat
           /\ \A s \in DOMAIN f : Append(f, Suspension(t))[s] = f[s]
           /\ Append(f, Suspension(t))[Len(f) + 1] = Suspension(t)
<1>1. Suspension(t) \in Suspensions
  BY DEF Suspension, Suspensions
<1> QED
  BY <1>1

(* Dropping a suspension, and marking it as cancelled.                      *)
LEMMA Unregistered ==
    ASSUME NEW f \in Seq(Suspensions), NEW s \in DOMAIN f
    PROVE  /\ Unregister(f, s) \in Seq(Suspensions)
           /\ DOMAIN Unregister(f, s) = DOMAIN f
           /\ \A x \in DOMAIN f : /\ Unregister(f, s)[x].proc = f[x].proc
                                  /\ x # s => Unregister(f, s)[x] = f[x]
<1>1. s \in 1 .. Len(f) /\ f[s] \in Suspensions
  BY ElementOfSeq
<1>2. /\ [f[s] EXCEPT !.live = FALSE] \in Suspensions
      /\ [f[s] EXCEPT !.live = FALSE].proc = f[s].proc
  BY <1>1 DEF Suspensions
<1>3. [f EXCEPT ![s] = [f[s] EXCEPT !.live = FALSE]] \in Seq(Suspensions)
  BY <1>1, <1>2, ExceptSeq
<1> QED
  BY <1>2, <1>3 DEF Unregister

LEMMA Cancelled ==
    ASSUME NEW f \in Seq(Suspensions), NEW s \in DOMAIN f
    PROVE  /\ [f EXCEPT ![s].cancelled = TRUE] \in Seq(Suspensions)
           /\ DOMAIN [f EXCEPT ![s].cancelled = TRUE] = DOMAIN f
           /\ \A x \in DOMAIN f : /\ [f EXCEPT ![s].cancelled = TRUE][x].proc = f[x].proc
                                  /\ x # s => [f EXCEPT ![s].cancelled = TRUE][x] = f[x]
<1>1. s \in 1 .. Len(f) /\ f[s] \in Suspensions
  BY ElementOfSeq
<1>2. /\ [f[s] EXCEPT !.cancelled = TRUE] \in Suspensions
      /\ [f[s] EXCEPT !.cancelled = TRUE].proc = f[s].proc
  BY <1>1 DEF Suspensions
<1>3. [f EXCEPT ![s] = [f[s] EXCEPT !.cancelled = TRUE]] \in Seq(Suspensions)
  BY <1>1, <1>2, ExceptSeq
<1> QED
  BY <1>2, <1>3

LEMMA LegSettled ==
    ASSUME NEW f \in Seq(Resumes), NEW r \in DOMAIN f
    PROVE  /\ [f EXCEPT ![r].st = "settled"] \in Seq(Resumes)
           /\ \A x \in DOMAIN f : [f EXCEPT ![r].st = "settled"][x].of = f[x].of
<1>1. r \in 1 .. Len(f) /\ f[r] \in Resumes
  BY ElementOfSeq
<1>2. [f[r] EXCEPT !.st = "settled"] \in Resumes
  BY <1>1 DEF Resumes
<1>3. [f EXCEPT ![r] = [f[r] EXCEPT !.st = "settled"]] \in Seq(Resumes)
  BY <1>1, <1>2, ExceptSeq
<1>4. [f[r] EXCEPT !.st = "settled"].of = f[r].of
  BY <1>1 DEF Resumes
<1> QED
  BY <1>3, <1>4

(* Steps that freeze nothing and leave the registry alone.                  *)
LEMMA QuietInv ==
    ASSUME Inv, st' \in [Tasks -> States],
           \A t \in Tasks : st'[t] = "stopped" => st[t] = "stopped",
           UNCHANGED <<susp, leg, gone>>
    PROVE  Inv'
  BY DEF Inv, Types, FrozenReachable, Live, Ids, Legs

(* Steps after which the registry has what it had of every frozen process.  *)
LEMMA RegistryInv ==
    ASSUME Inv, st' \in [Tasks -> States],
           susp' \in Seq(Suspensions), Ids \subseteq Ids',
           leg' \in Seq(Resumes), \A r \in Legs' : leg'[r].of \in Ids,
           UNCHANGED gone,
           \A t \in Tasks : st'[t] = "stopped" =>
              \/ ~gone /\ \E x \in Live' : susp'[x].proc = t
              \/ st[t] = "stopped" /\ \A x \in Live : susp[x].proc = t =>
                                        x \in Live' /\ susp'[x].proc = t
    PROVE  Inv'
<1>1. Types'
  BY DEF Inv, Types
<1>2. FrozenReachable'
  BY DEF Inv, FrozenReachable
<1> QED
  BY <1>1, <1>2 DEF Inv

LEMMA LegTaskType ==
    ASSUME Types, NEW r \in Legs
    PROVE  leg[r].of \in Ids /\ LegTask(r) \in Tasks
<1>1. leg[r].of \in 1 .. Len(susp) /\ susp[leg[r].of] \in Suspensions
  BY ElementOfSeq DEF Types, Ids
<1> QED
  BY <1>1 DEF Types, LegTask, Suspensions, Ids

(* Frozen by the watchdog of the run that spawned it.                       *)
LEMMA ColdWatchdogInv == ASSUME Inv, NEW t \in Tasks, ColdWatchdog(t) PROVE Inv'
<1>1. CASE ~GroupExists(t)
  BY <1>1, QuietInv DEF ColdWatchdog, Inv, Types
<1>2. CASE GroupExists(t)
  <2>1. /\ st' = [st EXCEPT ![t] = IF @ = "running" THEN "stopped" ELSE @]
        /\ susp' = Append(susp, Suspension(t))
        /\ UNCHANGED <<leg, gone>> /\ ~gone
    BY <1>2 DEF ColdWatchdog, Freezes
  <2>2. /\ susp' \in Seq(Suspensions)
        /\ Ids \subseteq Ids'
        /\ \A x \in Ids : susp'[x] = susp[x]
        /\ Len(susp) + 1 \in Ids' /\ susp'[Len(susp) + 1] = Suspension(t)
    BY <2>1, Registered DEF Inv, Types, Ids
  <2>3. Len(susp) + 1 \in Live' /\ susp'[Len(susp) + 1].proc = t
    BY <2>2 DEF Live, Suspension
  <2>4. \A x \in Live : x \in Live' /\ susp'[x].proc = susp[x].proc
    BY <2>2 DEF Live
  <2>5. st' \in [Tasks -> States] /\ \A u \in Tasks \ {t} : st'[u] = st[u]
    BY <2>1 DEF Inv, Types, States
  <2>6. \A r \in Legs' : leg'[r].of \in Ids
    BY <2>1 DEF Inv, Types, Legs
  <2>7. leg' \in Seq(Resumes)
    BY <2>1 DEF Inv, Types
  <2> QED
    BY <2>1, <2>2, <2>3, <2>4, <2>5, <2>6, <2>7, RegistryInv
<1> QED
  BY <1>1, <1>2

(* Frozen again by the watchdog of a resume, whose own suspension goes.     *)
LEMMA LegWatchdogInv == ASSUME Inv, NEW r \in Legs, LegWatchdog(r) PROVE Inv'
<1> DEFINE s == leg[r].of
<1> DEFINE t == LegTask(r)
<1>1. s \in Ids /\ t \in Tasks /\ t = susp[s].proc
  BY LegTaskType DEF Inv, LegTask
<1>2. leg' = [leg EXCEPT ![r].st = "settled"] /\ UNCHANGED gone /\ ~gone
  BY DEF LegWatchdog
<1>3. leg' \in Seq(Resumes) /\ \A x \in Legs' : leg'[x].of \in Ids
  BY <1>2, LegSettled DEF Inv, Types, Legs
<1>4. CASE GroupExists(t)
  <2> DEFINE f == Append(susp, Suspension(t))
  <2>1. /\ st' = [st EXCEPT ![t] = IF @ = "running" THEN "stopped" ELSE @]
        /\ susp' = Unregister(f, s)
    BY <1>4 DEF LegWatchdog, Freezes
  <2>2. /\ f \in Seq(Suspensions)
        /\ Ids = 1 .. Len(susp) /\ Len(susp) \in Nat /\ DOMAIN f = 1 .. Len(susp) + 1
        /\ \A x \in Ids : f[x] = susp[x]
        /\ f[Len(susp) + 1] = Suspension(t)
    BY <1>1, Registered DEF Inv, Types, Ids
  <2> HIDE DEF f, s, t
  <2>3. /\ susp' \in Seq(Suspensions)
        /\ Ids' = DOMAIN f
        /\ \A x \in DOMAIN f : susp'[x].proc = f[x].proc /\ (x # s => susp'[x] = f[x])
    <3>1. s \in DOMAIN f
      BY <1>1, <2>2
    <3>2. /\ Unregister(f, s) \in Seq(Suspensions)
          /\ DOMAIN Unregister(f, s) = DOMAIN f
          /\ \A x \in DOMAIN f : /\ Unregister(f, s)[x].proc = f[x].proc
                                 /\ x # s => Unregister(f, s)[x] = f[x]
      BY <2>2, <3>1, Unregistered
    <3> QED
      BY <2>1, <3>2 DEF Ids
  <2>4. Len(susp) + 1 \in Live' /\ susp'[Len(susp) + 1].proc = t
    BY <1>1, <2>2, <2>3 DEF Live, Suspension
  <2>5. \A x \in Live : x # s => x \in Live' /\ susp'[x].proc = susp[x].proc
    BY <2>2, <2>3 DEF Live
  <2>6. st' \in [Tasks -> States] /\ \A u \in Tasks \ {t} : st'[u] = st[u]
    BY <2>1 DEF Inv, Types, States
  <2>7. Ids \subseteq Ids'
    BY <2>2, <2>3
  <2> QED
    BY <1>1, <1>2, <1>3, <2>3, <2>4, <2>5, <2>6, <2>7, RegistryInv
<1>5. CASE ~GroupExists(t)
  <2>1. susp' = Unregister(susp, s) /\ st' = st /\ st[t] # "stopped"
    BY <1>5 DEF LegWatchdog, GroupExists
  <2> HIDE DEF s, t
  <2>2. /\ susp' \in Seq(Suspensions) /\ Ids' = Ids
        /\ \A x \in Ids : susp'[x].proc = susp[x].proc /\ (x # s => susp'[x] = susp[x])
    <3>1. s \in DOMAIN susp /\ susp \in Seq(Suspensions)
      BY <1>1 DEF Inv, Types, Ids
    <3>2. /\ Unregister(susp, s) \in Seq(Suspensions)
          /\ DOMAIN Unregister(susp, s) = DOMAIN susp
          /\ \A x \in DOMAIN susp : /\ Unregister(susp, s)[x].proc = susp[x].proc
                                    /\ x # s => Unregister(susp, s)[x] = susp[x]
      BY <3>1, Unregistered
    <3> QED
      BY <2>1, <3>2 DEF Ids
  <2>3. \A x \in Live : x # s => x \in Live' /\ susp'[x].proc = susp[x].proc
    BY <2>2 DEF Live
  <2>4. st' \in [Tasks -> States]
    BY <2>1 DEF Inv, Types
  <2> QED
    BY <1>1, <1>2, <1>3, <2>1, <2>2, <2>3, <2>4, RegistryInv
<1> QED
  BY <1>4, <1>5

(* A suspension goes whose process is not frozen.                           *)
LEMMA DroppedInv ==
    ASSUME Inv, NEW s \in Ids, susp' = Unregister(susp, s),
           st' \in [Tasks -> States], st'[susp[s].proc] # "stopped",
           \A t \in Tasks : st'[t] = "stopped" => st[t] = "stopped",
           leg' \in Seq(Resumes), \A r \in Legs' : leg'[r].of \in Ids,
           UNCHANGED gone
    PROVE  Inv'
<1>1. s \in DOMAIN susp /\ susp \in Seq(Suspensions)
  BY DEF Inv, Types, Ids
<1>2. /\ Unregister(susp, s) \in Seq(Suspensions)
      /\ DOMAIN Unregister(susp, s) = DOMAIN susp
      /\ \A x \in DOMAIN susp : /\ Unregister(susp, s)[x].proc = susp[x].proc
                                /\ x # s => Unregister(susp, s)[x] = susp[x]
  BY <1>1, Unregistered
<1>3. susp' \in Seq(Suspensions) /\ Ids' = Ids
  BY <1>2 DEF Ids
<1>4. \A x \in Live : x # s => x \in Live' /\ susp'[x].proc = susp[x].proc
  BY <1>2 DEF Live, Ids
<1> QED
  BY <1>3, <1>4, RegistryInv

LEMMA ResumeInv == ASSUME Inv, NEW s \in Ids, Resume(s) PROVE Inv'
<1> DEFINE t == susp[s].proc
<1>1. susp \in Seq(Suspensions) /\ t \in Tasks
  <2>1. s \in 1 .. Len(susp) /\ susp \in Seq(Suspensions)
    BY DEF Inv, Types, Ids
  <2>2. susp[s] \in Suspensions
    BY <2>1, ElementOfSeq
  <2> QED
    BY <2>1, <2>2 DEF Suspensions
<1>2. UNCHANGED gone
  BY DEF Resume
<1>3. CASE ResumeThaws(s)
  <2> DEFINE g == [r \in Legs |-> IF r \in Listening(t) THEN [leg[r] EXCEPT !.st = "deaf"]
                                  ELSE leg[r]]
  <2>1. /\ st' = [st EXCEPT ![t] = IF @ = "stopped" THEN "running" ELSE @]
        /\ leg' = Append(g, [of |-> s, st |-> "listening"])
        /\ UNCHANGED susp
    BY <1>3 DEF ResumeThaws
  <2> HIDE DEF t
  <2>2. leg \in Seq(Resumes) /\ Legs = 1 .. Len(leg) /\ Len(leg) \in Nat
    BY DEF Inv, Types, Legs
  <2>3. \A r \in Legs : leg[r] \in Resumes
    BY <2>2, ElementOfSeq
  <2>4. \A r \in Legs : g[r] \in Resumes /\ g[r].of = leg[r].of
    BY <2>3 DEF Resumes
  <2>5. g \in Seq(Resumes) /\ Len(g) = Len(leg)
    <3>1. g \in [1 .. Len(leg) -> Resumes]
      BY <2>2, <2>4
    <3> HIDE DEF g
    <3>2. g \in Seq(Resumes)
      BY <2>2, <3>1, SeqDef
    <3> QED
      BY <2>2, <3>1, <3>2
  <2> HIDE DEF g
  <2>6. s \in Nat
    BY <1>1 DEF Ids
  <2>7. [of |-> s, st |-> "listening"] \in Resumes
    BY <2>6 DEF Resumes
  <2>8. leg' \in Seq(Resumes) /\ \A r \in Legs' : leg'[r].of \in Ids
    <3> DEFINE e == [of |-> s, st |-> "listening"]
    <3>1. e \in Resumes /\ e.of = s
      BY <2>7
    <3> HIDE DEF e
    <3>2. leg' = Append(g, e)
      BY <2>1 DEF e
    <3>3. \A r \in Legs : leg[r].of \in Ids
      BY DEF Inv, Types
    <3> QED
      BY <2>2, <2>4, <2>5, <3>1, <3>2, <3>3 DEF Legs
  <2>9. st' \in [Tasks -> States] /\ \A u \in Tasks : st'[u] = "stopped" => st[u] = "stopped"
    BY <2>1 DEF Inv, Types, States
  <2>10. Ids \subseteq Ids' /\ Live' = Live
    BY <2>1 DEF Ids, Live
  <2> QED
    BY <1>1, <1>2, <2>1, <2>8, <2>9, <2>10, RegistryInv
<1>4. CASE ResumeFails(s)
  <2>1. /\ susp' = Unregister(susp, s)
        /\ st' = st /\ st[t] # "stopped" /\ leg' = leg
    BY <1>4 DEF ResumeFails
  <2> HIDE DEF t
  <2>2. /\ st' \in [Tasks -> States]
        /\ leg' \in Seq(Resumes) /\ \A r \in Legs' : leg'[r].of \in Ids
    BY <2>1 DEF Inv, Types, Legs
  <2> QED
    BY <1>2, <2>1, <2>2, DroppedInv DEF t
<1> QED
  BY <1>3, <1>4 DEF Resume

(* The close event of a process that is dead reaches nobody it could leave  *)
(* frozen.                                                                  *)
LEMMA CloseInv == ASSUME Inv, NEW t \in Tasks, Close(t) PROVE Inv'
<1>1. /\ st' = [st EXCEPT ![t] = "closed"] /\ UNCHANGED gone
      /\ st' \in [Tasks -> States]
      /\ \A u \in Tasks : st'[u] = "stopped" => st[u] = "stopped"
  BY DEF Close, Inv, Types, States
<1>2. CASE UNCHANGED <<susp, leg>>
  BY <1>1, <1>2, QuietInv
<1>3. ASSUME NEW r \in Listening(t), leg' = [leg EXCEPT ![r].st = "settled"],
             susp' \in {susp, Unregister(susp, leg[r].of)}
      PROVE  Inv'
  <2>1. r \in Legs /\ leg[r].of \in Ids /\ susp[leg[r].of].proc = t
    BY <1>3, LegTaskType DEF Inv, Listening, LegTask
  <2>2. leg' \in Seq(Resumes) /\ \A x \in Legs' : leg'[x].of \in Ids
    BY <1>3, <2>1, LegSettled DEF Inv, Types, Legs
  <2>3. st'[t] # "stopped"
    BY <1>1 DEF Inv, Types
  <2>4. CASE susp' = susp
    BY <1>1, <2>2, <2>4, RegistryInv DEF Inv, Types, Ids, Live
  <2>5. CASE susp' = Unregister(susp, leg[r].of)
    BY <1>1, <2>1, <2>2, <2>3, <2>5, DroppedInv
  <2> QED
    BY <1>3, <2>4, <2>5
<1> QED
  BY <1>2, <1>3 DEF Close, ColdClose, LegClose

LEMMA KilledGroups ==
    ASSUME Types, NEW T, KillGroups(T)
    PROVE  /\ st' \in [Tasks -> States]
           /\ \A t \in Tasks : st'[t] = "stopped" => st[t] = "stopped" /\ t \notin T
  BY DEF Types, KillGroups, States

LEMMA KillInv == ASSUME Inv, NEW s \in Ids, Kill(s) PROVE Inv'
<1> DEFINE t == susp[s].proc
<1> DEFINE f == [susp EXCEPT ![s].cancelled = TRUE]
<1>1. /\ susp' = Unregister(f, s)
      /\ KillGroups({t}) /\ UNCHANGED <<leg, gone>>
  BY DEF Kill, Unregister
<1>2. susp \in Seq(Suspensions) /\ s \in DOMAIN susp
  BY DEF Inv, Types, Ids
<1>3. /\ f \in Seq(Suspensions) /\ DOMAIN f = DOMAIN susp
      /\ \A x \in DOMAIN susp : x # s => f[x] = susp[x]
  BY <1>2, Cancelled
<1>4. st' \in [Tasks -> States]
      /\ \A u \in Tasks : st'[u] = "stopped" => st[u] = "stopped" /\ u # t
  BY <1>1, KilledGroups DEF Inv
<1> HIDE DEF f
<1>5. /\ Unregister(f, s) \in Seq(Suspensions)
      /\ DOMAIN Unregister(f, s) = DOMAIN f
      /\ \A x \in DOMAIN f : x # s => Unregister(f, s)[x] = f[x]
  BY <1>2, <1>3, Unregistered
<1>6. susp' \in Seq(Suspensions) /\ Ids' = Ids
  BY <1>1, <1>3, <1>5 DEF Ids
<1>7. \A x \in Live : x # s => x \in Live' /\ susp'[x].proc = susp[x].proc
  BY <1>1, <1>3, <1>5 DEF Live, Ids
<1>8. leg' \in Seq(Resumes) /\ \A r \in Legs' : leg'[r].of \in Ids
  BY <1>1 DEF Inv, Types, Legs
<1> QED
  BY <1>1, <1>4, <1>6, <1>7, <1>8, RegistryInv

(* The reaper kills every process in the registry, so all that are frozen.  *)
LEMMA ParentExitsInv == ASSUME Inv, ParentExits PROVE Inv'
<1>1. /\ st' \in [Tasks -> States]
      /\ \A t \in Tasks : st'[t] = "stopped" =>
            st[t] = "stopped" /\ t \notin {susp[s].proc : s \in Live}
  BY KilledGroups DEF Inv, ParentExits
<1>2. \A t \in Tasks : st'[t] # "stopped"
  BY <1>1 DEF Inv, FrozenReachable
<1> QED
  BY <1>1, <1>2 DEF ParentExits, Inv, Types, FrozenReachable, Ids, Legs

LEMMA StepInv == Inv /\ [Next]_vars => Inv'
<1> SUFFICES ASSUME Inv, [Next]_vars PROVE Inv'
  OBVIOUS
<1>1. ASSUME NEW t \in Tasks,
             \/ Spawn(t) \/ SpawnFails(t) \/ Exit(t) \/ Reap(t) \/ DiesFrozen(t)
      PROVE  Inv'
  <2>1. /\ st' \in [Tasks -> States] /\ UNCHANGED <<susp, leg, gone>>
        /\ \A u \in Tasks : st'[u] = "stopped" => st[u] = "stopped"
    BY <1>1 DEF Spawn, SpawnFails, Exit, Reap, DiesFrozen, jobVars, Inv, Types, States
  <2> QED
    BY <2>1, QuietInv
<1>2. ASSUME NEW t \in Tasks, KillFallback(t) PROVE Inv'
  BY <1>2, KilledGroups, QuietInv DEF KillFallback, Inv
<1>3. ASSUME NEW t \in Tasks, HolderEnds(t) PROVE Inv'
  BY <1>3, QuietInv DEF HolderEnds, Inv, Types
<1>4. ASSUME NEW j \in Jobs, Start(j) PROVE Inv'
  BY <1>4, QuietInv DEF Start, procVars, Inv, Types
<1>5. CASE Abort \/ NextRun
  BY <1>5, QuietInv DEF Abort, NextRun, procVars, Inv, Types
<1>6. CASE UNCHANGED vars
  BY <1>6, QuietInv DEF vars, procVars, Inv, Types
<1> QED
  BY <1>1, <1>2, <1>3, <1>4, <1>5, <1>6, ColdWatchdogInv, LegWatchdogInv, ResumeInv, CloseInv,
     KillInv, ParentExitsInv
  DEF Next, Runs, Asked

(* A sub-pi that the watchdog has frozen is held by the registry, where a   *)
(* resume, a kill or the reaper at exit finds it, through any number of     *)
(* resumes, kills and failures (freezeProcessGroup, registerSuspension,     *)
(* parentProcessCleanup).                                                   *)
THEOREM FrozenIsReachable == Spec => []FrozenReachable
<1>1. Inv => FrozenReachable
  BY DEF Inv
<1> QED
  BY <1>1, InitInv, StepInv, PTL DEF Spec
-----------------------------------------------------------------------------
(* What was killed stays killed.                                            *)

Proc(s) == susp[s].proc
Clean(t) == Job(t) \notin tainted
Chained(t) == Kind[Job(t)] = "chain"

JobTypes ==
    /\ cold \in [Tasks -> {"none", "listening", "settled"}]
    /\ result \in [Tasks -> {"none", "ok", "failed", "killed", "suspended"}]
    /\ call \in [Jobs -> {"idle", "running", "parked", "done"}]

(* The run of a suspended task has answered, and its chain waits for it.    *)
LiveInStep ==
    \A s \in Live : Clean(Proc(s)) =>
        /\ cold[Proc(s)] = "settled" /\ result[Proc(s)] # "killed"
        /\ Chained(Proc(s)) => call[Job(Proc(s))] = "parked"
(* A task is suspended once, and so is a chain.                             *)
OneLive ==
    \A s, x \in Live :
        /\ Clean(Proc(s)) /\ Job(Proc(s)) = Job(Proc(x))
        /\ Proc(s) = Proc(x) \/ Chained(Proc(s))
        => s = x
(* A resume under way is of a suspension that is registered or was killed.  *)
LegInStep ==
    \A r \in Legs : Clean(LegTask(r)) /\ leg[r].st # "settled" =>
        /\ leg[r].st = "listening"
        /\ susp[leg[r].of].cancelled \/ susp[leg[r].of].live
OneLeg ==
    \A r, q \in Legs :
        /\ Clean(LegTask(r)) /\ LegTask(r) = LegTask(q)
        /\ leg[r].st # "settled" /\ leg[q].st # "settled"
        => r = q
(* A chain runs one step at a time.                                         *)
OneStep ==
    \A t \in Tasks : Clean(t) /\ Chained(t) /\ cold[t] = "listening" =>
        /\ call[Job(t)] = "running"
        /\ \A u \in Tasks : Job(u) = Job(t) /\ cold[u] = "listening" => u = t
(* A task is killed when its run has answered; a chain ends with the kill.  *)
KilledInStep ==
    \A t \in Tasks : Clean(t) /\ result[t] = "killed" =>
        /\ cold[t] = "settled"
        /\ Chained(t) => call[Job(t)] = "done"

TasksInStep == LiveInStep /\ OneLive /\ LegInStep /\ OneLeg /\ OneStep /\ KilledInStep
TaskInv == Inv /\ JobTypes /\ TasksInStep

LEMMA TaskJob == ASSUME NEW t \in Tasks PROVE Job(t) \in Jobs
BY DEF Tasks, Job

LEMMA RegistryTypes ==
    ASSUME Types
    PROVE  /\ Ids = 1 .. Len(susp) /\ Len(susp) \in Nat
           /\ \A s \in Ids : susp[s] \in Suspensions /\ Proc(s) \in Tasks
           /\ Legs = 1 .. Len(leg) /\ Len(leg) \in Nat
           /\ \A r \in Legs : /\ leg[r] \in Resumes /\ leg[r].of \in Ids
                              /\ LegTask(r) = Proc(leg[r].of) /\ LegTask(r) \in Tasks
<1>1. /\ Ids = 1 .. Len(susp) /\ Len(susp) \in Nat
      /\ Legs = 1 .. Len(leg) /\ Len(leg) \in Nat
  BY DEF Types, Ids, Legs
<1>2. \A s \in Ids : susp[s] \in Suspensions
  BY <1>1, ElementOfSeq DEF Types
<1>3. \A r \in Legs : leg[r] \in Resumes
  BY <1>1, ElementOfSeq DEF Types
<1> QED
  BY <1>1, <1>2, <1>3 DEF Types, Suspensions, LegTask, Proc

(* Steps that leave the tasks, the registry and the resumes alone.          *)
LEMMA TasksQuiet ==
    ASSUME TaskInv, UNCHANGED <<cold, result, call, susp, leg>>, tainted \subseteq tainted'
    PROVE  JobTypes' /\ TasksInStep'
<1>1. JobTypes'
  BY DEF TaskInv, JobTypes
<1>2. /\ Live' = Live /\ Legs' = Legs
      /\ \A s \in Ids : Proc(s)' = Proc(s)
      /\ \A r \in Legs : LegTask(r)' = LegTask(r)
      /\ \A t : Clean(t)' => Clean(t)
  BY DEF Live, Ids, Legs, LegTask, Proc, Clean
<1>3. LiveInStep' /\ OneLive'
  BY <1>2 DEF TaskInv, TasksInStep, LiveInStep, OneLive, Live, Ids, Proc
<1>4. LegInStep' /\ OneLeg'
  BY <1>2 DEF TaskInv, TasksInStep, LegInStep, OneLeg
<1>5. OneStep' /\ KilledInStep'
  BY <1>2 DEF TaskInv, TasksInStep, OneStep, KilledInStep
<1> QED
  BY <1>1, <1>3, <1>4, <1>5 DEF TasksInStep

(* What the end of a task's run changes.                                    *)
LEMMA ColdSettled ==
    ASSUME JobTypes, NEW t \in Tasks, NEW how \in {"ok", "failed", "suspended"}, NEW sus,
           ColdSettles(t, how, sus)
    PROVE  /\ JobTypes'
           /\ \A u \in Tasks : /\ cold'[u] = IF u = t THEN "settled" ELSE cold[u]
                               /\ result'[u] = IF u = t THEN how ELSE result[u]
           /\ \A k \in Jobs : k # Job(t) => call'[k] = call[k]
           /\ Chained(t) /\ how = "suspended" => call'[Job(t)] = "parked"
<1>1. /\ cold' = [cold EXCEPT ![t] = "settled"]
      /\ result' = [result EXCEPT ![t] = how]
  BY DEF ColdSettles
<1>2. \/ call' = call /\ ~Chained(t)
      \/ \E c \in {"running", "parked", "done"} :
            /\ call' = [call EXCEPT ![Job(t)] = c]
            /\ Chained(t) /\ how = "suspended" => c = "parked"
  <2>1. CASE Chained(t)
    <3>1. call' = [call EXCEPT ![Job(t)] = ChainAfter(t, how)]
      BY <2>1 DEF ColdSettles, Chained, StepSettles
    <3>2. /\ ChainAfter(t, how) \in {"running", "parked", "done"}
          /\ how = "suspended" => ChainAfter(t, how) = "parked"
      BY DEF ChainAfter
    <3> QED
      BY <3>1, <3>2
  <2>2. CASE ~Chained(t)
    BY <2>2 DEF ColdSettles, Chained, TaskSettles, ParallelReturns
  <2> QED
    BY <2>1, <2>2
<1>3. Job(t) \in Jobs
  BY TaskJob
<1> QED
  BY <1>1, <1>2, <1>3 DEF JobTypes

(* A run that ends without a suspension.                                    *)
LEMMA ColdEnds ==
    ASSUME TaskInv, NEW t \in Tasks, NEW how \in {"ok", "failed"}, NEW sus,
           ColdSettles(t, how, sus), cold[t] # "settled",
           Chained(t) /\ Clean(t) =>
              /\ call[Job(t)] = "running"
              /\ \A u \in Tasks : Job(u) = Job(t) /\ cold[u] = "listening" => u = t,
           UNCHANGED <<susp, leg>>, tainted \subseteq tainted'
    PROVE  JobTypes' /\ TasksInStep'
<1>1. /\ JobTypes'
      /\ \A u \in Tasks : /\ cold'[u] = IF u = t THEN "settled" ELSE cold[u]
                          /\ result'[u] = IF u = t THEN how ELSE result[u]
      /\ \A k \in Jobs : k # Job(t) => call'[k] = call[k]
  BY ColdSettled DEF TaskInv
<1>2. /\ Live' = Live /\ Legs' = Legs
      /\ \A s \in Live : Proc(s)' = Proc(s) /\ Proc(s) \in Tasks
      /\ \A r \in Legs : LegTask(r)' = LegTask(r)
      /\ \A u : Clean(u)' => Clean(u)
  BY RegistryTypes DEF TaskInv, Inv, Live, Ids, Legs, LegTask, Proc, Clean
<1>3. LiveInStep'
  <2> SUFFICES ASSUME NEW s \in Live, Clean(Proc(s))
               PROVE  /\ cold'[Proc(s)] = "settled" /\ result'[Proc(s)] # "killed"
                      /\ Chained(Proc(s)) => call'[Job(Proc(s))] = "parked"
    BY <1>2 DEF LiveInStep, Clean, Chained
  <2>1. /\ cold[Proc(s)] = "settled" /\ result[Proc(s)] # "killed"
        /\ Chained(Proc(s)) => call[Job(Proc(s))] = "parked"
    BY DEF TaskInv, TasksInStep, LiveInStep
  <2>2. Chained(Proc(s)) => Job(Proc(s)) # Job(t)
    BY <2>1 DEF Chained, Clean
  <2> QED
    BY <1>1, <1>2, <2>1, <2>2, TaskJob
<1>4. OneLive' /\ LegInStep' /\ OneLeg'
  BY <1>2 DEF TaskInv, TasksInStep, OneLive, LegInStep, OneLeg, Chained, Proc
<1>5. OneStep'
  <2> SUFFICES ASSUME NEW u \in Tasks, Clean(u), Chained(u), cold'[u] = "listening"
               PROVE  /\ call'[Job(u)] = "running"
                      /\ \A w \in Tasks : Job(w) = Job(u) /\ cold'[w] = "listening" => w = u
    BY <1>2 DEF OneStep, Chained
  <2>1. u # t /\ cold[u] = "listening"
    BY <1>1
  <2>2. Job(u) # Job(t)
    BY <2>1 DEF Chained, Clean
  <2> QED
    BY <1>1, <2>1, <2>2, TaskJob DEF TaskInv, TasksInStep, OneStep
<1>6. KilledInStep'
  <2> SUFFICES ASSUME NEW u \in Tasks, Clean(u), result'[u] = "killed"
               PROVE  cold'[u] = "settled" /\ (Chained(u) => call'[Job(u)] = "done")
    BY <1>2 DEF KilledInStep, Chained
  <2>1. u # t /\ result[u] = "killed"
    BY <1>1
  <2>2. cold[u] = "settled" /\ (Chained(u) => call[Job(u)] = "done")
    BY <2>1 DEF TaskInv, TasksInStep, KilledInStep
  <2>3. Chained(u) => Job(u) # Job(t)
    BY <2>2 DEF Chained, Clean
  <2> QED
    BY <1>1, <2>2, <2>3, TaskJob
<1> QED
  BY <1>1, <1>3, <1>4, <1>5, <1>6 DEF TasksInStep

(* A step of a chain starts when no other step of it runs.                  *)
LEMMA NoneBusy ==
    ASSUME NEW t \in Tasks, NextTask(t), Chained(t)
    PROVE  /\ call[Job(t)] = "running" /\ cold[t] = "none"
           /\ \A u \in Tasks : Job(u) = Job(t) => cold[u] # "listening"
<1> DEFINE j == Job(t)
<1> DEFINE busy == {i \in Slots(j) : cold[<<j, i>>] = "listening"}
<1>1. Width[j] \in Nat
  BY TaskJob, SubagentAssumption
<1>2. IsFiniteSet(busy)
  <2>1. IsFiniteSet(1 .. Width[j])
    BY <1>1, FS_Interval
  <2> QED
    BY <2>1, FS_Subset DEF Slots
<1>3. Cardinality(busy) < 1
  BY DEF NextTask, Chained
<1>4. busy = {}
  <2>1. Cardinality(busy) \in Nat
    BY <1>2, FS_CardinalityType
  <2>2. Cardinality(busy) = 0
    BY <1>3, <2>1
  <2> QED
    BY <1>2, <2>2, FS_EmptySet
<1>5. \A u \in Tasks : Job(u) = j => u = <<j, Slot(u)>> /\ Slot(u) \in Slots(j)
  BY DEF Tasks, Job, Slot
<1>6. \A u \in Tasks : Job(u) = j => cold[u] # "listening"
  BY <1>4, <1>5
<1> QED
  BY <1>6 DEF NextTask

LEMMA SpawnTasks == ASSUME TaskInv, NEW t \in Tasks, Spawn(t) PROVE JobTypes' /\ TasksInStep'
<1>1. /\ cold' = [cold EXCEPT ![t] = "listening"]
      /\ UNCHANGED <<result, call, susp, leg, tainted>>
      /\ cold[t] = "none"
  BY DEF Spawn, NextTask
<1>2. JobTypes' /\ \A u \in Tasks : cold'[u] = IF u = t THEN "listening" ELSE cold[u]
  BY <1>1 DEF TaskInv, JobTypes
<1>3. /\ Live' = Live /\ Legs' = Legs
      /\ \A s \in Live : Proc(s)' = Proc(s) /\ Proc(s) \in Tasks
      /\ \A r \in Legs : LegTask(r)' = LegTask(r)
      /\ \A u : Clean(u)' = Clean(u)
  BY <1>1, RegistryTypes DEF TaskInv, Inv, Live, Ids, Legs, LegTask, Proc, Clean
<1>4. LiveInStep' /\ OneLive' /\ LegInStep' /\ OneLeg'
  BY <1>1, <1>2, <1>3
     DEF TaskInv, TasksInStep, LiveInStep, OneLive, LegInStep, OneLeg, Chained, Proc
<1>5. OneStep'
  BY <1>1, <1>2, <1>3, NoneBusy DEF Spawn, TaskInv, TasksInStep, OneStep, Chained
<1>6. KilledInStep'
  BY <1>1, <1>2, <1>3 DEF TaskInv, TasksInStep, KilledInStep, Chained
<1> QED
  BY <1>2, <1>4, <1>5, <1>6 DEF TasksInStep

LEMMA SpawnFailsTasks ==
    ASSUME TaskInv, NEW t \in Tasks, SpawnFails(t) PROVE JobTypes' /\ TasksInStep'
<1>1. /\ NextTask(t) /\ ColdSettles(t, "failed", susp)
      /\ UNCHANGED <<susp, leg, tainted>>
  BY DEF SpawnFails
<1>2. cold[t] # "settled"
  BY <1>1 DEF NextTask
<1> QED
  BY <1>1, <1>2, NoneBusy, ColdEnds

(* Frozen: the run has answered, and the new suspension is the only one.    *)
LEMMA ColdWatchdogTasks ==
    ASSUME TaskInv, NEW t \in Tasks, ColdWatchdog(t) PROVE JobTypes' /\ TasksInStep'
<1>1. /\ cold[t] = "listening" /\ UNCHANGED <<leg, tainted>>
      /\ Chained(t) /\ Clean(t) =>
            /\ call[Job(t)] = "running"
            /\ \A u \in Tasks : Job(u) = Job(t) /\ cold[u] = "listening" => u = t
  BY DEF ColdWatchdog, TaskInv, TasksInStep, OneStep
<1>0. PICK n : n = Len(susp) + 1
  OBVIOUS
<1>2. CASE GroupExists(t)
  <2>1. /\ susp' = Append(susp, Suspension(t))
        /\ ColdSettles(t, "suspended", Append(susp, Suspension(t)))
    BY <1>2 DEF ColdWatchdog
  <2>2. /\ JobTypes'
        /\ \A u \in Tasks : /\ cold'[u] = IF u = t THEN "settled" ELSE cold[u]
                            /\ result'[u] = IF u = t THEN "suspended" ELSE result[u]
        /\ \A k \in Jobs : k # Job(t) => call'[k] = call[k]
        /\ Chained(t) => call'[Job(t)] = "parked"
    BY <2>1, ColdSettled DEF TaskInv
  <2>3. /\ Ids' = Ids \union {n} /\ n \notin Ids
        /\ \A s \in Ids : susp'[s] = susp[s]
        /\ susp'[n] = Suspension(t)
    BY <1>0, <2>1, Registered DEF TaskInv, Inv, Types, Ids
  <2>4. /\ Live' = Live \union {n} /\ n \notin Live
        /\ \A s \in Live : Proc(s)' = Proc(s) /\ Proc(s) \in Tasks
        /\ Proc(n)' = t
    <3>1. susp'[n].live /\ susp'[n].proc = t
      BY <2>3 DEF Suspension
    <3>2. \A s \in Ids' : s \in Ids \/ s = n
      BY <2>3
    <3>3. \A s \in Ids : susp'[s].live = susp[s].live /\ susp'[s].proc = susp[s].proc
      BY <2>3
    <3>4. Live' = Live \union {n} /\ n \notin Live
      BY <2>3, <3>1, <3>2, <3>3 DEF Live
    <3> QED
      BY <3>1, <3>3, <3>4, RegistryTypes DEF TaskInv, Inv, Live, Proc
  <2>5. /\ Legs' = Legs
        /\ \A r \in Legs : LegTask(r)' = LegTask(r) /\ susp'[leg[r].of] = susp[leg[r].of]
        /\ \A u : Clean(u)' = Clean(u) /\ Chained(u)' = Chained(u)
    BY <1>1, <2>3, RegistryTypes DEF TaskInv, Inv, Legs, LegTask, Clean, Chained
  <2>6. \A s \in Live : Clean(Proc(s)) =>
            /\ cold[Proc(s)] = "settled" /\ result[Proc(s)] # "killed" /\ Proc(s) # t
            /\ Chained(Proc(s)) => call[Job(Proc(s))] = "parked" /\ Job(Proc(s)) # Job(t)
    BY <1>1 DEF TaskInv, TasksInStep, LiveInStep, Clean, Chained
  <2>7. LiveInStep'
    <3> SUFFICES ASSUME NEW s \in Live', Clean(Proc(s)')
                 PROVE  /\ cold'[Proc(s)'] = "settled" /\ result'[Proc(s)'] # "killed"
                        /\ Chained(Proc(s)') => call'[Job(Proc(s)')] = "parked"
      BY <1>1 DEF LiveInStep, Clean, Chained
    <3>1. CASE s = n
      BY <2>2, <2>4, <3>1
    <3>2. CASE s \in Live
      <4>1. Proc(s)' = Proc(s) /\ Proc(s) \in Tasks /\ Job(Proc(s)) \in Jobs
        BY <2>4, <3>2, TaskJob
      <4> QED
        BY <2>2, <2>6, <3>2, <4>1
    <3> QED
      BY <2>4, <3>1, <3>2
  <2>8. OneLive'
    <3> SUFFICES ASSUME NEW s \in Live', NEW x \in Live',
                        Clean(Proc(s)'), Job(Proc(s)') = Job(Proc(x)'),
                        Proc(s)' = Proc(x)' \/ Chained(Proc(s)')
                 PROVE  s = x
      BY <1>1 DEF OneLive, Clean, Chained
    <3>1. CASE s \in Live /\ x \in Live
      BY <2>4, <3>1 DEF TaskInv, TasksInStep, OneLive
    <3>2. CASE s = n /\ x \in Live
      BY <2>4, <2>6, <3>2 DEF Clean, Chained
    <3>3. CASE x = n /\ s \in Live
      BY <2>4, <2>6, <3>3 DEF Clean, Chained
    <3> QED
      BY <2>4, <3>1, <3>2, <3>3
  <2>9. LegInStep' /\ OneLeg'
    BY <1>1, <2>5 DEF TaskInv, TasksInStep, LegInStep, OneLeg
  <2>10. OneStep'
    <3> SUFFICES ASSUME NEW u \in Tasks, Clean(u), Chained(u), cold'[u] = "listening"
                 PROVE  /\ call'[Job(u)] = "running"
                        /\ \A w \in Tasks : Job(w) = Job(u) /\ cold'[w] = "listening" => w = u
      BY <2>5 DEF OneStep
    <3>1. u # t /\ cold[u] = "listening"
      BY <2>2
    <3>2. Job(u) # Job(t)
      BY <1>1, <3>1 DEF Chained, Clean
    <3> QED
      BY <2>2, <3>1, <3>2, TaskJob DEF TaskInv, TasksInStep, OneStep
  <2>11. KilledInStep'
    <3> SUFFICES ASSUME NEW u \in Tasks, Clean(u), result'[u] = "killed"
                 PROVE  cold'[u] = "settled" /\ (Chained(u) => call'[Job(u)] = "done")
      BY <2>5 DEF KilledInStep
    <3>1. u # t /\ result[u] = "killed"
      BY <2>2
    <3>2. cold[u] = "settled" /\ (Chained(u) => call[Job(u)] = "done")
      BY <3>1 DEF TaskInv, TasksInStep, KilledInStep
    <3>3. Chained(u) => Job(u) # Job(t)
      BY <1>1, <3>2 DEF Chained, Clean
    <3> QED
      BY <2>2, <3>2, <3>3, TaskJob
  <2> QED
    BY <2>2, <2>7, <2>8, <2>9, <2>10, <2>11 DEF TasksInStep
<1>3. CASE ~GroupExists(t)
  BY <1>1, <1>3, ColdEnds DEF ColdWatchdog
<1> QED
  BY <1>2, <1>3

LEMMA ColdCloseTasks ==
    ASSUME TaskInv, NEW t \in Tasks, ColdClose(t) PROVE JobTypes' /\ TasksInStep'
<1>1. /\ cold[t] = "listening" /\ UNCHANGED <<susp, leg, tainted>>
      /\ \E how \in {"ok", "failed"} : ColdSettles(t, how, susp)
  BY DEF ColdClose
<1>2. Chained(t) /\ Clean(t) =>
            /\ call[Job(t)] = "running"
            /\ \A u \in Tasks : Job(u) = Job(t) /\ cold[u] = "listening" => u = t
  BY <1>1 DEF TaskInv, TasksInStep, OneStep
<1> QED
  BY <1>1, <1>2, ColdEnds
(* A step that taints a job and leaves the other jobs alone.                *)
LEMMA JobTainted ==
    ASSUME TaskInv, JobTypes', NEW j \in Jobs, j \in tainted', tainted \subseteq tainted',
           \A u \in Tasks : Job(u) # j => cold'[u] = cold[u] /\ result'[u] = result[u],
           \A k \in Jobs : k # j => call'[k] = call[k],
           \A s \in Live' : /\ susp'[s].proc \in Tasks
                            /\ Job(susp'[s].proc) # j => s \in Live /\ susp'[s] = susp[s],
           Legs \subseteq Legs',
           \A r \in Legs' : /\ LegTask(r)' \in Tasks
                            /\ Job(LegTask(r)') # j =>
                                  /\ r \in Legs /\ leg'[r] = leg[r]
                                  /\ susp'[leg[r].of] = susp[leg[r].of]
    PROVE  TasksInStep'
<1>1. \A u : Clean(u)' => Clean(u) /\ Job(u) # j
  BY DEF Clean
<1>2. \A u : Chained(u)' = Chained(u)
  BY DEF Chained
<1>3. \A s \in Live' : Job(susp'[s].proc) \notin tainted' =>
          /\ s \in Live /\ susp'[s].proc = Proc(s) /\ Proc(s) \in Tasks /\ Clean(Proc(s))
          /\ Job(Proc(s)) # j /\ Job(Proc(s)) \in Jobs
  BY TaskJob DEF Proc, Clean
<1>4. \A r \in Legs' : Job(LegTask(r)') \notin tainted' /\ Job(LegTask(r)') # j =>
          /\ r \in Legs /\ LegTask(r)' = LegTask(r) /\ leg'[r] = leg[r]
          /\ susp'[leg'[r].of] = susp[leg[r].of] /\ Clean(LegTask(r))
  BY DEF LegTask, Clean
<1>5. LiveInStep'
  <2> SUFFICES ASSUME NEW s \in Live', Job(susp'[s].proc) \notin tainted'
               PROVE  /\ cold'[susp'[s].proc] = "settled" /\ result'[susp'[s].proc] # "killed"
                      /\ Chained(susp'[s].proc) => call'[Job(susp'[s].proc)] = "parked"
    BY DEF LiveInStep, Proc, Clean, Chained
  <2> QED
    BY <1>3 DEF TaskInv, TasksInStep, LiveInStep
<1>6. OneLive'
  <2> SUFFICES ASSUME NEW s \in Live', NEW x \in Live', Job(susp'[s].proc) \notin tainted',
                      Job(susp'[s].proc) = Job(susp'[x].proc),
                      susp'[s].proc = susp'[x].proc \/ Chained(susp'[s].proc)
               PROVE  s = x
    BY DEF OneLive, Proc, Clean, Chained
  <2>1. Job(susp'[x].proc) \notin tainted'
    BY DEF Clean
  <2> QED
    BY <1>3, <2>1 DEF TaskInv, TasksInStep, OneLive
<1>7. LegInStep'
  <2> SUFFICES ASSUME NEW r \in Legs', Clean(LegTask(r))', leg'[r].st # "settled"
               PROVE  /\ leg'[r].st = "listening"
                      /\ susp'[leg'[r].of].cancelled \/ susp'[leg'[r].of].live
    BY DEF LegInStep
  <2>1. Job(LegTask(r)') \notin tainted' /\ Job(LegTask(r)') # j
    BY <1>1 DEF Clean
  <2> QED
    BY <1>4, <2>1 DEF TaskInv, TasksInStep, LegInStep
<1>8. OneLeg'
  <2> SUFFICES ASSUME NEW r \in Legs', NEW q \in Legs', Clean(LegTask(r))',
                      LegTask(r)' = LegTask(q)',
                      leg'[r].st # "settled", leg'[q].st # "settled"
               PROVE  r = q
    BY DEF OneLeg
  <2>1. Job(LegTask(r)') \notin tainted' /\ Job(LegTask(r)') # j
    BY <1>1 DEF Clean
  <2>2. Job(LegTask(q)') \notin tainted' /\ Job(LegTask(q)') # j
    BY <2>1
  <2> QED
    BY <1>4, <2>1, <2>2 DEF TaskInv, TasksInStep, OneLeg
<1>9. OneStep' /\ KilledInStep'
  BY <1>1, <1>2, TaskJob DEF TaskInv, TasksInStep, OneStep, KilledInStep
<1> QED
  BY <1>5, <1>6, <1>7, <1>8, <1>9 DEF TasksInStep

(* A step that ends a suspension, by a kill or by the end of its process.   *)
LEMMA SuspensionEnds ==
    ASSUME TaskInv, JobTypes', NEW s \in Live, Clean(Proc(s)), tainted \subseteq tainted',
           NEW how \in {"ok", "failed", "killed"},
           UNCHANGED cold, result' = [result EXCEPT ![Proc(s)] = how],
           \A k \in Jobs : k # Job(Proc(s)) => call'[k] = call[k],
           how = "killed" /\ Chained(Proc(s)) => call'[Job(Proc(s))] = "done",
           Live' = Live \ {s},
           \A x \in Ids : susp'[x].proc = susp[x].proc /\ (x # s => susp'[x] = susp[x]),
           Legs' = Legs,
           \A r \in Legs : /\ leg'[r].of = leg[r].of
                           /\ leg'[r].st \in {leg[r].st, "settled"}
                           /\ leg'[r].st # "settled" /\ leg[r].of = s => susp'[s].cancelled
    PROVE  TasksInStep'
<1> DEFINE t == Proc(s)
<1>1. s \in Ids /\ t \in Tasks /\ Job(t) \in Jobs
  BY RegistryTypes, TaskJob DEF Live, TaskInv, Inv
<1>2. /\ cold[t] = "settled"
      /\ Chained(t) => call[Job(t)] = "parked"
  BY DEF TaskInv, TasksInStep, LiveInStep
<1>3. \A u \in Tasks : result'[u] = IF u = t THEN how ELSE result[u]
  BY <1>1 DEF TaskInv, JobTypes
<1>4. \A u : /\ Clean(u)' => Clean(u)
             /\ Chained(u)' = Chained(u)
  BY DEF Clean, Chained
<1>5. \A x \in Live' : /\ x \in Live /\ x # s /\ Proc(x)' = Proc(x)
                       /\ Proc(x) \in Tasks /\ Job(Proc(x)) \in Jobs
  BY RegistryTypes, TaskJob DEF Live, TaskInv, Inv, Proc
<1>6. \A r \in Legs : leg[r].of \in Ids /\ LegTask(r)' = LegTask(r)
  BY RegistryTypes DEF TaskInv, Inv, LegTask
<1> HIDE DEF t
<1>7. LiveInStep'
  <2> SUFFICES ASSUME NEW x \in Live', Clean(Proc(x))
               PROVE  /\ cold'[Proc(x)] = "settled" /\ result'[Proc(x)] # "killed"
                      /\ Chained(Proc(x)) => call'[Job(Proc(x))] = "parked"
    BY <1>4, <1>5 DEF LiveInStep, Clean, Chained
  <2>1. /\ cold[Proc(x)] = "settled" /\ result[Proc(x)] # "killed"
        /\ Chained(Proc(x)) => call[Job(Proc(x))] = "parked"
    BY <1>5 DEF TaskInv, TasksInStep, LiveInStep
  <2>2. Proc(x) # t /\ (Chained(Proc(x)) => Job(Proc(x)) # Job(t))
    BY <1>5 DEF TaskInv, TasksInStep, OneLive, t
  <2> QED
    BY <1>3, <1>5, <2>1, <2>2 DEF t
<1>8. OneLive'
  <2> SUFFICES ASSUME NEW x \in Live', NEW y \in Live', Clean(Proc(x)),
                      Job(Proc(x)) = Job(Proc(y)),
                      Proc(x) = Proc(y) \/ Chained(Proc(x))
               PROVE  x = y
    BY <1>4, <1>5 DEF OneLive, Clean, Chained
  <2> QED
    BY <1>5 DEF TaskInv, TasksInStep, OneLive
<1>9. LegInStep'
  <2> SUFFICES ASSUME NEW r \in Legs, Clean(LegTask(r)), leg'[r].st # "settled"
               PROVE  /\ leg'[r].st = "listening"
                      /\ susp'[leg'[r].of].cancelled \/ susp'[leg'[r].of].live
    BY <1>4, <1>6 DEF LegInStep, Clean
  <2>1. leg[r].st = "listening" /\ (susp[leg[r].of].cancelled \/ susp[leg[r].of].live)
    BY DEF TaskInv, TasksInStep, LegInStep
  <2> QED
    BY <1>6, <2>1
<1>10. OneLeg'
  <2> SUFFICES ASSUME NEW r \in Legs, NEW q \in Legs, Clean(LegTask(r)),
                      LegTask(r) = LegTask(q),
                      leg'[r].st # "settled", leg'[q].st # "settled"
               PROVE  r = q
    BY <1>4, <1>6 DEF OneLeg, Clean
  <2> QED
    BY DEF TaskInv, TasksInStep, OneLeg
<1>11. OneStep'
  <2> SUFFICES ASSUME NEW u \in Tasks, Clean(u), Chained(u), cold[u] = "listening"
               PROVE  /\ call'[Job(u)] = "running"
                      /\ \A w \in Tasks : Job(w) = Job(u) /\ cold[w] = "listening" => w = u
    BY <1>4 DEF OneStep
  <2>1. /\ call[Job(u)] = "running"
        /\ \A w \in Tasks : Job(w) = Job(u) /\ cold[w] = "listening" => w = u
    BY DEF TaskInv, TasksInStep, OneStep
  <2>2. Job(u) # Job(t)
    BY <1>2, <2>1 DEF Chained, t
  <2> QED
    BY <2>1, <2>2, TaskJob DEF t
<1>12. KilledInStep'
  <2> SUFFICES ASSUME NEW u \in Tasks, Clean(u), result'[u] = "killed"
               PROVE  cold[u] = "settled" /\ (Chained(u) => call'[Job(u)] = "done")
    BY <1>4 DEF KilledInStep
  <2>1. CASE u = t
    BY <1>1, <1>2, <1>3, <2>1 DEF t
  <2>2. CASE u # t
    <3>1. cold[u] = "settled" /\ (Chained(u) => call[Job(u)] = "done")
      BY <1>3, <2>2 DEF TaskInv, TasksInStep, KilledInStep
    <3>2. Chained(u) => Job(u) # Job(t)
      BY <1>2, <3>1 DEF Chained, t
    <3> QED
      BY <3>1, <3>2, TaskJob DEF t
  <2> QED
    BY <2>1, <2>2
<1> QED
  BY <1>7, <1>8, <1>9, <1>10, <1>11, <1>12 DEF TasksInStep
(* What dropping a suspension and settling a resume change.                 *)
LEMMA Dropped ==
    ASSUME Types, NEW s \in Ids, susp' = Unregister(susp, s)
    PROVE  /\ Ids' = Ids /\ Live' = Live \ {s}
           /\ \A x \in Ids : /\ susp'[x].proc = susp[x].proc
                             /\ x # s => susp'[x] = susp[x]
<1>1. susp' = [susp EXCEPT ![s] = [susp[s] EXCEPT !.live = FALSE]]
  BY DEF Unregister
<1>2. s \in DOMAIN susp /\ susp[s] \in Suspensions
  BY RegistryTypes DEF Ids
<1>3. Ids' = Ids /\ \A x \in Ids : x # s => susp'[x] = susp[x]
  BY <1>1 DEF Ids, Types
<1>4. susp'[s].proc = susp[s].proc /\ susp'[s].live = FALSE
  BY <1>1, <1>2 DEF Suspensions, Types
<1>5. Live' = Live \ {s}
  BY <1>3, <1>4 DEF Live
<1> QED
  BY <1>3, <1>4, <1>5

LEMMA LegEnds ==
    ASSUME Types, NEW r \in Legs, leg' = [leg EXCEPT ![r].st = "settled"]
    PROVE  /\ Legs' = Legs
           /\ \A x \in Legs : /\ leg'[x].of = leg[x].of
                              /\ leg'[x].st = IF x = r THEN "settled" ELSE leg[x].st
                              /\ x # r => leg'[x] = leg[x]
<1>1. r \in DOMAIN leg /\ leg[r] \in Resumes
  BY RegistryTypes DEF Legs
<1>2. leg' = [leg EXCEPT ![r] = [leg[r] EXCEPT !.st = "settled"]]
  OBVIOUS
<1> QED
  BY <1>1, <1>2 DEF Legs, Resumes, Types

LEMMA ResumeFailsTasks ==
    ASSUME TaskInv, NEW s \in Live, ResumeFails(s), UNCHANGED cold
    PROVE  JobTypes' /\ TasksInStep'
<1> DEFINE t == Proc(s)
<1>1. s \in Ids /\ t \in Tasks /\ Job(t) \in Jobs
  BY RegistryTypes, TaskJob DEF Live, TaskInv, Inv
<1>2. /\ susp' = Unregister(susp, s) /\ leg' = leg
      /\ result' = [result EXCEPT ![t] = "failed"]
      /\ call' = [call EXCEPT ![Job(t)] = IF Siblings(s) = {} THEN "done" ELSE @]
      /\ tainted' = tainted \union {Job(t)}
  BY DEF ResumeFails, Proc
<1>3. Ids' = Ids /\ Live' = Live \ {s}
      /\ \A x \in Ids : susp'[x].proc = susp[x].proc /\ (x # s => susp'[x] = susp[x])
  BY <1>1, <1>2, Dropped DEF TaskInv, Inv
<1>4. /\ JobTypes'
      /\ \A u \in Tasks : Job(u) # Job(t) => cold'[u] = cold[u] /\ result'[u] = result[u]
      /\ \A k \in Jobs : k # Job(t) => call'[k] = call[k]
  BY <1>1, <1>2 DEF TaskInv, JobTypes
<1>5. \A x \in Live' : /\ susp'[x].proc \in Tasks
                       /\ x \in Live /\ susp'[x] = susp[x]
  BY <1>3, RegistryTypes DEF Live, TaskInv, Inv, Proc
<1>6. Legs' = Legs
      /\ \A r \in Legs : /\ LegTask(r)' \in Tasks
                         /\ Job(LegTask(r)') # Job(t) => susp'[leg[r].of] = susp[leg[r].of]
  BY <1>2, <1>3, RegistryTypes DEF TaskInv, Inv, LegTask, Legs, Proc
<1>7. Job(t) \in tainted' /\ tainted \subseteq tainted'
  BY <1>2
<1> HIDE DEF t
<1> QED
  BY <1>1, <1>2, <1>4, <1>5, <1>6, <1>7, JobTainted

LEMMA KillTasks ==
    ASSUME TaskInv, NEW s \in Ids, Kill(s) PROVE JobTypes' /\ TasksInStep'
<1> DEFINE t == Proc(s)
<1>1. s \in Live /\ t \in Tasks /\ Job(t) \in Jobs
  BY RegistryTypes, TaskJob DEF Kill, TaskInv, Inv
<1>2. /\ susp' = [susp EXCEPT ![s].cancelled = TRUE, ![s].live = FALSE]
      /\ result' = [result EXCEPT ![t] = "killed"]
      /\ call' = [call EXCEPT ![Job(t)] = IF Siblings(s) = {} THEN "done" ELSE @]
      /\ UNCHANGED <<cold, leg, tainted>>
  BY DEF Kill, Proc
<1>3. /\ Ids' = Ids /\ Live' = Live \ {s}
      /\ \A x \in Ids : susp'[x].proc = susp[x].proc /\ (x # s => susp'[x] = susp[x])
      /\ susp'[s].cancelled
  <2>1. s \in DOMAIN susp /\ susp[s] \in Suspensions
    BY RegistryTypes DEF Ids, TaskInv, Inv
  <2>2. susp' = [susp EXCEPT ![s] = [susp[s] EXCEPT !.cancelled = TRUE, !.live = FALSE]]
    BY <1>2, <2>1 DEF TaskInv, Inv, Types
  <2>3. Ids' = Ids /\ \A x \in Ids : x # s => susp'[x] = susp[x]
    BY <2>2 DEF Ids, TaskInv, Inv, Types
  <2>4. susp'[s].proc = susp[s].proc /\ susp'[s].live = FALSE /\ susp'[s].cancelled
    BY <2>1, <2>2 DEF Suspensions, TaskInv, Inv, Types
  <2>5. Live' = Live \ {s}
    BY <2>3, <2>4 DEF Live
  <2> QED
    BY <2>3, <2>4, <2>5
<1>4. JobTypes' /\ \A k \in Jobs : k # Job(t) => call'[k] = call[k]
  BY <1>1, <1>2 DEF TaskInv, JobTypes
<1>5. CASE Clean(t)
  <2>1. Chained(t) => Siblings(s) = {}
    BY <1>1, <1>5 DEF TaskInv, TasksInStep, OneLive, Siblings, Proc
  <2>2. Chained(t) => call'[Job(t)] = "done"
    BY <1>1, <1>2, <2>1 DEF TaskInv, JobTypes
  <2>3. Legs' = Legs /\ \A r \in Legs :
            leg'[r].of = leg[r].of /\ leg'[r].st \in {leg[r].st, "settled"}
    BY <1>2 DEF Legs
  <2> QED
    BY <1>1, <1>2, <1>3, <1>4, <1>5, <2>2, <2>3, SuspensionEnds
<1>6. CASE ~Clean(t)
  <2>1. Job(t) \in tainted'
    BY <1>2, <1>6 DEF Clean
  <2>2. \A u \in Tasks : Job(u) # Job(t) => cold'[u] = cold[u] /\ result'[u] = result[u]
    BY <1>2 DEF TaskInv, JobTypes
  <2>3. \A x \in Live' : susp'[x].proc \in Tasks /\ x \in Live /\ susp'[x] = susp[x]
    BY <1>3, RegistryTypes DEF Live, TaskInv, Inv, Proc
  <2>4. Legs' = Legs
        /\ \A r \in Legs : /\ LegTask(r)' \in Tasks
                           /\ Job(LegTask(r)') # Job(t) => susp'[leg[r].of] = susp[leg[r].of]
    BY <1>2, <1>3, RegistryTypes DEF TaskInv, Inv, LegTask, Legs, Proc
  <2> HIDE DEF t
  <2> QED
    BY <1>1, <1>2, <1>4, <2>1, <2>2, <2>3, <2>4, JobTainted
<1> QED
  BY <1>5, <1>6
(* A resume takes over a process that no other resume listens to, or taints *)
(* its job.                                                                 *)
LEMMA ResumeThawsTasks ==
    ASSUME TaskInv, NEW s \in Live, ResumeThaws(s), UNCHANGED cold
    PROVE  JobTypes' /\ TasksInStep'
<1> DEFINE t == Proc(s)
<1>0. PICK n : n = Len(leg) + 1
  OBVIOUS
<1> DEFINE g == [r \in Legs |-> IF r \in Listening(t) THEN [leg[r] EXCEPT !.st = "deaf"]
                                ELSE leg[r]]
<1>1. s \in Ids /\ t \in Tasks /\ Job(t) \in Jobs
  BY RegistryTypes, TaskJob DEF Live, TaskInv, Inv
<1>2. /\ leg' = Append(g, [of |-> s, st |-> "listening"])
      /\ UNCHANGED <<result, call, susp, cold>>
      /\ tainted' = IF Listening(t) = {} THEN tainted ELSE tainted \union {Job(t)}
  BY DEF ResumeThaws, Proc
<1>3. JobTypes'
  BY <1>2 DEF TaskInv, JobTypes
<1>4. /\ Legs' = Legs \union {n} /\ n \notin Legs
      /\ \A r \in Legs : leg'[r] = g[r]
      /\ leg'[n].of = s /\ leg'[n].st = "listening"
  <2>1. Legs = 1 .. Len(leg) /\ Len(leg) \in Nat /\ \A r \in Legs : leg[r] \in Resumes
    BY RegistryTypes DEF TaskInv, Inv
  <2>2. g \in [1 .. Len(leg) -> Resumes]
    BY <2>1 DEF Resumes
  <2> HIDE DEF g
  <2>3. g \in Seq(Resumes) /\ Len(g) = Len(leg) /\ DOMAIN g = Legs
    BY <2>1, <2>2, SeqDef
  <2> QED
    BY <1>0, <1>2, <2>1, <2>3 DEF Legs
<1>5. \A r \in Legs : /\ leg'[r].of = leg[r].of
                      /\ r \notin Listening(t) => leg'[r] = leg[r]
  BY <1>4, RegistryTypes DEF TaskInv, Inv, Resumes
<1> HIDE DEF g
<1>6. /\ Live' = Live /\ \A x \in Live : susp'[x].proc \in Tasks
      /\ \A x : Proc(x)' = Proc(x)
      /\ \A r \in Legs : LegTask(r)' = LegTask(r) /\ LegTask(r) \in Tasks
      /\ LegTask(n)' = t
  BY <1>0, <1>1, <1>2, <1>4, <1>5, RegistryTypes DEF TaskInv, Inv, Live, Ids, LegTask, Proc
<1>7. CASE Job(t) \in tainted'
  <2>1. \A r \in Legs' : /\ LegTask(r)' \in Tasks
                         /\ Job(LegTask(r)') # Job(t) =>
                               /\ r \in Legs /\ leg'[r] = leg[r]
                               /\ susp'[leg[r].of] = susp[leg[r].of]
    BY <1>1, <1>2, <1>4, <1>5, <1>6 DEF Listening
  <2>2. \A x \in Live' : susp'[x].proc \in Tasks /\ x \in Live /\ susp'[x] = susp[x]
    BY <1>2, <1>6
  <2>3. Legs \subseteq Legs' /\ tainted \subseteq tainted'
    BY <1>2, <1>4
  <2> HIDE DEF t
  <2> QED
    BY <1>1, <1>2, <1>3, <1>7, <2>1, <2>2, <2>3, JobTainted
<1>8. CASE Job(t) \notin tainted'
  <2>1. Listening(t) = {} /\ tainted' = tainted /\ Clean(t)
    BY <1>2, <1>8 DEF Clean
  <2>2. \A r \in Legs : LegTask(r) = t => leg[r].st = "settled"
    BY <2>1 DEF TaskInv, TasksInStep, LegInStep, Listening
  <2>3. \A r \in Legs : leg'[r] = leg[r]
    BY <1>5, <2>1
  <2>4. LiveInStep' /\ OneLive' /\ OneStep' /\ KilledInStep'
    BY <1>2, <1>6, <2>1 DEF TaskInv, TasksInStep, LiveInStep, OneLive, OneStep, KilledInStep,
                            Clean, Chained, Proc
  <2>5. LegInStep'
    <3> SUFFICES ASSUME NEW r \in Legs', Clean(LegTask(r)'), leg'[r].st # "settled"
                 PROVE  /\ leg'[r].st = "listening"
                        /\ susp[leg'[r].of].cancelled \/ susp[leg'[r].of].live
      BY <1>2, <2>1 DEF LegInStep, Clean
    <3>1. CASE r = n
      BY <1>4, <3>1 DEF Live
    <3>2. CASE r \in Legs
      BY <1>6, <2>3, <3>2 DEF TaskInv, TasksInStep, LegInStep
    <3> QED
      BY <1>4, <3>1, <3>2
  <2>6. OneLeg'
    <3> SUFFICES ASSUME NEW r \in Legs', NEW q \in Legs', Clean(LegTask(r)'),
                        LegTask(r)' = LegTask(q)',
                        leg'[r].st # "settled", leg'[q].st # "settled"
                 PROVE  r = q
      BY <2>1 DEF OneLeg, Clean
    <3>1. CASE r = n \/ q = n
      BY <1>4, <1>6, <2>2, <2>3, <3>1
    <3>2. CASE r \in Legs /\ q \in Legs
      BY <1>6, <2>3, <3>2 DEF TaskInv, TasksInStep, OneLeg
    <3> QED
      BY <1>4, <3>1, <3>2
  <2> QED
    BY <1>3, <2>4, <2>5, <2>6 DEF TasksInStep
<1> QED
  BY <1>7, <1>8

(* A resume that is killed and then hears the close only answers.           *)
LEMMA LegSettlesTasks ==
    ASSUME TaskInv, NEW r \in Legs, leg' = [leg EXCEPT ![r].st = "settled"],
           UNCHANGED <<cold, result, call, susp, tainted>>
    PROVE  JobTypes' /\ TasksInStep'
<1>1. /\ Legs' = Legs
      /\ \A x \in Legs : /\ leg'[x].of = leg[x].of
                         /\ leg'[x].st = IF x = r THEN "settled" ELSE leg[x].st
  BY LegEnds DEF TaskInv, Inv
<1>2. /\ Live' = Live
      /\ \A x : Proc(x)' = Proc(x) /\ Clean(x)' = Clean(x) /\ Chained(x)' = Chained(x)
      /\ \A x \in Legs : LegTask(x)' = LegTask(x)
  BY <1>1 DEF Live, Ids, Proc, Clean, Chained, LegTask
<1>3. JobTypes'
  BY DEF TaskInv, JobTypes
<1>4. LiveInStep' /\ OneLive' /\ OneStep' /\ KilledInStep'
  BY <1>2 DEF TaskInv, TasksInStep, LiveInStep, OneLive, OneStep, KilledInStep,
              Clean, Chained, Proc
<1>5. LegInStep' /\ OneLeg'
  BY <1>1, <1>2 DEF TaskInv, TasksInStep, LegInStep, OneLeg, Clean
<1> QED
  BY <1>3, <1>4, <1>5 DEF TasksInStep

LEMMA LegCloseTasks ==
    ASSUME TaskInv, NEW t \in Tasks, LegClose(t) PROVE JobTypes' /\ TasksInStep'
<1>1. PICK r \in Listening(t) :
          /\ leg' = [leg EXCEPT ![r].st = "settled"]
          /\ IF susp[leg[r].of].cancelled
             THEN UNCHANGED <<result, call, completed, report, susp, tainted>>
             ELSE /\ susp' = Unregister(susp, leg[r].of)
                  /\ result' = [result EXCEPT ![t] = IF code[t] = "ok" THEN "ok" ELSE "failed"]
                  /\ IF Chained(t) THEN ChainContinues(t)
                     ELSE \E how : ParallelContinues(leg[r].of, how)
          /\ UNCHANGED cold
  BY SubagentAssumption, TaskJob DEF LegClose, Chained
<1>2. PICK s : s = leg[r].of
  OBVIOUS
<1>3. /\ r \in Legs /\ s \in Ids /\ Proc(s) = t /\ Job(t) \in Jobs
      /\ leg[r].st = "listening" /\ LegTask(r) = t
  BY <1>2, RegistryTypes, TaskJob DEF Listening, TaskInv, Inv
<1>4. CASE susp[s].cancelled
  BY <1>1, <1>2, <1>3, <1>4, LegSettlesTasks
<1>5. CASE ~susp[s].cancelled
  <2>1. /\ susp' = Unregister(susp, s)
        /\ \E how \in {"ok", "failed"} : result' = [result EXCEPT ![t] = how]
        /\ \/ Chained(t) /\ ChainContinues(t)
           \/ \E how : ParallelContinues(s, how)
        /\ UNCHANGED cold
    BY <1>1, <1>2, <1>5
  <2>2. /\ Legs' = Legs
        /\ \A x \in Legs : /\ leg'[x].of = leg[x].of
                           /\ leg'[x].st = IF x = r THEN "settled" ELSE leg[x].st
                           /\ x # r => leg'[x] = leg[x]
    BY <1>1, <1>3, LegEnds DEF TaskInv, Inv
  <2>3. /\ Ids' = Ids /\ Live' = Live \ {s}
        /\ \A x \in Ids : susp'[x].proc = susp[x].proc /\ (x # s => susp'[x] = susp[x])
    BY <1>3, <2>1, Dropped DEF TaskInv, Inv
  <2>4. /\ \E c \in {"running", "parked", "done"} : call' = [call EXCEPT ![Job(t)] = c]
        /\ tainted \subseteq tainted'
    BY <1>3, <2>1 DEF ChainContinues, ParallelContinues, Proc
  <2>5. /\ JobTypes'
        /\ \A k \in Jobs : k # Job(t) => call'[k] = call[k]
        /\ \A u \in Tasks : u # t => result'[u] = result[u]
    BY <1>3, <2>1, <2>4 DEF TaskInv, JobTypes
  <2>6. CASE Clean(t)
    <3>1. s \in Live
      BY <1>2, <1>3, <1>5, <2>6 DEF TaskInv, TasksInStep, LegInStep, Live
    <3>2. \A x \in Legs : leg'[x].st # "settled" /\ leg[x].of = s => x = r
      BY <1>3, <2>2, <2>6, RegistryTypes DEF TaskInv, Inv, TasksInStep, OneLeg
    <3>3. PICK how \in {"ok", "failed"} : result' = [result EXCEPT ![Proc(s)] = how]
      BY <1>3, <2>1
    <3>4. \A x \in Legs : /\ leg'[x].of = leg[x].of
                          /\ leg'[x].st \in {leg[x].st, "settled"}
                          /\ leg'[x].st # "settled" /\ leg[x].of = s => susp'[s].cancelled
      BY <2>2, <3>2
    <3>5. \A k \in Jobs : k # Job(Proc(s)) => call'[k] = call[k]
      BY <1>3, <2>5
    <3>6. Clean(Proc(s)) /\ UNCHANGED cold /\ Legs' = Legs
      BY <1>3, <2>1, <2>2, <2>6
    <3> HIDE DEF TaskInv, JobTypes, TasksInStep, Clean, Chained, Proc
    <3> QED
      BY <2>3, <2>4, <2>5, <3>1, <3>3, <3>4, <3>5, <3>6, SuspensionEnds
  <2>7. CASE ~Clean(t)
    <3>1. Job(t) \in tainted'
      BY <2>4, <2>7 DEF Clean
    <3>2. \A u \in Tasks : Job(u) # Job(t) => cold'[u] = cold[u] /\ result'[u] = result[u]
      BY <2>1, <2>5
    <3>3. \A x \in Live' : susp'[x].proc \in Tasks /\ x \in Live /\ susp'[x] = susp[x]
      BY <2>3, RegistryTypes DEF Live, TaskInv, Inv, Proc
    <3>4. \A x \in Legs : /\ LegTask(x)' \in Tasks
                          /\ Job(LegTask(x)') # Job(t) =>
                                leg'[x] = leg[x] /\ susp'[leg[x].of] = susp[leg[x].of]
      BY <1>3, <2>2, <2>3, RegistryTypes DEF TaskInv, Inv, LegTask, Proc
    <3> QED
      BY <1>3, <2>2, <2>4, <2>5, <3>1, <3>2, <3>3, <3>4, JobTainted
  <2> QED
    BY <2>6, <2>7
<1> QED
  BY <1>4, <1>5
(* A resumed process that falls silent is frozen once more, under a new     *)
(* suspension in place of the old one.                                      *)
LEMMA LegFreezesTasks ==
    ASSUME TaskInv, NEW r \in Legs, Clean(LegTask(r)), leg[r].st # "settled",
           ~susp[leg[r].of].cancelled,
           leg' = [leg EXCEPT ![r].st = "settled"],
           susp' = Unregister(Append(susp, Suspension(LegTask(r))), leg[r].of),
           UNCHANGED <<cold, result, call, tainted>>
    PROVE  JobTypes' /\ TasksInStep'
<1>0. PICK n, s, t : n = Len(susp) + 1 /\ s = leg[r].of /\ t = LegTask(r)
  OBVIOUS
<1> DEFINE f == Append(susp, Suspension(t))
<1>1. s \in Live /\ t \in Tasks /\ Proc(s) = t
  BY <1>0, RegistryTypes DEF TaskInv, Inv, TasksInStep, LegInStep, Live
<1>2. /\ Legs' = Legs
      /\ \A x \in Legs : /\ leg'[x].of = leg[x].of
                         /\ leg'[x].st = IF x = r THEN "settled" ELSE leg[x].st
  BY LegEnds DEF TaskInv, Inv
<1>3. /\ f \in Seq(Suspensions) /\ DOMAIN f = Ids \union {n} /\ n \notin Ids
      /\ \A x \in Ids : f[x] = susp[x]
      /\ f[n] = Suspension(t)
  BY <1>0, <1>1, Registered DEF TaskInv, Inv, Types, Ids
<1> HIDE DEF f
<1>4. /\ Ids' = Ids \union {n} /\ n \notin Ids
      /\ \A x \in Ids : susp'[x].proc = susp[x].proc /\ (x # s => susp'[x] = susp[x])
      /\ susp'[s].live = FALSE
      /\ susp'[n].proc = t /\ susp'[n].live
  <2>1. susp' = [f EXCEPT ![s] = [f[s] EXCEPT !.live = FALSE]]
    BY <1>0 DEF Unregister, f
  <2>2. s \in Ids /\ s \in DOMAIN f /\ n # s /\ f[s] = susp[s] /\ f[s] \in Suspensions
    BY <1>1, <1>3, RegistryTypes DEF Live, TaskInv, Inv
  <2>3. DOMAIN susp' = DOMAIN f /\ \A x \in DOMAIN f : x # s => susp'[x] = f[x]
    BY <2>1
  <2>4. susp'[s].proc = susp[s].proc /\ susp'[s].live = FALSE
    BY <2>1, <2>2 DEF Suspensions
  <2>5. susp'[n] = Suspension(t)
    BY <1>3, <2>2, <2>3
  <2>6. susp'[n].proc = t /\ susp'[n].live
    BY <2>5 DEF Suspension
  <2>7. Ids' = Ids \union {n}
    BY <1>3, <2>3 DEF Ids
  <2>8. \A x \in Ids : x # s => susp'[x] = susp[x]
    BY <1>3, <2>3
  <2>9. \A x \in Ids : susp'[x].proc = susp[x].proc
    BY <2>2, <2>4, <2>8
  <2> QED
    BY <1>3, <2>4, <2>6, <2>7, <2>8, <2>9
<1>5. /\ Live' = (Live \ {s}) \union {n} /\ n \notin Live
      /\ \A x \in Live : susp'[x].proc = Proc(x)
      /\ susp'[n].proc = Proc(s)
  <2>1. \A x \in Ids \ {s} : susp'[x].live = susp[x].live
    BY <1>4
  <2> QED
    BY <1>1, <1>4, <2>1 DEF Live, Proc
<1>6. /\ \A x : Clean(x)' = Clean(x) /\ Chained(x)' = Chained(x)
      /\ \A x \in Legs : leg[x].of \in Ids /\ LegTask(x)' = LegTask(x)
  BY <1>2, <1>4, RegistryTypes DEF TaskInv, Inv, Clean, Chained, LegTask
<1>7. JobTypes'
  BY DEF TaskInv, JobTypes
<1>8. LiveInStep'
  <2> SUFFICES ASSUME NEW x \in Live', Clean(susp'[x].proc)
               PROVE  /\ cold[susp'[x].proc] = "settled" /\ result[susp'[x].proc] # "killed"
                      /\ Chained(susp'[x].proc) => call[Job(susp'[x].proc)] = "parked"
    BY DEF LiveInStep, Proc, Clean, Chained
  <2> QED
    BY <1>1, <1>5 DEF TaskInv, TasksInStep, LiveInStep
<1>9. OneLive'
  <2> SUFFICES ASSUME NEW x \in Live', NEW y \in Live', Clean(susp'[x].proc),
                      Job(susp'[x].proc) = Job(susp'[y].proc),
                      susp'[x].proc = susp'[y].proc \/ Chained(susp'[x].proc)
               PROVE  x = y
    BY DEF OneLive, Proc, Clean, Chained
  <2>1. PICK a \in Live : susp'[x].proc = Proc(a) /\ (IF x = n THEN a = s ELSE a = x)
    BY <1>1, <1>5
  <2>2. PICK b \in Live : susp'[y].proc = Proc(b) /\ (IF y = n THEN b = s ELSE b = y)
    BY <1>1, <1>5
  <2>3. a = b
    BY <2>1, <2>2 DEF TaskInv, TasksInStep, OneLive
  <2> QED
    BY <1>5, <2>1, <2>2, <2>3
<1>10. LegInStep'
  <2> SUFFICES ASSUME NEW x \in Legs, Clean(LegTask(x)), x # r, leg[x].st # "settled"
               PROVE  /\ leg[x].st = "listening"
                      /\ susp'[leg[x].of].cancelled \/ susp'[leg[x].of].live
    BY <1>2, <1>6 DEF LegInStep
  <2>1. leg[x].of # s
    BY <1>0, <1>1, RegistryTypes DEF TaskInv, Inv, TasksInStep, OneLeg
  <2> QED
    BY <1>4, <1>6, <2>1 DEF TaskInv, TasksInStep, LegInStep
<1>11. OneLeg'
  BY <1>2, <1>6 DEF TaskInv, TasksInStep, OneLeg
<1>12. OneStep' /\ KilledInStep'
  BY DEF TaskInv, TasksInStep, OneStep, KilledInStep, Clean, Chained
<1> QED
  BY <1>7, <1>8, <1>9, <1>10, <1>11, <1>12 DEF TasksInStep

LEMMA LegWatchdogTasks ==
    ASSUME TaskInv, NEW r \in Legs, LegWatchdog(r) PROVE JobTypes' /\ TasksInStep'
<1>0. PICK s, t : s = leg[r].of /\ t = LegTask(r)
  OBVIOUS
<1>1. s \in Ids /\ t \in Tasks /\ Job(t) \in Jobs /\ Proc(s) = t
  BY <1>0, RegistryTypes, TaskJob DEF TaskInv, Inv
<1>2. /\ leg' = [leg EXCEPT ![r].st = "settled"] /\ leg[r].st # "settled"
      /\ UNCHANGED cold /\ tainted \subseteq tainted'
  BY DEF LegWatchdog
<1>3. /\ Legs' = Legs
      /\ \A x \in Legs : leg'[x].of = leg[x].of /\ (x # r => leg'[x] = leg[x])
  BY <1>2, LegEnds DEF TaskInv, Inv
<1>4. /\ JobTypes'
      /\ \A u \in Tasks : u # t => result'[u] = result[u]
      /\ \A k \in Jobs : k # Job(t) => call'[k] = call[k]
  <2>1. \/ UNCHANGED result
        \/ result' = [result EXCEPT ![t] = "failed"]
    BY <1>0 DEF LegWatchdog
  <2>2. \/ UNCHANGED call
        \/ \E c \in {"done", call[Job(t)]} : call' = [call EXCEPT ![Job(t)] = c]
    BY <1>0 DEF LegWatchdog
  <2> QED
    BY <1>1, <1>2, <2>1, <2>2 DEF TaskInv, JobTypes
<1>5. \/ susp' = Unregister(Append(susp, Suspension(t)), s)
      \/ susp' = Unregister(susp, s)
  BY <1>0 DEF LegWatchdog
<1>6. CASE Job(t) \in tainted'
  <2>1. /\ Ids \subseteq Ids'
        /\ \A x \in Ids : susp'[x].proc = susp[x].proc /\ (x # s => susp'[x] = susp[x])
        /\ \A x \in Ids' : x \in Ids \/ susp'[x].proc = t
        /\ susp'[s].live = FALSE
    <3>1. CASE susp' = Unregister(susp, s)
      BY <1>1, <3>1, Dropped DEF TaskInv, Inv, Live
    <3>2. CASE susp' = Unregister(Append(susp, Suspension(t)), s)
      <4> DEFINE f == Append(susp, Suspension(t))
      <4>1. /\ DOMAIN f = 1 .. Len(susp) + 1 /\ Ids = 1 .. Len(susp) /\ Len(susp) \in Nat
            /\ \A x \in Ids : f[x] = susp[x]
            /\ f[Len(susp) + 1] = Suspension(t)
        BY <1>1, Registered DEF TaskInv, Inv, Types, Ids
      <4> HIDE DEF f
      <4>2. susp' = [f EXCEPT ![s] = [f[s] EXCEPT !.live = FALSE]]
        BY <3>2 DEF Unregister, f
      <4>3. f[s] = susp[s] /\ f[s] \in Suspensions /\ s \in DOMAIN f
        BY <1>1, <4>1, RegistryTypes DEF TaskInv, Inv
      <4>4. DOMAIN susp' = DOMAIN f /\ \A x \in DOMAIN f : x # s => susp'[x] = f[x]
        BY <4>2
      <4>5. susp'[s].proc = susp[s].proc /\ susp'[s].live = FALSE
        BY <4>2, <4>3 DEF Suspensions
      <4> QED
        BY <1>1, <4>1, <4>4, <4>5 DEF Ids, Suspension
    <3> QED
      BY <1>5, <3>1, <3>2
  <2>2. \A x \in Live' : /\ susp'[x].proc \in Tasks
                         /\ Job(susp'[x].proc) # Job(t) => x \in Live /\ susp'[x] = susp[x]
    BY <1>1, <2>1, RegistryTypes DEF Live, TaskInv, Inv, Proc
  <2>3. \A x \in Legs : /\ LegTask(x)' \in Tasks
                        /\ Job(LegTask(x)') # Job(t) =>
                              leg'[x] = leg[x] /\ susp'[leg[x].of] = susp[leg[x].of]
    BY <1>0, <1>1, <1>3, <2>1, RegistryTypes DEF TaskInv, Inv, LegTask, Proc
  <2>4. \A u \in Tasks : Job(u) # Job(t) => cold'[u] = cold[u] /\ result'[u] = result[u]
    BY <1>2, <1>4
  <2> QED
    BY <1>1, <1>2, <1>3, <1>4, <1>6, <2>2, <2>3, <2>4, JobTainted
<1>7. CASE Job(t) \notin tainted'
  <2>1. /\ Clean(t) /\ GroupExists(t) /\ ~susp[s].cancelled
        /\ UNCHANGED <<result, call, tainted>>
        /\ susp' = Unregister(Append(susp, Suspension(t)), s)
    BY <1>0, <1>2, <1>7 DEF LegWatchdog, Clean
  <2> QED
    BY <1>0, <1>2, <2>1, LegFreezesTasks
<1> QED
  BY <1>6, <1>7
LEMMA TaskInit == Init => TaskInv
<1> SUFFICES ASSUME Init PROVE TaskInv
  OBVIOUS
<1>1. Inv /\ JobTypes
  BY InitInv DEF Init, JobTypes
<1>2. Ids = {} /\ Legs = {} /\ Live = {}
  BY DEF Init, Ids, Legs, Live
<1>3. OneStep /\ KilledInStep
  BY DEF Init, OneStep, KilledInStep
<1> QED
  BY <1>1, <1>2, <1>3 DEF TaskInv, TasksInStep, LiveInStep, OneLive, LegInStep, OneLeg

LEMMA TaskStep == TaskInv /\ [Next]_vars => TaskInv'
<1> SUFFICES ASSUME TaskInv, [Next]_vars PROVE JobTypes' /\ TasksInStep'
  BY StepInv DEF TaskInv
<1>1. ASSUME NEW t \in Tasks, Exit(t) \/ Reap(t) \/ DiesFrozen(t) \/ KillFallback(t) \/ HolderEnds(t)
      PROVE  JobTypes' /\ TasksInStep'
  BY <1>1, TasksQuiet DEF Exit, Reap, DiesFrozen, KillFallback, HolderEnds, jobVars
<1>2. CASE Abort \/ NextRun \/ ParentExits \/ UNCHANGED vars
  BY <1>2, TasksQuiet DEF Abort, NextRun, ParentExits, vars, jobVars
<1>3. ASSUME NEW j \in Jobs, Start(j) PROVE JobTypes' /\ TasksInStep'
  <2>1. /\ call[j] = "idle" /\ call' = [call EXCEPT ![j] = "running"]
        /\ UNCHANGED <<cold, result, susp, leg, tainted>>
    BY <1>3 DEF Start
  <2>2. JobTypes' /\ \A k \in Jobs : k # j => call'[k] = call[k]
    BY <2>1 DEF TaskInv, JobTypes
  <2>3. /\ Live' = Live /\ Legs' = Legs
        /\ \A s : Proc(s)' = Proc(s) /\ Clean(s)' = Clean(s) /\ Chained(s)' = Chained(s)
        /\ \A s \in Live : Proc(s) \in Tasks /\ Job(Proc(s)) \in Jobs
        /\ \A r \in Legs : LegTask(r)' = LegTask(r)
    BY <2>1, RegistryTypes, TaskJob
       DEF TaskInv, Inv, Live, Ids, Legs, LegTask, Proc, Clean, Chained
  <2>4. LiveInStep' /\ OneLive'
    BY <2>1, <2>2, <2>3 DEF TaskInv, TasksInStep, LiveInStep, OneLive, Clean, Chained, Proc
  <2>5. LegInStep' /\ OneLeg'
    BY <2>1, <2>3 DEF TaskInv, TasksInStep, LegInStep, OneLeg, Clean
  <2>6. OneStep' /\ KilledInStep'
    BY <2>1, <2>2, TaskJob DEF TaskInv, TasksInStep, OneStep, KilledInStep, Clean, Chained
  <2> QED
    BY <2>2, <2>4, <2>5, <2>6 DEF TasksInStep
<1>4. ASSUME NEW t \in Tasks, Close(t) PROVE JobTypes' /\ TasksInStep'
  BY <1>4, ColdCloseTasks, LegCloseTasks, TasksQuiet DEF Close, jobVars
<1>5. ASSUME NEW s \in Ids, Resume(s) PROVE JobTypes' /\ TasksInStep'
  BY <1>5, ResumeThawsTasks, ResumeFailsTasks DEF Resume
<1> QED
  BY <1>1, <1>2, <1>3, <1>4, <1>5, SpawnTasks, SpawnFailsTasks, ColdWatchdogTasks,
     LegWatchdogTasks, KillTasks
  DEF Next, Runs, Asked

(* The steps that record a result or move a call on: none is of a task that *)
(* was killed.                                                              *)
LEMMA KilledStays ==
    ASSUME TaskInv, [Next]_vars, NEW t \in Tasks, result[t] = "killed", Clean(t)
    PROVE  result'[t] = "killed" /\ (Chained(t) => call'[Job(t)] = call[Job(t)])
<1>1. cold[t] = "settled" /\ (Chained(t) => call[Job(t)] = "done") /\ Job(t) \in Jobs
  BY TaskJob DEF TaskInv, TasksInStep, KilledInStep
<1>2. \A s \in Live : Proc(s) # t /\ (Chained(t) => Job(Proc(s)) # Job(t))
  BY <1>1 DEF TaskInv, TasksInStep, LiveInStep, Clean, Chained
<1>3. ASSUME NEW u \in Tasks, NEW how \in {"ok", "failed", "suspended"}, NEW sus,
             ColdSettles(u, how, sus), cold[u] # "settled",
             Clean(u) /\ Chained(u) => call[Job(u)] = "running"
      PROVE  result'[t] = "killed" /\ (Chained(t) => call'[Job(t)] = call[Job(t)])
  <2>1. u # t /\ (Chained(t) => Job(u) # Job(t))
    BY <1>1, <1>3 DEF Clean, Chained
  <2> QED
    BY <1>1, <1>3, <2>1, ColdSettled DEF TaskInv
<1>4. ASSUME NEW u \in Tasks, SpawnFails(u) \/ ColdWatchdog(u) \/ ColdClose(u)
      PROVE  result'[t] = "killed" /\ (Chained(t) => call'[Job(t)] = call[Job(t)])
  <2>1. CASE SpawnFails(u)
    BY <1>3, <2>1 DEF SpawnFails, NextTask
  <2>2. CASE ColdWatchdog(u) \/ ColdClose(u)
    <3>1. cold[u] = "listening" /\ (Clean(u) /\ Chained(u) => call[Job(u)] = "running")
      BY <2>2 DEF ColdWatchdog, ColdClose, TaskInv, TasksInStep, OneStep
    <3>2. \E how \in {"ok", "failed", "suspended"} : \E sus : ColdSettles(u, how, sus)
      BY <2>2 DEF ColdWatchdog, ColdClose
    <3> QED
      BY <1>3, <3>1, <3>2
  <2> QED
    BY <1>4, <2>1, <2>2
<1>5. ASSUME NEW s \in Live, \/ ResumeFails(s) \/ Kill(s)
      PROVE  result'[t] = "killed" /\ (Chained(t) => call'[Job(t)] = call[Job(t)])
  <2>1. /\ \E how : result' = [result EXCEPT ![Proc(s)] = how]
        /\ \E c : call' = [call EXCEPT ![Job(Proc(s))] = c]
    BY <1>5 DEF ResumeFails, Kill, Proc
  <2> QED
    BY <1>1, <1>2, <2>1 DEF TaskInv, JobTypes
<1>6. ASSUME NEW r \in Legs, LegWatchdog(r)
      PROVE  result'[t] = "killed" /\ (Chained(t) => call'[Job(t)] = call[Job(t)])
  <2>1. \/ UNCHANGED <<result, call>>
        \/ /\ result' = IF susp[leg[r].of].cancelled THEN result
                        ELSE [result EXCEPT ![LegTask(r)] = "failed"]
           /\ \E c \in {"done", call[Job(LegTask(r))]} : call' = [call EXCEPT ![Job(LegTask(r))] = c]
    BY <1>6 DEF LegWatchdog
  <2>2. LegTask(r) = t /\ leg[r].st # "settled" => susp[leg[r].of].cancelled
    BY <1>2, RegistryTypes DEF TaskInv, Inv, TasksInStep, LegInStep, Live
  <2>3. leg[r].st # "settled"
    BY <1>6 DEF LegWatchdog
  <2>4. result'[t] = "killed"
    BY <2>1, <2>2, <2>3 DEF TaskInv, JobTypes
  <2>5. Chained(t) => call'[Job(t)] = call[Job(t)]
    BY <1>1, <2>1 DEF TaskInv, JobTypes
  <2> QED
    BY <2>4, <2>5
<1>7. ASSUME NEW u \in Tasks, LegClose(u)
      PROVE  result'[t] = "killed" /\ (Chained(t) => call'[Job(t)] = call[Job(t)])
  <2>1. PICK r \in Listening(u) :
            \/ UNCHANGED <<result, call>>
            \/ /\ ~susp[leg[r].of].cancelled
               /\ \E how : result' = [result EXCEPT ![u] = how]
               /\ \E c : call' = [call EXCEPT ![Job(u)] = c]
    <3>1. PICK r \in Listening(u) :
              IF susp[leg[r].of].cancelled
              THEN UNCHANGED <<result, call, completed, report, susp, tainted>>
              ELSE /\ result' = [result EXCEPT ![u] = IF code[u] = "ok" THEN "ok" ELSE "failed"]
                   /\ (\E how : ParallelContinues(leg[r].of, how)) \/ ChainContinues(u)
      BY <1>7 DEF LegClose
    <3>2. Proc(leg[r].of) = u
      BY DEF Listening, LegTask, Proc
    <3>3. ASSUME NEW how, ParallelContinues(leg[r].of, how)
          PROVE  \E c : call' = [call EXCEPT ![Job(u)] = c]
      BY <3>2, <3>3 DEF ParallelContinues, Proc
    <3>4. ChainContinues(u) => \E c : call' = [call EXCEPT ![Job(u)] = c]
      BY DEF ChainContinues
    <3> QED
      BY <3>1, <3>3, <3>4
  <2>2. r \in Legs /\ leg[r].st = "listening" /\ LegTask(r) = u /\ Proc(leg[r].of) = u /\ leg[r].of \in Ids
    BY RegistryTypes DEF Listening, TaskInv, Inv
  <2>3. ~susp[leg[r].of].cancelled /\ Clean(u) => leg[r].of \in Live
    BY <2>2 DEF TaskInv, TasksInStep, LegInStep, Live
  <2>4. ~susp[leg[r].of].cancelled => u # t /\ (Chained(t) => Job(u) # Job(t))
    BY <1>2, <2>2, <2>3 DEF Clean
  <2> QED
    BY <1>1, <2>1, <2>4 DEF TaskInv, JobTypes
<1>8. ASSUME UNCHANGED <<result, call>>
      PROVE  result'[t] = "killed" /\ (Chained(t) => call'[Job(t)] = call[Job(t)])
  BY <1>8
<1>9. ASSUME NEW j \in Jobs, Start(j)
      PROVE  result'[t] = "killed" /\ (Chained(t) => call'[Job(t)] = call[Job(t)])
  BY <1>1, <1>9 DEF Start, TaskInv, JobTypes
<1>10. ASSUME NEW u \in Tasks,
              Spawn(u) \/ Exit(u) \/ Reap(u) \/ DiesFrozen(u) \/ KillFallback(u) \/ HolderEnds(u)
       PROVE  UNCHANGED <<result, call>>
  BY <1>10 DEF Spawn, Exit, Reap, DiesFrozen, KillFallback, HolderEnds, jobVars
<1>11. CASE Abort \/ NextRun \/ ParentExits \/ UNCHANGED vars
  BY <1>11 DEF Abort, NextRun, ParentExits, vars, jobVars
<1>12. ASSUME NEW u \in Tasks, Close(u)
       PROVE  ColdClose(u) \/ LegClose(u) \/ UNCHANGED <<result, call>>
  BY <1>12 DEF Close, jobVars
<1>13. ASSUME NEW s \in Ids, Resume(s) \/ Kill(s)
       PROVE  s \in Live /\ (ResumeFails(s) \/ Kill(s) \/ UNCHANGED <<result, call>>)
  BY <1>13 DEF Resume, ResumeThaws, Kill
<1> QED
  BY <1>4, <1>5, <1>6, <1>7, <1>8, <1>9, <1>10, <1>11, <1>12, <1>13 DEF Next, Runs, Asked

(* Once killed, a task stays killed, and its chain ends there: neither the  *)
(* close event of its process nor a watchdog of a resume records another    *)
(* result for it or starts a further step (cancelled, in handleKill and     *)
(* handleResume).                                                           *)
THEOREM KilledStaysKilled == Spec => KillIsFinal
<1>1. TaskInv /\ [Next]_vars =>
        [\A t \in Tasks : result[t] = "killed" /\ Job(t) \notin tainted =>
            /\ result'[t] = "killed"
            /\ Kind[Job(t)] = "chain" => call'[Job(t)] = call[Job(t)]]_vars
  BY KilledStays DEF Clean, Chained
<1> QED
  BY <1>1, TaskInit, TaskStep, PTL DEF Spec, KillIsFinal

(* Places in a set of slots: the ascending order lists every slot once, at  *)
(* its rank.                                                                *)
LEMMA Ranks ==
    ASSUME NEW n \in Nat, NEW S \in SUBSET (1 .. n)
    PROVE  /\ IsFiniteSet(S) /\ Cardinality(S) \in Nat
           /\ \A i \in S : Rank(S, i) \in 1 .. Cardinality(S)
           /\ \A i, j \in S : i < j => Rank(S, i) < Rank(S, j)
<1> DEFINE upTo(i) == {k \in S : k <= i}
<1>1. IsFiniteSet(S) /\ Cardinality(S) \in Nat
  <2>1. IsFiniteSet(1 .. n)
    BY FS_Interval
  <2>2. IsFiniteSet(S)
    BY <2>1, FS_Subset
  <2> QED
    BY <2>2, FS_CardinalityType
<1>2. ASSUME NEW i \in S
      PROVE  /\ IsFiniteSet(upTo(i)) /\ Cardinality(upTo(i)) \in Nat
             /\ Cardinality(upTo(i)) <= Cardinality(S) /\ Cardinality(upTo(i)) # 0
  <2>1. upTo(i) \in SUBSET S /\ i \in upTo(i)
    OBVIOUS
  <2> HIDE DEF upTo
  <2>2. IsFiniteSet(upTo(i)) /\ Cardinality(upTo(i)) <= Cardinality(S)
    BY <1>1, <2>1, FS_Subset
  <2> QED
    BY <2>1, <2>2, FS_CardinalityType, FS_EmptySet
<1>3. ASSUME NEW i \in S, NEW j \in S, i < j
      PROVE  Cardinality(upTo(i)) < Cardinality(upTo(j))
  <2>1. upTo(i) \in SUBSET upTo(j) /\ j \in upTo(j) /\ j \notin upTo(i)
    <3>1. i \in Nat /\ j \in Nat /\ \A k \in S : k \in Nat
      OBVIOUS
    <3>2. \A k \in S : k <= i => k <= j
      BY <1>3, <3>1
    <3>3. j <= j /\ ~(j <= i)
      BY <1>3, <3>1
    <3> QED
      BY <3>2, <3>3
  <2> HIDE DEF upTo
  <2>2. upTo(i) # upTo(j)
    BY <2>1
  <2>3. /\ Cardinality(upTo(i)) <= Cardinality(upTo(j))
        /\ Cardinality(upTo(i)) # Cardinality(upTo(j))
    BY <1>2, <2>1, <2>2, FS_Subset
  <2> QED
    BY <1>2, <2>3
<1>4. \A i \in S : Rank(S, i) = Cardinality(upTo(i))
  BY DEF Rank
<1> HIDE DEF upTo
<1> QED
  BY <1>1, <1>2, <1>3, <1>4

LEMMA Ordering ==
    ASSUME NEW n \in Nat, NEW S \in SUBSET (1 .. n)
    PROVE  /\ Cardinality(S) \in Nat /\ Len(InOrder(S)) = Cardinality(S)
           /\ \A k \in 1 .. Cardinality(S) : InOrder(S)[k] \in S
           /\ \A i \in S : Rank(S, i) \in 1 .. Cardinality(S) /\ InOrder(S)[Rank(S, i)] = i
<1>1. PICK c : c = Cardinality(S)
  OBVIOUS
<1>2. /\ IsFiniteSet(S) /\ c \in Nat
      /\ \A i \in S : Rank(S, i) \in 1 .. c
      /\ \A i, j \in S : i # j => Rank(S, i) # Rank(S, j)
  <2>1. /\ IsFiniteSet(S) /\ c \in Nat
        /\ \A i \in S : Rank(S, i) \in 1 .. c
        /\ \A i, j \in S : i < j => Rank(S, i) < Rank(S, j)
    BY <1>1, Ranks
  <2>2. \A i, j \in S : i # j => i < j \/ j < i
    OBVIOUS
  <2>3. \A i, j \in S : i # j => Rank(S, i) # Rank(S, j)
    BY <2>1, <2>2
  <2> QED
    BY <2>1, <2>3
<1>3. \A k \in 1 .. c : \E i \in S : Rank(S, i) = k
  <2> DEFINE f == [i \in S |-> Rank(S, i)]
  <2>1. f \in Injection(S, 1 .. c)
    BY <1>2 DEF Injection, IsInjective
  <2>2. IsFiniteSet(1 .. c) /\ Cardinality(1 .. c) = c
    BY <1>2, FS_Interval
  <2> HIDE DEF f
  <2>3. f \in Surjection(S, 1 .. c)
    BY <1>1, <2>1, <2>2, FS_Injection
  <2>4. \A k \in 1 .. c : \E i \in S : f[i] = k
    BY <2>3 DEF Surjection
  <2> QED
    BY <2>4 DEF f
<1>4. DOMAIN InOrder(S) = 1 .. c /\ Len(InOrder(S)) = c
  <2>1. InOrder(S) = [k \in 1 .. c |-> CHOOSE i \in S : Rank(S, i) = k]
    BY <1>1 DEF InOrder
  <2> QED
    BY <1>2, <2>1
<1>5. \A k \in 1 .. c : InOrder(S)[k] \in S /\ Rank(S, InOrder(S)[k]) = k
  BY <1>1, <1>3 DEF InOrder
<1>6. \A i \in S : InOrder(S)[Rank(S, i)] = i
  BY <1>2, <1>5
<1> QED
  BY <1>1, <1>2, <1>4, <1>5, <1>6

(* What a walk over the slots consumes is counted by the rank of the slot.  *)
LEMMA CursorRank ==
    ASSUME NEW n \in Nat, NEW i \in 1 .. n, NEW skip
    PROVE  Cursor(i, skip) = Rank((1 .. n) \ skip, i)
<1>1. (1 .. i) \ skip = {k \in (1 .. n) \ skip : k <= i}
  OBVIOUS
<1> QED
  BY <1>1 DEF Cursor, Rank

LEMMA CursorPositive ==
    ASSUME NEW n \in Nat, NEW i \in 1 .. n, NEW skip, i \notin skip
    PROVE  Cursor(i, skip) \in Nat \ {0}
<1>1. PICK S : S = (1 .. n) \ skip
  OBVIOUS
<1>2. S \in SUBSET (1 .. n) /\ i \in S /\ Cursor(i, skip) = Rank(S, i)
  BY <1>1, CursorRank
<1>3. Cardinality(S) \in Nat /\ Rank(S, i) \in 1 .. Cardinality(S)
  BY <1>2, Ranks
<1> QED
  BY <1>2, <1>3

LEMMA TaskForm ==
    /\ \A j \in Jobs : Width[j] \in Nat /\ \A i \in Slots(j) : i \in 1 .. Width[j] /\ <<j, i>> \in Tasks
    /\ \A t \in Tasks : t = <<Job(t), Slot(t)>> /\ Job(t) \in Jobs /\ Slot(t) \in Slots(Job(t))
    /\ \A j, i : Job(<<j, i>>) = j /\ Slot(<<j, i>>) = i
<1>1. \A j \in Jobs : Width[j] \in Nat
  BY SubagentAssumption
<1> QED
  BY <1>1 DEF Tasks, Slots, Job, Slot

-----------------------------------------------------------------------------
(* Types.                                                                   *)

Hows == {"ok", "failed", "killed", "waiting", "missing"}
Entries == [task : Tasks, how : Hows]

DataTypes ==
    /\ code \in [Tasks -> {"none", "ok", "failed", "signal"}]
    /\ term \subseteq Tasks /\ held \subseteq Tasks
    /\ completed \in [Tasks -> Seq(Entries)]
    /\ DOMAIN report = Jobs
    /\ mishaps \in 0 .. MaxMishaps
    /\ aborted \in BOOLEAN
    /\ tainted \subseteq Jobs
(* A run that has answered has recorded a result.                           *)
Recorded == \A t \in Tasks : cold[t] = "settled" => result[t] # "none"

TypeInv == TaskInv /\ DataTypes /\ Recorded

LEMMA EntryType == \A t \in Tasks, how \in Hows : Entry(t, how) \in Entries
BY DEF Entry, Entries

LEMMA FinishedType ==
    ASSUME NEW j \in Jobs, NEW res,
           \A i \in Slots(j) : res[<<j, i>>] \in {"ok", "failed", "killed", "suspended"}
    PROVE  Finished(j, res) \in Seq(Entries)
<1> DEFINE S == {i \in Slots(j) : res[<<j, i>>] # "suspended"}
<1>0. PICK done : done = InOrder(S)
  OBVIOUS
<1>1. S \in SUBSET (1 .. Width[j]) /\ Width[j] \in Nat
  BY TaskForm DEF Slots
<1>2. /\ Len(done) \in Nat
      /\ \A k \in 1 .. Len(done) : done[k] \in S
  <2> HIDE DEF S
  <2>1. /\ Cardinality(S) \in Nat /\ Len(InOrder(S)) = Cardinality(S)
        /\ \A k \in 1 .. Cardinality(S) : InOrder(S)[k] \in S
    BY <1>1, Ordering
  <2> QED
    BY <1>0, <2>1
<1>3. \A i \in S : <<j, i>> \in Tasks /\ res[<<j, i>>] \in Hows
  BY TaskForm DEF Hows
<1>4. Finished(j, res) = [k \in 1 .. Len(done) |-> Entry(<<j, done[k]>>, res[<<j, done[k]>>])]
  BY <1>0 DEF Finished
<1> HIDE DEF S
<1>5. \A k \in 1 .. Len(done) : Entry(<<j, done[k]>>, res[<<j, done[k]>>]) \in Entries
  BY <1>2, <1>3, EntryType
<1>6. Finished(j, res) \in [1 .. Len(done) -> Entries]
  BY <1>4, <1>5
<1> QED
  BY <1>2, <1>6, SeqDef

LEMMA MergeKillType ==
    ASSUME NEW old \in Seq(Entries), NEW killed, NEW entry \in Entries, NEW waiting, NEW n \in Nat
    PROVE  MergeKill(old, killed, entry, waiting, n) \in Seq(Entries)
<1>0. PICK skip : skip = waiting \union {killed}
  OBVIOUS
<1> DEFINE S == {i \in 1 .. n : \/ i = killed
                                \/ i \notin skip /\ Cursor(i, skip) <= Len(old)}
<1>1. PICK kept : kept = InOrder(S)
  OBVIOUS
<1>2. Len(kept) \in Nat /\ \A k \in 1 .. Len(kept) : kept[k] \in S
  <2>1. S \in SUBSET (1 .. n)
    OBVIOUS
  <2> HIDE DEF S
  <2>2. /\ Cardinality(S) \in Nat /\ Len(InOrder(S)) = Cardinality(S)
        /\ \A k \in 1 .. Cardinality(S) : InOrder(S)[k] \in S
    BY <2>1, Ordering
  <2> QED
    BY <1>1, <2>2
<1>3. \A i \in S : i # killed => old[Cursor(i, skip)] \in Entries
  <2> SUFFICES ASSUME NEW i \in S, i # killed PROVE Cursor(i, skip) \in 1 .. Len(old)
    BY ElementOfSeq
  <2>1. i \in 1 .. n /\ i \notin skip /\ Cursor(i, skip) <= Len(old)
    OBVIOUS
  <2>2. Cursor(i, skip) \in Nat \ {0}
    BY <2>1, CursorPositive
  <2> QED
    BY <2>1, <2>2
<1> DEFINE f == [k \in 1 .. Len(kept) |-> IF kept[k] = killed THEN entry ELSE old[Cursor(kept[k], skip)]]
<1>4. MergeKill(old, killed, entry, waiting, n) = f
  BY <1>0, <1>1 DEF MergeKill
<1> HIDE DEF S
<1>5. f \in [1 .. Len(kept) -> Entries]
  BY <1>2, <1>3
<1> HIDE DEF f
<1> QED
  BY <1>2, <1>4, <1>5, SeqDef

LEMMA MergedType ==
    ASSUME NEW t \in Tasks, NEW how \in Hows, NEW waiting, NEW old \in Seq(Entries)
    PROVE  Merged(t, how, waiting, old) \in [Slots(Job(t)) -> Entries]
<1>0. PICK j, skip : j = Job(t) /\ skip = waiting \union {Slot(t)}
  OBVIOUS
<1>1. j \in Jobs /\ Width[j] \in Nat /\ Slots(j) = 1 .. Width[j]
  BY <1>0, TaskForm DEF Slots
<1>2. ASSUME NEW i \in Slots(j), i \notin skip, Cursor(i, skip) <= Len(old)
      PROVE  old[Cursor(i, skip)] \in Entries
  <2>1. Cursor(i, skip) \in Nat \ {0}
    BY <1>1, <1>2, CursorPositive
  <2>2. Cursor(i, skip) \in 1 .. Len(old)
    BY <1>2, <2>1
  <2> QED
    BY <2>2, ElementOfSeq
<1>3. \A i \in Slots(j), h \in Hows : Entry(<<j, i>>, h) \in Entries
  BY <1>1, EntryType, TaskForm
<1>4. Entry(t, how) \in Entries /\ "waiting" \in Hows /\ "missing" \in Hows
  BY EntryType DEF Hows
<1> QED
  BY <1>0, <1>2, <1>3, <1>4 DEF Merged

LEMMA PatchType ==
    ASSUME NEW n \in Nat, NEW merged \in [1 .. n -> Entries], NEW waiting, NEW i
    PROVE  Patch(merged, waiting, i) \in Seq(Entries)
<1> DEFINE S == (1 .. n) \ (waiting \union {i})
<1>1. PICK kept : kept = InOrder(S)
  OBVIOUS
<1>2. S \in SUBSET (1 .. n)
  OBVIOUS
<1> HIDE DEF S
<1>3. Len(kept) \in Nat /\ \A k \in 1 .. Len(kept) : kept[k] \in 1 .. n
  <2>1. /\ Cardinality(S) \in Nat /\ Len(InOrder(S)) = Cardinality(S)
        /\ \A k \in 1 .. Cardinality(S) : InOrder(S)[k] \in S
    BY <1>2, Ordering
  <2> QED
    BY <1>1, <1>2, <2>1
<1>4. Patch(merged, waiting, i) = [k \in 1 .. Len(kept) |-> merged[kept[k]]]
  BY <1>1 DEF Patch, S
<1>5. Patch(merged, waiting, i) \in [1 .. Len(kept) -> Entries]
  BY <1>3, <1>4
<1> QED
  BY <1>3, <1>5, SeqDef

(* What the end of a run leaves of the recorded results.                    *)
LEMMA ColdData ==
    ASSUME TypeInv, NEW t \in Tasks, NEW how \in {"ok", "failed", "suspended"}, NEW sus,
           ColdSettles(t, how, sus)
    PROVE  /\ completed' \in [Tasks -> Seq(Entries)]
           /\ DOMAIN report' = Jobs
           /\ Recorded'
<1>1. /\ \A u \in Tasks : /\ cold'[u] = IF u = t THEN "settled" ELSE cold[u]
                          /\ result'[u] = IF u = t THEN how ELSE result[u]
  BY ColdSettled DEF TypeInv, TaskInv
<1>2. Recorded'
  BY <1>1 DEF TypeInv, Recorded
<1>3. CASE UNCHANGED <<completed, report>>
  BY <1>2, <1>3 DEF TypeInv, DataTypes
<1>4. ASSUME \A i \in Slots(Job(t)) \ {Slot(t)} : cold[<<Job(t), i>>] = "settled",
             ParallelReturns(Job(t), [result EXCEPT ![t] = how], sus)
      PROVE  completed' \in [Tasks -> Seq(Entries)] /\ DOMAIN report' = Jobs
  <2>1. PICK j, res : j = Job(t) /\ res = [result EXCEPT ![t] = how]
    OBVIOUS
  <2>2. j \in Jobs /\ \A i \in Slots(j) : <<j, i>> \in Tasks /\ (i # Slot(t) => <<j, i>> # t)
    BY <2>1, TaskForm
  <2>3. \A i \in Slots(j) : res[<<j, i>>] \in {"ok", "failed", "killed", "suspended"}
    <3> SUFFICES ASSUME NEW i \in Slots(j) PROVE res[<<j, i>>] \in {"ok", "failed", "killed", "suspended"}
      OBVIOUS
    <3>1. result \in [Tasks -> {"none", "ok", "failed", "killed", "suspended"}]
      BY DEF TypeInv, TaskInv, JobTypes
    <3>2. CASE <<j, i>> = t
      BY <2>1, <3>1, <3>2
    <3>3. CASE <<j, i>> # t
      <4>1. res[<<j, i>>] = result[<<j, i>>]
        BY <2>1, <2>2, <3>1, <3>3
      <4>2. i # Slot(t)
        BY <2>1, <3>3, TaskForm
      <4>3. result[<<j, i>>] # "none"
        BY <1>4, <2>1, <2>2, <4>2 DEF TypeInv, Recorded
      <4> QED
        BY <2>2, <3>1, <4>1, <4>3
    <3> QED
      BY <3>2, <3>3
  <2>4. Finished(j, res) \in Seq(Entries)
    BY <2>2, <2>3, FinishedType
  <2>5. /\ completed' \in [Tasks -> {Finished(j, res)} \union Seq(Entries)]
        /\ DOMAIN report' = DOMAIN report
    BY <1>4, <2>1 DEF ParallelReturns, TypeInv, DataTypes
  <2> QED
    BY <2>4, <2>5 DEF TypeInv, DataTypes
<1> QED
  BY <1>2, <1>3, <1>4 DEF ColdSettles, StepSettles, TaskSettles

LEMMA MishapType == ASSUME DataTypes, Mishap \/ UNCHANGED mishaps PROVE mishaps' \in 0 .. MaxMishaps
BY SubagentAssumption DEF DataTypes, Mishap

LEMMA KilledCode ==
    ASSUME DataTypes, NEW T, KillGroups(T)
    PROVE  code' \in [Tasks -> {"none", "ok", "failed", "signal"}]
BY DEF DataTypes, KillGroups

(* Steps of the processes alone, and of the agent's signal.                 *)
LEMMA ProcessData ==
    ASSUME TypeInv,
           \/ \E t \in Tasks : Spawn(t) \/ Exit(t) \/ Reap(t) \/ KillFallback(t) \/ DiesFrozen(t) \/ HolderEnds(t)
           \/ \E j \in Jobs : Start(j)
           \/ Abort \/ NextRun \/ ParentExits \/ UNCHANGED vars
    PROVE  DataTypes' /\ Recorded'
<1>1. ASSUME NEW t \in Tasks, Spawn(t) PROVE DataTypes' /\ Recorded'
  BY <1>1 DEF Spawn, TypeInv, TaskInv, JobTypes, DataTypes, Recorded
<1>2. ASSUME NEW t \in Tasks, Exit(t) PROVE DataTypes' /\ Recorded'
  <2>1. /\ UNCHANGED <<term, jobVars, aborted, tainted>>
        /\ \E c \in {"ok", "failed", "signal"} : code' = [code EXCEPT ![t] = c]
        /\ held' \in {held, held \union {t}}
        /\ Mishap \/ UNCHANGED mishaps
    BY <1>2 DEF Exit
  <2>2. mishaps' \in 0 .. MaxMishaps
    BY <2>1, MishapType DEF TypeInv
  <2> QED
    BY <2>1, <2>2 DEF TypeInv, DataTypes, Recorded, jobVars
<1>3. ASSUME NEW t \in Tasks, DiesFrozen(t) PROVE DataTypes' /\ Recorded'
  <2>1. /\ UNCHANGED <<term, held, jobVars, aborted, tainted>>
        /\ code' = [code EXCEPT ![t] = "signal"]
    BY <1>3 DEF DiesFrozen
  <2>2. mishaps' \in 0 .. MaxMishaps
    BY <1>3, MishapType DEF TypeInv, DiesFrozen
  <2> QED
    BY <2>1, <2>2 DEF TypeInv, DataTypes, Recorded, jobVars
<1>4. ASSUME NEW t \in Tasks, Reap(t) \/ HolderEnds(t) PROVE DataTypes' /\ Recorded'
  BY <1>4 DEF Reap, HolderEnds, TypeInv, DataTypes, Recorded, jobVars
<1>5. ASSUME NEW t \in Tasks, KillFallback(t) PROVE DataTypes' /\ Recorded'
  BY <1>5, KilledCode DEF KillFallback, TypeInv, DataTypes, Recorded, jobVars
<1>6. CASE Abort
  <2>1. mishaps' \in 0 .. MaxMishaps
    BY <1>6, MishapType DEF TypeInv, Abort
  <2> QED
    BY <1>6, <2>1 DEF Abort, TypeInv, DataTypes, Recorded, jobVars
<1>7. CASE NextRun \/ UNCHANGED vars
  BY <1>7 DEF NextRun, TypeInv, DataTypes, Recorded, vars, procVars, jobVars
<1>8. CASE ParentExits
  BY <1>8, KilledCode DEF ParentExits, TypeInv, DataTypes, Recorded, jobVars
<1>9. ASSUME NEW j \in Jobs, Start(j) PROVE DataTypes' /\ Recorded'
  BY <1>9 DEF Start, TypeInv, DataTypes, Recorded, procVars
<1> QED
  BY <1>1, <1>2, <1>3, <1>4, <1>5, <1>6, <1>7, <1>8, <1>9

LEMMA SpawnFailsData ==
    ASSUME TypeInv, NEW t \in Tasks, SpawnFails(t) PROVE DataTypes' /\ Recorded'
<1>1. /\ UNCHANGED <<term, held, aborted, tainted>>
      /\ code' = [code EXCEPT ![t] = "failed"]
      /\ ColdSettles(t, "failed", susp)
  BY DEF SpawnFails
<1>2. mishaps' \in 0 .. MaxMishaps
  BY MishapType DEF TypeInv, SpawnFails
<1> QED
  BY <1>1, <1>2, ColdData DEF TypeInv, DataTypes

LEMMA ColdWatchdogData ==
    ASSUME TypeInv, NEW t \in Tasks, ColdWatchdog(t) PROVE DataTypes' /\ Recorded'
<1>1. /\ UNCHANGED <<code, term, held, aborted, mishaps, tainted>>
      /\ \E sus : \E how \in {"ok", "failed", "suspended"} : ColdSettles(t, how, sus)
  BY DEF ColdWatchdog
<1>2. /\ completed' \in [Tasks -> Seq(Entries)]
      /\ DOMAIN report' = Jobs
      /\ Recorded'
  BY <1>1, ColdData
<1> QED
  BY <1>1, <1>2 DEF TypeInv, DataTypes

LEMMA ProcTypes ==
    ASSUME TypeInv
    PROVE  \A s \in Ids : /\ susp[s].proc \in Tasks /\ Job(susp[s].proc) \in Jobs
                          /\ Slot(susp[s].proc) \in Slots(Job(susp[s].proc))
BY RegistryTypes, TaskForm DEF TypeInv, TaskInv, Inv, Proc

LEMMA ResumeData ==
    ASSUME TypeInv, NEW s \in Ids, Resume(s) PROVE DataTypes' /\ Recorded'
<1>1. /\ UNCHANGED <<code, term, held, cold, completed, report, aborted>>
      /\ tainted' \in {tainted, tainted \union {Job(susp[s].proc)}}
      /\ result' \in {result, [result EXCEPT ![susp[s].proc] = "failed"]}
  BY DEF Resume, ResumeThaws, ResumeFails
<1>2. mishaps' \in 0 .. MaxMishaps
  BY MishapType DEF Resume, TypeInv
<1>3. Recorded'
  BY <1>1 DEF TypeInv, TaskInv, JobTypes, Recorded
<1> QED
  BY <1>1, <1>2, <1>3, ProcTypes DEF TypeInv, DataTypes

LEMMA LegWatchdogData ==
    ASSUME TypeInv, NEW r \in Legs, LegWatchdog(r) PROVE DataTypes' /\ Recorded'
<1>1. LegTask(r) \in Tasks /\ Job(LegTask(r)) \in Jobs
  BY RegistryTypes, TaskJob DEF TypeInv, TaskInv, Inv
<1>2. /\ UNCHANGED <<code, term, held, cold, completed, report, aborted, mishaps>>
      /\ tainted' \in {tainted, tainted \union {Job(LegTask(r))}}
      /\ result' \in {result, [result EXCEPT ![LegTask(r)] = "failed"]}
  BY DEF LegWatchdog
<1>3. Recorded'
  BY <1>2 DEF TypeInv, TaskInv, JobTypes, Recorded
<1> QED
  BY <1>1, <1>2, <1>3 DEF TypeInv, DataTypes

LEMMA KillData ==
    ASSUME TypeInv, NEW s \in Ids, Kill(s) PROVE DataTypes' /\ Recorded'
<1>1. PICK t, j, sibs, waiting, entry :
          /\ t = susp[s].proc /\ j = Job(t) /\ sibs = Siblings(s)
          /\ waiting = {Slot(susp[x].proc) : x \in sibs}
          /\ entry = Entry(t, "killed")
  OBVIOUS
<1>2. /\ UNCHANGED <<term, held, cold, report, aborted, mishaps, tainted>>
      /\ KillGroups({t})
      /\ result' = [result EXCEPT ![t] = "killed"]
      /\ completed' = IF Kind[j] = "parallel"
                      THEN [p \in Tasks |->
                               IF \E x \in sibs : susp[x].proc = p
                               THEN MergeKill(completed[p], Slot(t), entry, waiting, Width[j])
                               ELSE completed[p]]
                      ELSE completed
  BY <1>1 DEF Kill
<1>3. entry \in Entries /\ Width[j] \in Nat
  BY <1>1, ProcTypes, EntryType, TaskForm DEF Hows
<1>4. \A p \in Tasks : MergeKill(completed[p], Slot(t), entry, waiting, Width[j]) \in Seq(Entries)
  BY <1>3, MergeKillType DEF TypeInv, DataTypes
<1>5. completed' \in [Tasks -> Seq(Entries)]
  BY <1>2, <1>4 DEF TypeInv, DataTypes
<1>6. Recorded'
  BY <1>2 DEF TypeInv, TaskInv, JobTypes, Recorded
<1> QED
  BY <1>2, <1>5, <1>6, KilledCode DEF TypeInv, DataTypes

LEMMA ContinuesData ==
    ASSUME TypeInv, NEW s \in Ids, NEW how \in {"ok", "failed"}, ParallelContinues(s, how)
    PROVE  /\ completed' \in [Tasks -> Seq(Entries)]
           /\ DOMAIN report' = Jobs
           /\ tainted' \subseteq Jobs
<1>1. PICK t, j, active, waiting, merged, patched, strangers :
          /\ t = susp[s].proc /\ j = Job(t)
          /\ active = {x \in Live : x # s /\ Kind[Job(susp[x].proc)] = "parallel"}
          /\ waiting = {Slot(susp[x].proc) : x \in active}
          /\ merged = Merged(t, how, waiting, completed[t])
          /\ patched = {susp[x].proc : x \in {y \in active : Slot(susp[y].proc) # Slot(t)}}
          /\ strangers = {Job(susp[x].proc) : x \in active} \ {j}
  OBVIOUS
<1>2. /\ report' = [report EXCEPT ![j] = merged]
      /\ completed' = [p \in Tasks |-> IF p \in patched THEN Patch(merged, waiting, Slot(p))
                                       ELSE completed[p]]
      /\ tainted' \in {tainted, tainted \union strangers \union {j}}
  BY <1>1 DEF ParallelContinues
<1>3. t \in Tasks /\ j \in Jobs /\ Width[j] \in Nat /\ Slots(j) = 1 .. Width[j]
  BY <1>1, ProcTypes, TaskForm DEF Slots
<1>4. merged \in [1 .. Width[j] -> Entries]
  <2>1. completed[t] \in Seq(Entries) /\ how \in Hows
    BY <1>3 DEF TypeInv, DataTypes, Hows
  <2> QED
    BY <1>1, <1>3, <2>1, MergedType
<1>5. \A p \in Tasks : Patch(merged, waiting, Slot(p)) \in Seq(Entries)
  BY <1>3, <1>4, PatchType
<1>6. strangers \subseteq Jobs
  BY <1>1, ProcTypes DEF Live
<1> QED
  BY <1>2, <1>3, <1>5, <1>6 DEF TypeInv, DataTypes

LEMMA CloseData ==
    ASSUME TypeInv, NEW t \in Tasks, Close(t) PROVE DataTypes' /\ Recorded'
<1>1. UNCHANGED <<code, term, held, aborted, mishaps>>
  BY DEF Close
<1>2. CASE ColdClose(t)
  <2>1. \E sus : \E how \in {"ok", "failed", "suspended"} : ColdSettles(t, how, sus)
    BY <1>2 DEF ColdClose
  <2>2. /\ completed' \in [Tasks -> Seq(Entries)]
        /\ DOMAIN report' = Jobs
        /\ Recorded'
    BY <2>1, ColdData
  <2> QED
    BY <1>1, <1>2, <2>2 DEF ColdClose, TypeInv, DataTypes
<1>3. CASE LegClose(t)
  <2>1. PICK r \in Listening(t), how \in {"ok", "failed"} :
            /\ UNCHANGED cold
            /\ \/ UNCHANGED <<result, completed, report, tainted>>
               \/ /\ result' = [result EXCEPT ![t] = how]
                  /\ \/ ParallelContinues(leg[r].of, how)
                     \/ ChainContinues(t)
    BY <1>3 DEF LegClose
  <2>2. leg[r].of \in Ids
    BY RegistryTypes DEF Listening, TypeInv, TaskInv, Inv
  <2>3. Recorded'
    BY <2>1 DEF TypeInv, TaskInv, JobTypes, Recorded
  <2>4. /\ completed' \in [Tasks -> Seq(Entries)]
        /\ DOMAIN report' = Jobs
        /\ tainted' \subseteq Jobs
    BY <2>1, <2>2, ContinuesData DEF ChainContinues, TypeInv, DataTypes
  <2> QED
    BY <1>1, <2>3, <2>4 DEF TypeInv, DataTypes
<1>4. CASE UNCHANGED <<jobVars, tainted>>
  BY <1>1, <1>4 DEF jobVars, TypeInv, DataTypes, Recorded
<1> QED
  BY <1>2, <1>3, <1>4 DEF Close

LEMMA TypeInit == Init => TypeInv
<1> SUFFICES ASSUME Init PROVE DataTypes /\ Recorded
  BY TaskInit DEF TypeInv
<1>1. <<>> \in Seq(Entries)
  OBVIOUS
<1>2. mishaps \in 0 .. MaxMishaps
  BY SubagentAssumption DEF Init
<1>3. completed \in [Tasks -> Seq(Entries)]
  BY <1>1 DEF Init
<1> QED
  BY <1>2, <1>3 DEF Init, DataTypes, Recorded

LEMMA TypeStep == TypeInv /\ [Next]_vars => TypeInv'
<1> SUFFICES ASSUME TypeInv, [Next]_vars PROVE DataTypes' /\ Recorded'
  BY TaskStep DEF TypeInv
<1> QED
  BY ProcessData, SpawnFailsData, ColdWatchdogData, ResumeData, LegWatchdogData, KillData, CloseData
     DEF Next, Runs, Asked

(* The types of the processes, the registry of suspensions and the recorded *)
(* results, for any tool calls: what a merged list or a patch is read from  *)
(* is always there.                                                         *)
THEOREM TypesHold == Spec => []TypeOK
<1>1. TypeInv => TypeOK
  BY DEF TypeInv, TaskInv, Inv, Types, States, Suspensions, Resumes, JobTypes, DataTypes, Entries, Hows,
         TypeOK
<1> QED
  BY <1>1, TypeInit, TypeStep, PTL DEF Spec

-----------------------------------------------------------------------------
(* The results of a parallel call and the steps of a chain stay in order.   *)

LiveTasks == {Proc(s) : s \in Live}
LegTasks == {LegTask(r) : r \in Legs}

(* A chain may go on after the step t.                                      *)
Passed(t) ==
    \/ result[t] = "ok"
    \/ result[t] = "failed" /\ \E s \in Ids : Proc(s) = t

ChainOk(j) ==
    /\ report[j] = <<>>
    /\ \A t, u \in Tasks : Job(t) = j /\ Job(u) = j /\ Slot(u) < Slot(t) =>
          /\ cold[t] # "none" => cold[u] = "settled" /\ Passed(u)
          /\ u \in LiveTasks => cold[t] = "none"
    /\ \A t \in Tasks : Job(t) = j /\ cold[t] = "settled" /\ call[j] = "running" => Passed(t)

(* The slots of a parallel call that no suspension holds, and the list of   *)
(* their results in the order of the slots.                                 *)
Over(j) == {i \in Slots(j) : <<j, i>> \notin LiveTasks}
Holds(list, j, S, res) ==
    /\ Len(list) = Cardinality(S)
    /\ \A i \in S : list[Rank(S, i)] = Entry(<<j, i>>, res[<<j, i>>])

Reported(j) ==
    \A i \in DOMAIN report[j] :
        /\ i \in Slots(j) /\ report[j][i].task = <<j, i>>
        /\ \/ /\ report[j][i].how = "waiting"
              /\ <<j, i>> \in LiveTasks \/ result[<<j, i>>] = "killed"
           \/ report[j][i].how = result[<<j, i>>] /\ <<j, i>> \notin LiveTasks

SlotsOk(j) ==
    /\ call[j] \in {"idle", "running"} => report[j] = <<>>
    /\ Reported(j)
    /\ \A t \in Tasks : Job(t) = j =>
          /\ call[j] \in {"parked", "done"} => cold[t] = "settled"
          /\ result[t] = "suspended" <=> t \in LiveTasks
          /\ t \in LegTasks => call[j] \in {"parked", "done"}
          /\ call[j] = "done" => t \notin LiveTasks
          /\ call[j] = "parked" /\ t \in LiveTasks => Holds(completed[t], j, Over(j), result)

JobOk(j) ==
    /\ call[j] = "idle" => \A t \in Tasks : Job(t) = j => cold[t] = "none"
    /\ IF Kind[j] = "chain" THEN ChainOk(j) ELSE SlotsOk(j)

OrderInv == TypeInv /\ \A j \in Jobs \ tainted : JobOk(j)

LEMMA OrderInit == Init => OrderInv
<1> SUFFICES ASSUME Init PROVE OrderInv
  OBVIOUS
<1>1. Live = {} /\ Legs = {} /\ LiveTasks = {} /\ LegTasks = {}
  BY DEF Init, Live, Ids, Legs, LiveTasks, LegTasks
<1>2. DOMAIN <<>> = {}
  OBVIOUS
<1>3. ASSUME NEW j \in Jobs PROVE JobOk(j)
  <2>1. /\ report[j] = <<>> /\ call[j] = "idle"
        /\ \A t \in Tasks : cold[t] = "none" /\ result[t] = "none"
    BY DEF Init
  <2>2. Reported(j)
    BY <1>2, <2>1 DEF Reported
  <2>3. ChainOk(j) /\ SlotsOk(j)
    BY <1>1, <2>1, <2>2 DEF ChainOk, SlotsOk
  <2> QED
    BY <2>1, <2>3 DEF JobOk
<1> QED
  BY <1>3, TypeInit DEF OrderInv

LEMMA OrderImplies == OrderInv => ResultsInOrder
<1> SUFFICES ASSUME OrderInv PROVE SlotsRight /\ ChainOrder
  BY DEF ResultsInOrder
<1>1. \A t \in Tasks : result[t] # "waiting"
  BY DEF OrderInv, TypeInv, TaskInv, JobTypes
<1>2. SlotsRight
  <2> SUFFICES ASSUME NEW j \in Jobs \ tainted, NEW i \in DOMAIN report[j]
               PROVE  /\ report[j][i].task = <<j, i>>
                      /\ report[j][i].how \in {"waiting", result[<<j, i>>]}
                      /\ call[j] = "done" /\ report[j][i].how = "waiting" => result[<<j, i>>] = "killed"
    BY DEF SlotsRight
  <2>1. JobOk(j) /\ Kind[j] # "chain"
    <3>1. DOMAIN <<>> = {}
      OBVIOUS
    <3> QED
      BY <3>1 DEF OrderInv, JobOk, ChainOk
  <2>2. SlotsOk(j) /\ Reported(j)
    BY <2>1 DEF JobOk, SlotsOk
  <2>3. i \in Slots(j) /\ <<j, i>> \in Tasks /\ Job(<<j, i>>) = j
    BY <2>2, TaskForm DEF Reported
  <2>4. call[j] = "done" => <<j, i>> \notin LiveTasks
    BY <2>2, <2>3 DEF SlotsOk
  <2> QED
    BY <1>1, <2>2, <2>3, <2>4 DEF Reported
<1>3. ChainOrder
  <2> SUFFICES ASSUME NEW t \in Tasks, Job(t) \notin tainted, Kind[Job(t)] = "chain",
                      Slot(t) > 1, cold[t] # "none"
               PROVE  Passed(<<Job(t), Slot(t) - 1>>)
    BY DEF ChainOrder, Passed, Proc
  <2>1. PICK u : u = <<Job(t), Slot(t) - 1>>
    OBVIOUS
  <2>2. Job(t) \in Jobs /\ Slot(t) \in 1 .. Width[Job(t)] /\ Width[Job(t)] \in Nat
    BY TaskForm
  <2>3. u \in Tasks /\ Job(u) = Job(t) /\ Slot(u) < Slot(t)
    <3>1. Slot(t) - 1 \in Slots(Job(t)) /\ Slot(t) - 1 < Slot(t)
      BY <2>2 DEF Slots
    <3> QED
      BY <2>1, <2>2, <3>1, TaskForm
  <2>4. ChainOk(Job(t))
    BY <2>2 DEF OrderInv, JobOk
  <2> QED
    BY <2>1, <2>3, <2>4 DEF ChainOk
<1> QED
  BY <1>2, <1>3

(* A step that taints no more than it says, forgets no suspension and leaves *)
(* a job alone.                                                             *)
Grows ==
    /\ tainted \subseteq tainted'
    /\ \A s \in Ids : s \in Ids' /\ susp'[s].proc = susp[s].proc
Untouched(j) ==
    /\ call'[j] = call[j] /\ report'[j] = report[j]
    /\ \A t \in Tasks : Job(t) = j =>
          /\ cold'[t] = cold[t] /\ result'[t] = result[t] /\ completed'[t] = completed[t]
          /\ t \in LiveTasks' <=> t \in LiveTasks
          /\ t \in LegTasks' => t \in LegTasks

LEMMA PassedStays ==
    ASSUME Grows, NEW t, result'[t] = result[t], Passed(t) PROVE Passed(t)'
BY DEF Grows, Passed, Proc

LEMMA Frame ==
    ASSUME OrderInv, Grows, NEW j \in Jobs, j \notin tainted', Untouched(j)
    PROVE  JobOk(j)'
<1>1. JobOk(j)
  BY DEF OrderInv, Grows
<1>2. CASE Kind[j] = "chain"
  <2>1. ChainOk(j)'
    <3>1. report'[j] = <<>>
      BY <1>1, <1>2 DEF JobOk, ChainOk, Untouched
    <3>2. ASSUME NEW t \in Tasks, NEW u \in Tasks, Job(t) = j, Job(u) = j, Slot(u) < Slot(t)
          PROVE  /\ cold'[t] # "none" => cold'[u] = "settled" /\ Passed(u)'
                 /\ u \in LiveTasks' => cold'[t] = "none"
      BY <1>1, <1>2, <3>2, PassedStays DEF JobOk, ChainOk, Untouched
    <3>3. ASSUME NEW t \in Tasks, Job(t) = j, cold'[t] = "settled", call'[j] = "running"
          PROVE  Passed(t)'
      BY <1>1, <1>2, <3>3, PassedStays DEF JobOk, ChainOk, Untouched
    <3> QED
      BY <3>1, <3>2, <3>3 DEF ChainOk
  <2> QED
    BY <1>1, <1>2, <2>1 DEF JobOk, Untouched
<1>3. CASE Kind[j] # "chain"
  <2>0. SlotsOk(j)
    BY <1>1, <1>3 DEF JobOk
  <2>1. \A i \in Slots(j) : <<j, i>> \in Tasks /\ Job(<<j, i>>) = j
    BY TaskForm
  <2>2. Over(j)' = Over(j)
    BY <2>1 DEF Over, Untouched
  <2>3. Reported(j)'
    BY <2>0, <2>1 DEF SlotsOk, Reported, Untouched
  <2>4. ASSUME NEW t \in Tasks, Job(t) = j, Holds(completed[t], j, Over(j), result)
        PROVE  Holds(completed[t], j, Over(j), result)'
    BY <2>1, <2>2, <2>4 DEF Untouched, Holds, Over
  <2>5. SlotsOk(j)'
    BY <2>0, <2>3, <2>4 DEF SlotsOk, Untouched
  <2> QED
    BY <1>1, <1>3, <2>5 DEF JobOk, Untouched
<1> QED
  BY <1>2, <1>3

(* The lists a parallel call keeps are complete and in the order of slots.  *)
LEMMA FinishedHolds ==
    ASSUME NEW j \in Jobs, NEW res
    PROVE  Holds(Finished(j, res), j, {i \in Slots(j) : res[<<j, i>>] # "suspended"}, res)
<1>0. PICK S, done : S = {i \in Slots(j) : res[<<j, i>>] # "suspended"} /\ done = InOrder(S)
  OBVIOUS
<1>1. S \in SUBSET (1 .. Width[j]) /\ Width[j] \in Nat
  BY <1>0, TaskForm DEF Slots
<1>2. /\ Cardinality(S) \in Nat /\ Len(done) = Cardinality(S)
      /\ \A i \in S : Rank(S, i) \in 1 .. Cardinality(S) /\ done[Rank(S, i)] = i
  BY <1>0, <1>1, Ordering
<1>3. Finished(j, res) = [k \in 1 .. Len(done) |-> Entry(<<j, done[k]>>, res[<<j, done[k]>>])]
  BY <1>0 DEF Finished
<1>4. Len(Finished(j, res)) = Cardinality(S)
  BY <1>2, <1>3
<1>5. \A i \in S : Finished(j, res)[Rank(S, i)] = Entry(<<j, i>>, res[<<j, i>>])
  BY <1>2, <1>3
<1> QED
  BY <1>0, <1>4, <1>5 DEF Holds

LEMMA MergeKillHolds ==
    ASSUME NEW j, NEW n \in Nat, NEW old, NEW killed \in 1 .. n, NEW entry, NEW waiting,
           NEW res, NEW after,
           Holds(old, j, (1 .. n) \ (waiting \union {killed}), res),
           \A i \in (1 .. n) \ (waiting \union {killed}) : after[<<j, i>>] = res[<<j, i>>],
           entry = Entry(<<j, killed>>, after[<<j, killed>>])
    PROVE  Holds(MergeKill(old, killed, entry, waiting, n), j,
                 ((1 .. n) \ waiting) \union {killed}, after)
<1>0. PICK skip, O, S, kept :
          /\ skip = waiting \union {killed}
          /\ O = (1 .. n) \ skip
          /\ S = ((1 .. n) \ waiting) \union {killed}
          /\ kept = InOrder(S)
  OBVIOUS
<1>1. O \in SUBSET (1 .. n) /\ S \in SUBSET (1 .. n) /\ O = S \ {killed}
  BY <1>0
<1>2. /\ Cardinality(S) \in Nat /\ Len(kept) = Cardinality(S)
      /\ \A i \in S : Rank(S, i) \in 1 .. Cardinality(S) /\ kept[Rank(S, i)] = i
  <2>1. S \in SUBSET (1 .. n) /\ kept = InOrder(S)
    BY <1>0, <1>1
  <2> QED
    BY <2>1, Ordering
<1>3. ASSUME NEW i \in O
      PROVE  /\ Cursor(i, skip) <= Len(old)
             /\ old[Cursor(i, skip)] = Entry(<<j, i>>, after[<<j, i>>])
  <2>1. Cursor(i, skip) = Rank(O, i)
    BY <1>0, CursorRank
  <2>2. Rank(O, i) \in 1 .. Cardinality(O) /\ Cardinality(O) \in Nat
    BY <1>1, Ranks
  <2>3. Holds(old, j, O, res) /\ after[<<j, i>>] = res[<<j, i>>]
    BY <1>0
  <2>4. Len(old) = Cardinality(O) /\ old[Rank(O, i)] = Entry(<<j, i>>, after[<<j, i>>])
    BY <2>3 DEF Holds
  <2> QED
    BY <2>1, <2>2, <2>4
<1>4. S = {i \in 1 .. n : i = killed \/ (i \notin skip /\ Cursor(i, skip) <= Len(old))}
  BY <1>0, <1>1, <1>3
<1>5. MergeKill(old, killed, entry, waiting, n) =
        [k \in 1 .. Len(kept) |-> IF kept[k] = killed THEN entry ELSE old[Cursor(kept[k], skip)]]
  BY <1>0, <1>4 DEF MergeKill
<1>6. Len(MergeKill(old, killed, entry, waiting, n)) = Cardinality(S)
  BY <1>2, <1>5
<1>7. \A i \in S : MergeKill(old, killed, entry, waiting, n)[Rank(S, i)] =
                      Entry(<<j, i>>, after[<<j, i>>])
  <2> SUFFICES ASSUME NEW i \in S
               PROVE  MergeKill(old, killed, entry, waiting, n)[Rank(S, i)] =
                         Entry(<<j, i>>, after[<<j, i>>])
    OBVIOUS
  <2>1. Rank(S, i) \in 1 .. Len(kept) /\ kept[Rank(S, i)] = i
    BY <1>2
  <2>2. MergeKill(old, killed, entry, waiting, n)[Rank(S, i)] =
            IF i = killed THEN entry ELSE old[Cursor(i, skip)]
    BY <1>5, <2>1
  <2>3. i # killed => i \in O
    BY <1>1
  <2> QED
    BY <1>3, <2>2, <2>3
<1> QED
  BY <1>0, <1>6, <1>7 DEF Holds

LEMMA MergedHolds ==
    ASSUME NEW t \in Tasks, NEW how, NEW waiting, NEW old, NEW res,
           NEW O \in SUBSET Slots(Job(t)),
           \A i \in Slots(Job(t)) : i \in O <=> i \notin waiting /\ i # Slot(t),
           Holds(old, Job(t), O, res)
    PROVE  /\ DOMAIN Merged(t, how, waiting, old) = Slots(Job(t))
           /\ Merged(t, how, waiting, old)[Slot(t)] = Entry(t, how)
           /\ \A i \in O : Merged(t, how, waiting, old)[i] =
                            Entry(<<Job(t), i>>, res[<<Job(t), i>>])
           /\ \A i \in Slots(Job(t)) \cap waiting : i # Slot(t) =>
                 Merged(t, how, waiting, old)[i] = Entry(<<Job(t), i>>, "waiting")
<1>0. PICK j, n, skip, merged : /\ j = Job(t) /\ n = Width[j] /\ skip = waiting \union {Slot(t)}
                                /\ merged = Merged(t, how, waiting, old)
  OBVIOUS
<1>1. n \in Nat /\ Slots(j) = 1 .. n /\ Slot(t) \in Slots(j) /\ O = (1 .. n) \ skip
  BY <1>0, TaskForm DEF Slots
<1>2. ASSUME NEW i \in O
      PROVE  Cursor(i, skip) <= Len(old) /\ old[Cursor(i, skip)] = Entry(<<j, i>>, res[<<j, i>>])
  <2>1. Cursor(i, skip) = Rank(O, i)
    BY <1>0, <1>1, CursorRank
  <2>2. O \in SUBSET (1 .. n)
    BY <1>1
  <2>3. Rank(O, i) \in 1 .. Cardinality(O) /\ Cardinality(O) \in Nat
    BY <1>1, <2>2, Ranks
  <2>4. Holds(old, j, O, res)
    BY <1>0, <1>1
  <2>5. Len(old) = Cardinality(O) /\ old[Rank(O, i)] = Entry(<<j, i>>, res[<<j, i>>])
    BY <2>4 DEF Holds
  <2> QED
    BY <2>1, <2>3, <2>5
<1>3. merged[Slot(t)] = Entry(t, how)
  BY <1>0, <1>1 DEF Merged
<1>4. DOMAIN merged = Slots(j)
  BY <1>0 DEF Merged
<1>5. ASSUME NEW i \in O PROVE merged[i] = Entry(<<j, i>>, res[<<j, i>>])
  BY <1>0, <1>1, <1>2 DEF Merged
<1>6. ASSUME NEW i \in Slots(j) \cap waiting, i # Slot(t)
      PROVE  merged[i] = Entry(<<j, i>>, "waiting")
  BY <1>0, <1>1, <1>6 DEF Merged
<1> QED
  BY <1>0, <1>3, <1>4, <1>5, <1>6

LEMMA PatchHolds ==
    ASSUME NEW j, NEW n \in Nat, NEW merged, DOMAIN merged = 1 .. n,
           NEW waiting, NEW i \in waiting, NEW res,
           \A k \in (1 .. n) \ waiting : merged[k] = Entry(<<j, k>>, res[<<j, k>>])
    PROVE  Holds(Patch(merged, waiting, i), j, (1 .. n) \ waiting, res)
<1>0. PICK S, kept : S = (1 .. n) \ waiting /\ kept = InOrder(S)
  OBVIOUS
<1>1. S \in SUBSET (1 .. n) /\ DOMAIN merged \ (waiting \union {i}) = S
  BY <1>0
<1>2. /\ Cardinality(S) \in Nat /\ Len(kept) = Cardinality(S)
      /\ \A k \in S : Rank(S, k) \in 1 .. Cardinality(S) /\ kept[Rank(S, k)] = k
  BY <1>0, <1>1, Ordering
<1>3. Patch(merged, waiting, i) = [k \in 1 .. Len(kept) |-> merged[kept[k]]]
  BY <1>0, <1>1 DEF Patch
<1>4. Len(Patch(merged, waiting, i)) = Cardinality(S)
  BY <1>2, <1>3
<1>5. \A k \in S : Patch(merged, waiting, i)[Rank(S, k)] = Entry(<<j, k>>, res[<<j, k>>])
  <2> SUFFICES ASSUME NEW k \in S
               PROVE  Patch(merged, waiting, i)[Rank(S, k)] = Entry(<<j, k>>, res[<<j, k>>])
    OBVIOUS
  <2>1. Rank(S, k) \in 1 .. Len(kept) /\ kept[Rank(S, k)] = k
    BY <1>2
  <2>2. Patch(merged, waiting, i)[Rank(S, k)] = merged[k]
    BY <1>3, <2>1
  <2> QED
    BY <1>0, <2>2
<1> QED
  BY <1>0, <1>4, <1>5 DEF Holds

(* Steps that leave the registry and the resumes alone.                     *)
LEMMA SameRegistry ==
    ASSUME UNCHANGED <<susp, leg>>, tainted \subseteq tainted'
    PROVE  Grows /\ LiveTasks' = LiveTasks /\ LegTasks' = LegTasks
BY DEF Grows, LiveTasks, LegTasks, Live, Ids, Legs, LegTask, Proc

LEMMA QuietOrder ==
    ASSUME OrderInv, UNCHANGED <<cold, result, call, completed, report, susp, leg>>,
           tainted \subseteq tainted'
    PROVE  \A j \in Jobs \ tainted' : JobOk(j)'
BY SameRegistry, Frame DEF Untouched

LEMMA StartOrder ==
    ASSUME OrderInv, NEW k \in Jobs, Start(k)
    PROVE  \A j \in Jobs \ tainted' : JobOk(j)'
<1>1. /\ call[k] = "idle" /\ call' = [call EXCEPT ![k] = "running"]
      /\ UNCHANGED <<cold, result, completed, report, susp, leg, tainted>>
  BY DEF Start
<1>2. Grows /\ LiveTasks' = LiveTasks /\ LegTasks' = LegTasks
  BY <1>1, SameRegistry
<1>3. ASSUME NEW j \in Jobs \ tainted, j # k PROVE JobOk(j)'
  BY <1>1, <1>2, <1>3, Frame DEF Untouched, OrderInv, TypeInv, TaskInv, JobTypes
<1>4. ASSUME k \notin tainted PROVE JobOk(k)'
  <2>1. /\ call'[k] = "running" /\ JobOk(k)
        /\ \A t \in Tasks : Job(t) = k => cold[t] = "none"
    BY <1>1, <1>4 DEF OrderInv, JobOk, TypeInv, TaskInv, JobTypes
  <2>2. CASE Kind[k] = "chain"
    BY <1>1, <1>2, <2>1, <2>2 DEF JobOk, ChainOk
  <2>3. CASE Kind[k] # "chain"
    <3>1. SlotsOk(k) /\ report'[k] = <<>>
      BY <1>1, <2>1, <2>3 DEF JobOk, SlotsOk
    <3>2. Reported(k)'
      <4>1. DOMAIN <<>> = {}
        OBVIOUS
      <4> QED
        BY <3>1, <4>1 DEF Reported
    <3>3. SlotsOk(k)'
      BY <1>1, <1>2, <2>1, <3>1, <3>2 DEF SlotsOk
    <3> QED
      BY <2>1, <2>3, <3>3 DEF JobOk
  <2> QED
    BY <2>2, <2>3
<1> QED
  BY <1>1, <1>3, <1>4

(* The steps of a chain before the next one have all been run.              *)
LEMMA StepsBefore ==
    ASSUME OrderInv, NEW t \in Tasks, Clean(t), Chained(t), call[Job(t)] = "running",
           NextTask(t) \/ cold[t] = "listening"
    PROVE  /\ \A u \in Tasks : Job(u) = Job(t) /\ Slot(u) < Slot(t) => cold[u] = "settled" /\ Passed(u)
           /\ \A u \in Tasks : Job(u) = Job(t) /\ Slot(t) < Slot(u) => cold[u] = "none"
           /\ \A u \in Tasks : Job(u) = Job(t) => u \notin LiveTasks
<1>0. Job(t) \in Jobs /\ cold[t] # "settled" /\ ChainOk(Job(t))
  BY TaskForm DEF OrderInv, JobOk, Clean, Chained, NextTask
<1>1. ASSUME NEW u \in Tasks, Job(u) = Job(t), Slot(u) < Slot(t)
      PROVE  cold[u] = "settled" /\ Passed(u)
  <2>1. CASE cold[t] = "listening"
    BY <1>0, <1>1, <2>1 DEF ChainOk
  <2>2. CASE NextTask(t)
    <3>1. Slot(u) \in 1 .. Slot(t) - 1 /\ u = <<Job(t), Slot(u)>>
      <4>1. u = <<Job(u), Slot(u)>> /\ Slot(u) \in 1 .. Width[Job(u)] /\ Slot(t) \in 1 .. Width[Job(t)]
            /\ Width[Job(t)] \in Nat
        BY TaskForm
      <4> QED
        BY <1>1, <4>1
    <3>2. cold[u] # "none"
      BY <2>2, <3>1 DEF NextTask
    <3>3. cold[u] # "listening"
      BY <1>1, <2>2, NoneBusy
    <3>4. cold[u] = "settled"
      BY <3>2, <3>3 DEF OrderInv, TypeInv, TaskInv, JobTypes
    <3> QED
      BY <1>0, <1>1, <3>4 DEF ChainOk
  <2> QED
    BY <2>1, <2>2
<1>2. ASSUME NEW u \in Tasks, Job(u) = Job(t), Slot(t) < Slot(u) PROVE cold[u] = "none"
  BY <1>0, <1>2 DEF ChainOk
<1>3. ASSUME NEW u \in Tasks, Job(u) = Job(t), u \in LiveTasks PROVE FALSE
  BY <1>3 DEF LiveTasks, OrderInv, TypeInv, TaskInv, TasksInStep, LiveInStep, Clean, Chained
<1> QED
  BY <1>1, <1>2, <1>3

LEMMA SpawnOrder ==
    ASSUME OrderInv, NEW t \in Tasks, Spawn(t)
    PROVE  \A j \in Jobs \ tainted' : JobOk(j)'
<1>0. PICK k : k = Job(t)
  OBVIOUS
<1>1. /\ call[k] = "running" /\ cold[t] = "none" /\ NextTask(t)
      /\ cold' = [cold EXCEPT ![t] = "listening"]
      /\ UNCHANGED <<call, result, completed, report, susp, leg, tainted>>
  BY <1>0 DEF Spawn, NextTask
<1>2. Grows /\ LiveTasks' = LiveTasks /\ LegTasks' = LegTasks
  BY <1>1, SameRegistry
<1>3. \A u \in Tasks : cold'[u] = IF u = t THEN "listening" ELSE cold[u]
  BY <1>1 DEF OrderInv, TypeInv, TaskInv, JobTypes
<1>4. ASSUME NEW j \in Jobs \ tainted, j # k PROVE JobOk(j)'
  BY <1>0, <1>1, <1>2, <1>3, <1>4, Frame DEF Untouched
<1>5. ASSUME k \notin tainted PROVE JobOk(k)'
  <2>0. k \in Jobs /\ JobOk(k)
    BY <1>0, <1>5, TaskForm DEF OrderInv
  <2>1. CASE Kind[k] = "chain"
    <3>1. /\ \A u \in Tasks : Job(u) = k /\ Slot(u) < Slot(t) => cold[u] = "settled" /\ Passed(u)
          /\ \A u \in Tasks : Job(u) = k /\ Slot(t) < Slot(u) => cold[u] = "none"
          /\ \A u \in Tasks : Job(u) = k => u \notin LiveTasks
      BY <1>0, <1>1, <1>5, <2>1, StepsBefore DEF Clean, Chained
    <3>2. \A u \in Tasks : Passed(u) => Passed(u)'
      BY <1>1, <1>2, PassedStays
    <3>3. ASSUME NEW v \in Tasks, NEW u \in Tasks, Job(v) = k, Job(u) = k, Slot(u) < Slot(v)
          PROVE  /\ cold'[v] # "none" => cold'[u] = "settled" /\ Passed(u)'
                 /\ u \in LiveTasks' => cold'[v] = "none"
      <4>1. CASE v = t
        <5>1. u # t
          BY <3>3, <4>1, TaskForm
        <5> QED
          BY <1>2, <1>3, <3>1, <3>2, <3>3, <4>1, <5>1
      <4>2. CASE v # t
        BY <1>1, <1>2, <1>3, <2>0, <2>1, <3>1, <3>2, <3>3, <4>2 DEF JobOk, ChainOk
      <4> QED
        BY <4>1, <4>2
    <3>4. ASSUME NEW v \in Tasks, Job(v) = k, cold'[v] = "settled", call'[k] = "running"
          PROVE  Passed(v)'
      BY <1>1, <1>3, <2>0, <2>1, <3>2, <3>4 DEF JobOk, ChainOk
    <3>5. ChainOk(k)'
      BY <1>1, <2>0, <2>1, <3>3, <3>4 DEF JobOk, ChainOk
    <3> QED
      BY <1>1, <2>1, <3>5 DEF JobOk
  <2>2. CASE Kind[k] # "chain"
    <3>1. SlotsOk(k)'
      BY <1>1, <1>2, <1>3, <2>0, <2>2 DEF JobOk, SlotsOk, Reported
    <3> QED
      BY <1>1, <2>2, <3>1 DEF JobOk
  <2> QED
    BY <2>1, <2>2
<1> QED
  BY <1>1, <1>4, <1>5

(* The end of a task's run: its chain goes on, or, with the last of them,   *)
(* the parallel call returns.                                               *)
LEMMA ColdChain ==
    ASSUME OrderInv, Grows, NEW t \in Tasks, NEW how \in {"ok", "failed", "suspended"},
           ColdSettles(t, how, susp'), Clean(t), Chained(t), call[Job(t)] = "running",
           NextTask(t) \/ cold[t] = "listening",
           LiveTasks' = IF how = "suspended" THEN LiveTasks \union {t} ELSE LiveTasks
    PROVE  JobOk(Job(t))'
<1>0. PICK k : k = Job(t)
  OBVIOUS
<1>1. /\ \A u \in Tasks : Job(u) = k /\ Slot(u) < Slot(t) => cold[u] = "settled" /\ Passed(u)
      /\ \A u \in Tasks : Job(u) = k /\ Slot(t) < Slot(u) => cold[u] = "none"
      /\ \A u \in Tasks : Job(u) = k => u \notin LiveTasks
  BY <1>0, StepsBefore
<1>2. k \in Jobs /\ ChainOk(k) /\ Kind[k] = "chain" /\ cold[t] # "settled"
  BY <1>0, TaskForm DEF OrderInv, JobOk, Clean, Chained, NextTask
<1>3. /\ \A u \in Tasks : /\ cold'[u] = IF u = t THEN "settled" ELSE cold[u]
                          /\ result'[u] = IF u = t THEN how ELSE result[u]
      /\ UNCHANGED report
      /\ call'[k] = ChainAfter(t, how)
  <2>1. call' = [call EXCEPT ![k] = ChainAfter(t, how)] /\ UNCHANGED report
    BY <1>0, <1>2 DEF ColdSettles, StepSettles
  <2> QED
    BY <1>2, <2>1, ColdSettled DEF OrderInv, TypeInv, TaskInv, JobTypes
<1>4. \A u \in Tasks : u # t /\ Passed(u) => Passed(u)'
  BY <1>3, PassedStays
<1>5. ASSUME NEW v \in Tasks, NEW u \in Tasks, Job(v) = k, Job(u) = k, Slot(u) < Slot(v)
      PROVE  /\ cold'[v] # "none" => cold'[u] = "settled" /\ Passed(u)'
             /\ u \in LiveTasks' => cold'[v] = "none"
  <2>1. v # t \/ u # t
    BY <1>5, TaskForm
  <2>2. CASE v = t
    <3>1. cold[u] = "settled" /\ Passed(u) /\ u \notin LiveTasks
      BY <1>1, <1>5, <2>2
    <3> QED
      BY <1>3, <1>4, <2>1, <2>2, <3>1
  <2>3. CASE v # t
    <3>1. cold'[v] = cold[v]
      BY <1>3, <2>3
    <3>2. cold[v] # "none" => cold[u] = "settled" /\ Passed(u)
      BY <1>2, <1>5 DEF ChainOk
    <3>3. cold[v] # "none" => u # t
      BY <1>2, <3>2
    <3>4. u \in LiveTasks' => u = t
      BY <1>1, <1>5
    <3> QED
      BY <1>3, <1>4, <3>1, <3>2, <3>3, <3>4
  <2> QED
    BY <2>2, <2>3
<1>6. ASSUME NEW v \in Tasks, Job(v) = k, cold'[v] = "settled", call'[k] = "running"
      PROVE  Passed(v)'
  <2>1. how = "ok"
    BY <1>3, <1>6 DEF ChainAfter
  <2>2. CASE v = t
    BY <1>3, <2>1, <2>2 DEF Passed
  <2>3. CASE v # t
    BY <1>0, <1>2, <1>3, <1>4, <1>6, <2>3 DEF ChainOk
  <2> QED
    BY <2>2, <2>3
<1>7. ChainOk(k)'
  BY <1>2, <1>3, <1>5, <1>6 DEF ChainOk
<1>8. call'[k] # "idle"
  BY <1>3 DEF ChainAfter
<1> QED
  BY <1>0, <1>2, <1>7, <1>8 DEF JobOk

LEMMA ColdSlots ==
    ASSUME OrderInv, Grows, NEW t \in Tasks, NEW how \in {"ok", "failed", "suspended"},
           ColdSettles(t, how, susp'), Clean(t), ~Chained(t), call[Job(t)] = "running",
           cold[t] # "settled", LegTasks' = LegTasks,
           LiveTasks' = IF how = "suspended" THEN LiveTasks \union {t} ELSE LiveTasks
    PROVE  JobOk(Job(t))'
<1>0. PICK k : k = Job(t)
  OBVIOUS
<1>1. k \in Jobs /\ SlotsOk(k) /\ Kind[k] # "chain" /\ report[k] = <<>>
  BY <1>0, TaskForm DEF OrderInv, JobOk, Clean, Chained, SlotsOk
<1>2. \A u \in Tasks : /\ cold'[u] = IF u = t THEN "settled" ELSE cold[u]
                       /\ result'[u] = IF u = t THEN how ELSE result[u]
  BY ColdSettled DEF OrderInv, TypeInv, TaskInv
<1>3. t \notin LiveTasks
  BY DEF LiveTasks, OrderInv, TypeInv, TaskInv, TasksInStep, LiveInStep
<1>4. \A u \in Tasks : Job(u) = k => (result'[u] = "suspended" <=> u \in LiveTasks')
  <2>1. \A u \in Tasks : Job(u) = k => (result[u] = "suspended" <=> u \in LiveTasks)
    BY <1>1 DEF SlotsOk
  <2> QED
    BY <1>2, <1>3, <2>1
<1>5. \A u \in Tasks : Job(u) = k => u \notin LegTasks'
  BY <1>0, <1>1 DEF SlotsOk
<1>6. CASE UNCHANGED <<call, completed, report>>
  <2>1. Reported(k)'
    <3>1. DOMAIN <<>> = {}
      OBVIOUS
    <3> QED
      BY <1>1, <1>6, <3>1 DEF Reported
  <2>2. SlotsOk(k)'
    BY <1>0, <1>1, <1>4, <1>5, <1>6, <2>1 DEF SlotsOk
  <2> QED
    BY <1>0, <1>1, <1>6, <2>2 DEF JobOk
<1>7. ASSUME \A i \in Slots(k) \ {Slot(t)} : cold[<<k, i>>] = "settled",
             ParallelReturns(k, [result EXCEPT ![t] = how], susp')
      PROVE  JobOk(k)'
  <2>0. PICK waiting, over : /\ waiting = {i \in Slots(k) : result'[<<k, i>>] = "suspended"}
                             /\ over = {i \in Slots(k) : result'[<<k, i>>] # "suspended"}
    OBVIOUS
  <2>1. result' = [result EXCEPT ![t] = how]
    BY DEF ColdSettles
  <2>2. \A i \in Slots(k) : <<k, i>> \in Tasks /\ Job(<<k, i>>) = k /\ Slot(<<k, i>>) = i
    BY <1>1, TaskForm
  <2>3. /\ \A i \in Slots(k) : i \in waiting <=> <<k, i>> \in LiveTasks'
        /\ Over(k)' = over
    BY <1>4, <2>0, <2>2 DEF Over
  <2>4. /\ report'[k] = [i \in Slots(k) |->
                           Entry(<<k, i>>, IF i \in waiting THEN "waiting" ELSE result'[<<k, i>>])]
        /\ call'[k] = IF waiting = {} THEN "done" ELSE "parked"
    BY <1>1, <1>7, <2>0, <2>1 DEF ParallelReturns, OrderInv, TypeInv, TaskInv, JobTypes, DataTypes
  <2>5. ASSUME NEW u \in Tasks, Job(u) = k, u \in LiveTasks'
        PROVE  Holds(completed'[u], k, over, result')
    <3>1. Slot(u) \in waiting
      BY <2>3, <2>5, TaskForm
    <3>2. \E s \in DOMAIN susp' : susp'[s].proc = u /\ susp'[s].live
      BY <2>5 DEF LiveTasks, Live, Ids, Proc
    <3>3. completed'[u] = Finished(k, result')
      BY <1>7, <2>0, <2>1, <2>5, <3>1, <3>2 DEF ParallelReturns
    <3>4. Holds(Finished(k, result'), k, {i \in Slots(k) : result'[<<k, i>>] # "suspended"}, result')
      <4>1. PICK res : res = result'
        OBVIOUS
      <4>2. Holds(Finished(k, res), k, {i \in Slots(k) : res[<<k, i>>] # "suspended"}, res)
        BY <1>1, FinishedHolds
      <4> QED
        BY <4>1, <4>2
    <3> QED
      BY <2>0, <3>3, <3>4
  <2>6. \A u \in Tasks : Job(u) = k => cold'[u] = "settled"
    <3> SUFFICES ASSUME NEW u \in Tasks, Job(u) = k, u # t PROVE cold[u] = "settled"
      BY <1>2
    <3>1. u = <<k, Slot(u)>> /\ Slot(u) \in Slots(k) /\ t = <<k, Slot(t)>>
      BY <1>0, TaskForm
    <3> QED
      BY <1>7, <3>1
  <2>7. Reported(k)'
    <3> SUFFICES ASSUME NEW i \in Slots(k)
                 PROVE  /\ report'[k][i].task = <<k, i>>
                        /\ \/ report'[k][i].how = "waiting" /\ <<k, i>> \in LiveTasks'
                           \/ report'[k][i].how = result'[<<k, i>>] /\ <<k, i>> \notin LiveTasks'
      BY <2>4 DEF Reported
    <3>1. report'[k][i] = Entry(<<k, i>>, IF i \in waiting THEN "waiting" ELSE result'[<<k, i>>])
      BY <2>4
    <3> QED
      BY <2>3, <3>1 DEF Entry
  <2>8. ASSUME NEW u \in Tasks, Job(u) = k, call'[k] = "done" PROVE u \notin LiveTasks'
    <3>1. u = <<k, Slot(u)>> /\ Slot(u) \in Slots(k)
      BY <2>8, TaskForm
    <3> QED
      BY <2>3, <2>4, <2>8, <3>1
  <2>9. call'[k] \in {"parked", "done"}
    BY <2>4
  <2>10. SlotsOk(k)'
    BY <1>4, <1>5, <2>3, <2>5, <2>6, <2>7, <2>8, <2>9 DEF SlotsOk
  <2> QED
    BY <1>1, <2>9, <2>10 DEF JobOk
<1> QED
  BY <1>0, <1>1, <1>6, <1>7 DEF ColdSettles, TaskSettles

LEMMA ColdOrder ==
    ASSUME OrderInv, Grows, NEW t \in Tasks, NEW how \in {"ok", "failed", "suspended"},
           ColdSettles(t, how, susp'), NextTask(t) \/ cold[t] = "listening",
           UNCHANGED tainted, LegTasks' = LegTasks,
           LiveTasks' = IF how = "suspended" THEN LiveTasks \union {t} ELSE LiveTasks
    PROVE  \A j \in Jobs \ tainted' : JobOk(j)'
<1>0. PICK k : k = Job(t) /\ k \in Jobs
  BY TaskForm
<1>1. /\ \A u \in Tasks : /\ cold'[u] = IF u = t THEN "settled" ELSE cold[u]
                          /\ result'[u] = IF u = t THEN how ELSE result[u]
      /\ \A j \in Jobs : j # k => call'[j] = call[j]
  BY <1>0, ColdSettled DEF OrderInv, TypeInv, TaskInv
<1>2. ASSUME NEW j \in Jobs \ tainted, j # k PROVE JobOk(j)'
  <2>1. /\ report'[j] = report[j]
        /\ \A u \in Tasks : Job(u) = j => completed'[u] = completed[u]
    BY <1>0, <1>2 DEF ColdSettles, StepSettles, TaskSettles, ParallelReturns,
                      OrderInv, TypeInv, DataTypes
  <2>2. Untouched(j)
    BY <1>0, <1>1, <1>2, <2>1 DEF Untouched
  <2> QED
    BY <1>2, <2>2, Frame
<1>3. ASSUME k \notin tainted PROVE JobOk(k)'
  <2>1. cold[t] # "settled" /\ (NextTask(t) => call[k] = "running")
    BY <1>0 DEF NextTask
  <2>2. cold[t] = "listening" => call[k] = "running"
    <3>1. CASE Chained(t)
      BY <1>0, <1>3, <3>1 DEF Clean, OrderInv, TypeInv, TaskInv, TasksInStep, OneStep
    <3>2. CASE ~Chained(t)
      <4>1. JobOk(k) /\ SlotsOk(k)
        BY <1>0, <1>3, <3>2 DEF OrderInv, JobOk, Chained
      <4>2. call[k] \in {"idle", "running", "parked", "done"}
        BY <1>0 DEF OrderInv, TypeInv, TaskInv, JobTypes
      <4> QED
        BY <1>0, <4>1, <4>2 DEF JobOk, SlotsOk
    <3> QED
      BY <3>1, <3>2
  <2> QED
    BY <1>0, <1>3, <2>1, <2>2, ColdChain, ColdSlots DEF Clean
<1> QED
  BY <1>2, <1>3

(* What the changes of the registry do to the tasks it holds.               *)
LEMMA LegTasksKept ==
    ASSUME Types, Grows, Legs' = Legs, \A r \in Legs : leg'[r].of = leg[r].of
    PROVE  LegTasks' = LegTasks
<1>1. \A r \in Legs : LegTask(r)' = LegTask(r)
  BY RegistryTypes DEF LegTask, Grows
<1> QED
  BY <1>1 DEF LegTasks

LEMMA LiveAdded ==
    ASSUME Types, NEW t \in Tasks, susp' = Append(susp, Suspension(t)), tainted \subseteq tainted'
    PROVE  Grows /\ LiveTasks' = LiveTasks \union {t}
<1>0. PICK n : n = Len(susp) + 1
  OBVIOUS
<1>1. /\ Ids' = Ids \union {n} /\ n \notin Ids
      /\ \A s \in Ids : susp'[s] = susp[s]
      /\ susp'[n].proc = t /\ susp'[n].live
  BY <1>0, Registered DEF Types, Ids, Suspension
<1>2. Live' = Live \union {n}
  BY <1>1 DEF Live
<1>3. \A s \in Live : susp'[s].proc = susp[s].proc
  BY <1>1 DEF Live
<1>4. Grows
  BY <1>1 DEF Grows
<1>5. LiveTasks' = {susp'[s].proc : s \in Live \union {n}}
  BY <1>2 DEF LiveTasks, Proc
<1>6. LiveTasks' = LiveTasks \union {t}
  <2>1. {susp'[s].proc : s \in Live \union {n}} = {susp'[s].proc : s \in Live} \union {t}
    BY <1>1
  <2>2. {susp'[s].proc : s \in Live} = {susp[s].proc : s \in Live}
    BY <1>3
  <2> QED
    BY <1>5, <2>1, <2>2 DEF LiveTasks, Proc
<1> QED
  BY <1>4, <1>6

LEMMA LiveDropped ==
    ASSUME OrderInv, NEW s \in Ids, Ids' = Ids, Live' = Live \ {s},
           \A x \in Ids : susp'[x].proc = susp[x].proc, tainted \subseteq tainted'
    PROVE  /\ Grows
           /\ \A u : u # Proc(s) => (u \in LiveTasks' <=> u \in LiveTasks)
           /\ s \in Live /\ Clean(Proc(s)) =>
                 Proc(s) \in LiveTasks /\ Proc(s) \notin LiveTasks'
<1>1. \A x \in Live : susp'[x].proc = Proc(x)
  BY DEF Live, Proc
<1>2. s \in Live /\ Clean(Proc(s)) => \A x \in Live : Proc(x) = Proc(s) => x = s
  BY DEF OrderInv, TypeInv, TaskInv, TasksInStep, OneLive
<1> QED
  BY <1>1, <1>2 DEF Grows, LiveTasks, Proc

LEMMA Refrozen ==
    ASSUME Types, NEW s \in Ids, susp' = Unregister(Append(susp, Suspension(Proc(s))), s),
           tainted \subseteq tainted'
    PROVE  /\ Grows
           /\ \A u : u # Proc(s) => (u \in LiveTasks' <=> u \in LiveTasks)
           /\ Proc(s) \in LiveTasks'
<1>0. PICK n, t : n = Len(susp) + 1 /\ t = Proc(s) /\ t \in Tasks
  BY RegistryTypes
<1> DEFINE f == Append(susp, Suspension(t))
<1>1. /\ DOMAIN f = Ids \union {n} /\ n \notin Ids
      /\ \A x \in Ids : f[x] = susp[x] /\ f[x] \in Suspensions
      /\ f[n] = Suspension(t)
  <2>1. Ids = 1 .. Len(susp) /\ Len(susp) \in Nat /\ \A x \in Ids : susp[x] \in Suspensions
    BY RegistryTypes
  <2> QED
    BY <1>0, <2>1, Registered DEF Types
<1>2. susp' = [f EXCEPT ![s] = [f[s] EXCEPT !.live = FALSE]]
  BY <1>0 DEF Unregister
<1> HIDE DEF f
<1>3. /\ DOMAIN susp' = Ids \union {n} /\ s # n
      /\ \A x \in Ids : susp'[x].proc = susp[x].proc /\ (x # s => susp'[x] = susp[x])
      /\ susp'[s].live = FALSE
      /\ susp'[n] = Suspension(t)
  <2>1. DOMAIN susp' = DOMAIN f /\ \A x \in DOMAIN f : x # s => susp'[x] = f[x]
    BY <1>2
  <2>2. susp'[s].proc = f[s].proc /\ susp'[s].live = FALSE
    BY <1>1, <1>2 DEF Suspensions
  <2> QED
    BY <1>1, <2>1, <2>2
<1>4. susp'[n].proc = t /\ susp'[n].live
  BY <1>3 DEF Suspension
<1>5. Live' = (Live \ {s}) \union {n}
  BY <1>3, <1>4 DEF Live, Ids
<1>6. \A x \in Live \ {s} : susp'[x].proc = Proc(x)
  BY <1>3 DEF Live, Proc
<1> QED
  BY <1>0, <1>3, <1>4, <1>5, <1>6 DEF Grows, LiveTasks, Proc, Ids

-----------------------------------------------------------------------------
LEMMA SpawnFailsOrder ==
    ASSUME OrderInv, NEW t \in Tasks, SpawnFails(t)
    PROVE  \A j \in Jobs \ tainted' : JobOk(j)'
<1>1. /\ NextTask(t) /\ ColdSettles(t, "failed", susp') /\ UNCHANGED <<susp, leg, tainted>>
  BY DEF SpawnFails
<1>2. Grows /\ LiveTasks' = LiveTasks /\ LegTasks' = LegTasks
  BY <1>1, SameRegistry
<1> QED
  BY <1>1, <1>2, ColdOrder

LEMMA ColdCloseOrder ==
    ASSUME OrderInv, NEW t \in Tasks, ColdClose(t)
    PROVE  \A j \in Jobs \ tainted' : JobOk(j)'
<1>1. /\ cold[t] = "listening" /\ UNCHANGED <<susp, leg, tainted>>
      /\ \E how \in {"ok", "failed"} : ColdSettles(t, how, susp')
  BY DEF ColdClose
<1>2. Grows /\ LiveTasks' = LiveTasks /\ LegTasks' = LegTasks
  BY <1>1, SameRegistry
<1> QED
  BY <1>1, <1>2, ColdOrder

LEMMA ColdWatchdogOrder ==
    ASSUME OrderInv, NEW t \in Tasks, ColdWatchdog(t)
    PROVE  \A j \in Jobs \ tainted' : JobOk(j)'
<1>1. cold[t] = "listening" /\ UNCHANGED <<leg, tainted>> /\ Types
  BY DEF ColdWatchdog, OrderInv, TypeInv, TaskInv, Inv
<1>2. CASE GroupExists(t)
  <2>1. susp' = Append(susp, Suspension(t)) /\ ColdSettles(t, "suspended", susp')
    BY <1>2 DEF ColdWatchdog
  <2>2. Grows /\ LiveTasks' = LiveTasks \union {t}
    BY <1>1, <2>1, LiveAdded
  <2>3. LegTasks' = LegTasks
    BY <1>1, <2>2, LegTasksKept DEF Legs
  <2> QED
    BY <1>1, <2>1, <2>2, <2>3, ColdOrder
<1>3. CASE ~GroupExists(t)
  <2>1. ColdSettles(t, "failed", susp') /\ UNCHANGED susp
    BY <1>3 DEF ColdWatchdog
  <2>2. Grows /\ LiveTasks' = LiveTasks /\ LegTasks' = LegTasks
    BY <1>1, <2>1, SameRegistry
  <2> QED
    BY <1>1, <2>1, <2>2, ColdOrder
<1> QED
  BY <1>2, <1>3

LEMMA ResumeFailsOrder ==
    ASSUME OrderInv, NEW s \in Live, ResumeFails(s), UNCHANGED <<cold, completed, report>>
    PROVE  \A j \in Jobs \ tainted' : JobOk(j)'
<1>0. PICK t : t = Proc(s)
  OBVIOUS
<1>1. /\ susp' = Unregister(susp, s) /\ leg' = leg
      /\ result' = [result EXCEPT ![t] = "failed"]
      /\ \E c : call' = [call EXCEPT ![Job(t)] = c]
      /\ tainted' = tainted \union {Job(t)}
  BY <1>0 DEF ResumeFails, Proc
<1>2. s \in Ids /\ Types /\ t \in Tasks /\ Job(t) \in Jobs
  BY <1>0, RegistryTypes, TaskJob DEF Live, OrderInv, TypeInv, TaskInv, Inv
<1>3. /\ Ids' = Ids /\ Live' = Live \ {s}
      /\ \A x \in Ids : susp'[x].proc = susp[x].proc
  BY <1>1, <1>2, Dropped
<1>4. Grows /\ \A u : u # t => (u \in LiveTasks' <=> u \in LiveTasks)
  BY <1>0, <1>1, <1>2, <1>3, LiveDropped
<1>5. LegTasks' = LegTasks
  BY <1>1, <1>2, <1>4, LegTasksKept DEF Legs
<1>6. ASSUME NEW j \in Jobs \ tainted' PROVE Untouched(j)
  <2>1. j # Job(t)
    BY <1>1
  <2>2. call'[j] = call[j] /\ \A u \in Tasks : Job(u) = j => u # t /\ result'[u] = result[u]
    BY <1>1, <2>1 DEF OrderInv, TypeInv, TaskInv, JobTypes
  <2> QED
    BY <1>4, <1>5, <2>2 DEF Untouched
<1> QED
  BY <1>4, <1>6, Frame

LEMMA ResumeThawsOrder ==
    ASSUME OrderInv, NEW s \in Live, Known(s), ResumeThaws(s), UNCHANGED <<cold, completed, report>>
    PROVE  \A j \in Jobs \ tainted' : JobOk(j)'
<1>0. PICK t, n : t = Proc(s) /\ n = Len(leg) + 1
  OBVIOUS
<1> DEFINE g == [r \in Legs |-> IF r \in Listening(t) THEN [leg[r] EXCEPT !.st = "deaf"]
                                ELSE leg[r]]
<1>1. /\ leg' = Append(g, [of |-> s, st |-> "listening"])
      /\ UNCHANGED <<result, call, susp>>
      /\ tainted \subseteq tainted'
  BY <1>0 DEF ResumeThaws, Proc
<1>2. s \in Ids /\ Types /\ t \in Tasks /\ Job(t) \in Jobs
  BY <1>0, RegistryTypes, TaskJob DEF Live, OrderInv, TypeInv, TaskInv, Inv
<1>3. /\ Legs' = Legs \union {n}
      /\ \A r \in Legs : leg'[r].of = leg[r].of
      /\ leg'[n].of = s
  <2>1. Legs = 1 .. Len(leg) /\ Len(leg) \in Nat /\ \A r \in Legs : leg[r] \in Resumes
    BY <1>2, RegistryTypes
  <2>2. g \in [1 .. Len(leg) -> Resumes] /\ \A r \in Legs : g[r].of = leg[r].of
    BY <2>1 DEF Resumes
  <2> HIDE DEF g
  <2>3. g \in Seq(Resumes) /\ Len(g) = Len(leg) /\ DOMAIN g = Legs
    BY <2>1, <2>2, SeqDef
  <2> QED
    BY <1>0, <1>1, <2>1, <2>2, <2>3 DEF Legs
<1> HIDE DEF g
<1>4. Grows /\ LiveTasks' = LiveTasks /\ Ids' = Ids
  BY <1>1 DEF Grows, LiveTasks, Live, Ids, Proc
<1>5. \A u : u \in LegTasks' => u \in LegTasks \/ u = t
  BY <1>0, <1>1, <1>3 DEF LegTasks, LegTask, Proc
<1>6. ASSUME NEW j \in Jobs \ tainted', j # Job(t) PROVE JobOk(j)'
  <2>1. Untouched(j)
    BY <1>1, <1>4, <1>5, <1>6 DEF Untouched
  <2> QED
    BY <1>4, <2>1, Frame
<1>7. ASSUME Job(t) \notin tainted' PROVE JobOk(Job(t))'
  <2>0. PICK k : k = Job(t)
    OBVIOUS
  <2>1. k \in Jobs /\ JobOk(k) /\ cold[t] = "settled" /\ call[k] \in {"idle", "running", "parked", "done"}
    BY <1>0, <1>1, <1>2, <1>7, <2>0
       DEF OrderInv, TypeInv, TaskInv, JobTypes, TasksInStep, LiveInStep, Clean
  <2>2. CASE Kind[k] = "chain"
    <3>1. \A u : Passed(u)' <=> Passed(u)
      BY <1>1, <1>4 DEF Passed, Proc
    <3>2. ChainOk(k)'
      BY <1>1, <1>4, <2>1, <2>2, <3>1 DEF JobOk, ChainOk
    <3> QED
      BY <1>1, <2>0, <2>1, <2>2, <3>2 DEF JobOk
  <2>3. CASE Kind[k] # "chain"
    <3>1. Kind[k] = "parallel" /\ SlotsOk(k)
      BY <2>1, <2>3, SubagentAssumption DEF JobOk
    <3>2. call[k] \in {"parked", "done"}
      BY <1>0, <1>2, <2>0, <2>1, <3>1 DEF Known, Proc, JobOk
    <3>3. Over(k)' = Over(k) /\ (Reported(k)' <=> Reported(k))
      BY <1>1, <1>4 DEF Over, Reported
    <3>4. SlotsOk(k)'
      BY <1>1, <1>4, <3>1, <3>2, <3>3 DEF SlotsOk
    <3> QED
      BY <1>1, <2>0, <2>1, <2>3, <3>4 DEF JobOk
  <2> QED
    BY <2>2, <2>3
<1> QED
  BY <1>6, <1>7

LEMMA LegWatchdogOrder ==
    ASSUME OrderInv, NEW r \in Legs, LegWatchdog(r)
    PROVE  \A j \in Jobs \ tainted' : JobOk(j)'
<1>0. PICK s, t : s = leg[r].of /\ t = LegTask(r)
  OBVIOUS
<1>1. s \in Ids /\ t \in Tasks /\ Job(t) \in Jobs /\ Proc(s) = t /\ Types
  BY <1>0, RegistryTypes, TaskJob DEF OrderInv, TypeInv, TaskInv, Inv
<1>2. /\ leg' = [leg EXCEPT ![r].st = "settled"] /\ leg[r].st # "settled"
      /\ UNCHANGED <<cold, completed, report>> /\ tainted \subseteq tainted'
      /\ \/ UNCHANGED result
         \/ result' = [result EXCEPT ![t] = "failed"]
      /\ \/ UNCHANGED call
         \/ \E c : call' = [call EXCEPT ![Job(t)] = c]
  BY <1>0 DEF LegWatchdog
<1>3. Legs' = Legs /\ \A x \in Legs : leg'[x].of = leg[x].of
  BY <1>1, <1>2, LegEnds
<1>4. \/ susp' = Unregister(Append(susp, Suspension(t)), s)
      \/ susp' = Unregister(susp, s)
  BY <1>0 DEF LegWatchdog
<1>5. Grows /\ \A u : u # t => (u \in LiveTasks' <=> u \in LiveTasks)
  <2>1. CASE susp' = Unregister(Append(susp, Suspension(t)), s)
    BY <1>1, <1>2, <2>1, Refrozen
  <2>2. CASE susp' = Unregister(susp, s)
    <3>1. /\ Ids' = Ids /\ Live' = Live \ {s}
          /\ \A x \in Ids : susp'[x].proc = susp[x].proc
      BY <1>1, <2>2, Dropped
    <3> QED
      BY <1>1, <1>2, <3>1, LiveDropped
  <2> QED
    BY <1>4, <2>1, <2>2
<1>6. LegTasks' = LegTasks
  BY <1>1, <1>3, <1>5, LegTasksKept
<1>7. ASSUME NEW j \in Jobs \ tainted' PROVE Untouched(j)
  <2>1. CASE j # Job(t)
    <3>1. call'[j] = call[j] /\ \A u \in Tasks : Job(u) = j => u # t /\ result'[u] = result[u]
      BY <1>2, <2>1 DEF OrderInv, TypeInv, TaskInv, JobTypes
    <3> QED
      BY <1>2, <1>5, <1>6, <3>1 DEF Untouched
  <2>2. CASE j = Job(t)
    <3>1. /\ Clean(t) /\ ~susp[s].cancelled
          /\ UNCHANGED <<result, call>>
          /\ susp' = Unregister(Append(susp, Suspension(t)), s)
      BY <1>0, <1>2, <1>7, <2>2 DEF LegWatchdog, Clean
    <3>2. s \in Live
      BY <1>0, <1>1, <1>2, <3>1 DEF OrderInv, TypeInv, TaskInv, TasksInStep, LegInStep, Live
    <3>3. t \in LiveTasks /\ t \in LiveTasks'
      BY <1>1, <1>2, <3>1, <3>2, Refrozen DEF LiveTasks
    <3> QED
      BY <1>2, <1>5, <1>6, <3>1, <3>3 DEF Untouched
  <2> QED
    BY <2>1, <2>2
<1> QED
  BY <1>5, <1>7, Frame

(* The other suspensions of a call are those of its waiting slots.          *)
LEMMA SiblingSlots ==
    ASSUME OrderInv, NEW s \in Live, Clean(Proc(s)),
           NEW waiting, waiting = {Slot(susp[x].proc) : x \in Siblings(s)}
    PROVE  /\ Proc(s) \in LiveTasks
           /\ \A i \in Slots(Job(Proc(s))) :
                 i \in waiting <=> <<Job(Proc(s)), i>> \in LiveTasks /\ i # Slot(Proc(s))
           /\ Over(Job(Proc(s))) = Slots(Job(Proc(s))) \ (waiting \union {Slot(Proc(s))})
           /\ \A u \in Tasks : (\E x \in Siblings(s) : susp[x].proc = u) <=>
                                  u \in LiveTasks /\ Job(u) = Job(Proc(s)) /\ u # Proc(s)
<1>0. PICK t, j : t = Proc(s) /\ j = Job(t) /\ t \in Tasks /\ s \in Ids
  BY RegistryTypes DEF Live, OrderInv, TypeInv, TaskInv, Inv
<1>1. \A x \in Live : /\ Proc(x) \in Tasks
                      /\ x # s /\ Job(Proc(x)) = j => Proc(x) # t
  BY <1>0, RegistryTypes DEF Live, OrderInv, TypeInv, TaskInv, Inv, TasksInStep, OneLive
<1>2. \A x : x \in Siblings(s) <=> x \in Live /\ x # s /\ Job(Proc(x)) = j
  BY <1>0 DEF Siblings, Proc
<1>3. t \in LiveTasks
  BY <1>0 DEF LiveTasks
<1>4. ASSUME NEW u \in Tasks
      PROVE  (\E x \in Siblings(s) : Proc(x) = u) <=> u \in LiveTasks /\ Job(u) = j /\ u # t
  BY <1>0, <1>1, <1>2 DEF LiveTasks
<1>5. ASSUME NEW i \in Slots(j) PROVE i \in waiting <=> <<j, i>> \in LiveTasks /\ i # Slot(t)
  <2>1. <<j, i>> \in Tasks /\ Job(<<j, i>>) = j /\ Slot(<<j, i>>) = i /\ t = <<j, Slot(t)>>
    BY <1>0, TaskForm
  <2>2. i \in waiting <=> \E x \in Siblings(s) : i = Slot(Proc(x))
    BY DEF Proc
  <2>3. \A x \in Siblings(s) : i = Slot(Proc(x)) <=> Proc(x) = <<j, i>>
    BY <1>1, <1>2, <2>1, TaskForm
  <2>4. <<j, i>> # t <=> i # Slot(t)
    BY <2>1
  <2> QED
    BY <1>4, <2>1, <2>2, <2>3, <2>4
<1>6. Over(j) = Slots(j) \ (waiting \union {Slot(t)})
  <2>1. t = <<j, Slot(t)>>
    BY <1>0, TaskForm
  <2> QED
    BY <1>3, <1>5, <2>1 DEF Over
<1> QED
  BY <1>0, <1>3, <1>4, <1>5, <1>6 DEF Proc

(* A suspended chain waits at its last step.                                *)
LEMMA ChainEnds ==
    ASSUME OrderInv, Grows, NEW s \in Live, Clean(Proc(s)), Chained(Proc(s)),
           UNCHANGED <<cold, report>>, NEW j, j = Job(Proc(s)),
           NEW how \in {"ok", "failed", "killed"}, result' = [result EXCEPT ![Proc(s)] = how],
           NEW c, call' = [call EXCEPT ![j] = c],
           c \in IF how = "killed" THEN {"done"} ELSE {"running", "done"},
           \A u : u \in LiveTasks' => u \in LiveTasks
    PROVE  JobOk(j)'
<1>0. PICK t : t = Proc(s) /\ j = Job(t) /\ t \in Tasks /\ s \in Ids /\ j \in Jobs
  BY RegistryTypes, TaskJob DEF Live, OrderInv, TypeInv, TaskInv, Inv
<1>1. /\ ChainOk(j) /\ Kind[j] = "chain" /\ t \in LiveTasks /\ cold[t] = "settled"
  BY <1>0 DEF OrderInv, JobOk, Clean, Chained, LiveTasks, TypeInv, TaskInv, TasksInStep, LiveInStep
<1>2. call'[j] = c /\ \A u \in Tasks : result'[u] = IF u = t THEN how ELSE result[u]
  BY <1>0 DEF OrderInv, TypeInv, TaskInv, JobTypes
<1>3. \A u \in Tasks : u # t /\ Passed(u) => Passed(u)'
  BY <1>2, PassedStays
<1>4. ASSUME NEW v \in Tasks, NEW u \in Tasks, Job(v) = j, Job(u) = j, Slot(u) < Slot(v)
      PROVE  /\ cold'[v] # "none" => cold'[u] = "settled" /\ Passed(u)'
             /\ u \in LiveTasks' => cold'[v] = "none"
  <2>1. cold[v] # "none" => cold[u] = "settled" /\ Passed(u) /\ u \notin LiveTasks
    BY <1>1, <1>4 DEF ChainOk
  <2> QED
    BY <1>1, <1>3, <2>1
<1>5. ASSUME NEW v \in Tasks, Job(v) = j, cold'[v] = "settled", call'[j] = "running"
      PROVE  Passed(v)'
  <2>1. CASE v = t
    <3>1. how \in {"ok", "failed"} /\ result'[v] = how
      BY <1>2, <1>5, <2>1
    <3>2. s \in Ids' /\ Proc(s)' = v
      BY <1>0, <2>1 DEF Grows, Proc
    <3> QED
      BY <3>1, <3>2 DEF Passed
  <2>2. CASE v # t
    <3>1. Slot(v) < Slot(t) \/ Slot(t) < Slot(v)
      <4>1. /\ v = <<j, Slot(v)>> /\ t = <<j, Slot(t)>> /\ Width[j] \in Nat
            /\ Slot(v) \in 1 .. Width[j] /\ Slot(t) \in 1 .. Width[j]
        BY <1>0, <1>5, TaskForm
      <4>2. Slot(v) # Slot(t)
        BY <2>2, <4>1
      <4> QED
        BY <4>1, <4>2
    <3>2. ~(Slot(t) < Slot(v))
      BY <1>0, <1>1, <1>5 DEF ChainOk
    <3>3. Passed(v)
      BY <1>0, <1>1, <1>5, <3>1, <3>2 DEF ChainOk
    <3> QED
      BY <1>3, <2>2, <3>3
  <2> QED
    BY <2>1, <2>2
<1>6. ChainOk(j)'
  BY <1>1, <1>4, <1>5 DEF ChainOk
<1>7. call'[j] # "idle"
  BY <1>2
<1> QED
  BY <1>0, <1>1, <1>6, <1>7 DEF JobOk

LEMMA KillOrder ==
    ASSUME OrderInv, NEW s \in Ids, Kill(s)
    PROVE  \A j \in Jobs \ tainted' : JobOk(j)'
<1>0. PICK t, k, sibs, waiting :
          /\ t = Proc(s) /\ k = Job(t) /\ sibs = Siblings(s)
          /\ waiting = {Slot(susp[x].proc) : x \in sibs}
  OBVIOUS
<1>1. s \in Live /\ Known(s) /\ Types /\ t \in Tasks /\ k \in Jobs
  BY <1>0, RegistryTypes, TaskJob DEF Kill, OrderInv, TypeInv, TaskInv, Inv
<1>2. /\ result' = [result EXCEPT ![t] = "killed"]
      /\ completed' = IF Kind[k] = "parallel"
                      THEN [p \in Tasks |->
                               IF \E x \in sibs : susp[x].proc = p
                               THEN MergeKill(completed[p], Slot(t), Entry(t, "killed"), waiting, Width[k])
                               ELSE completed[p]]
                      ELSE completed
      /\ call' = [call EXCEPT ![k] = IF sibs = {} THEN "done" ELSE @]
      /\ UNCHANGED <<cold, report, leg, tainted>>
      /\ susp' = [susp EXCEPT ![s].cancelled = TRUE, ![s].live = FALSE]
  BY <1>0 DEF Kill, Proc
<1>3. /\ Ids' = Ids /\ Live' = Live \ {s}
      /\ \A x \in Ids : susp'[x].proc = susp[x].proc
  <2>1. s \in DOMAIN susp /\ susp[s] \in Suspensions
    BY <1>1, RegistryTypes DEF Ids
  <2>2. susp' = [susp EXCEPT ![s] = [susp[s] EXCEPT !.cancelled = TRUE, !.live = FALSE]]
    BY <1>1, <1>2, <2>1 DEF Types
  <2>3. Ids' = Ids /\ \A x \in Ids : x # s => susp'[x] = susp[x]
    BY <1>1, <2>2 DEF Ids, Types
  <2>4. susp'[s].proc = susp[s].proc /\ susp'[s].live = FALSE
    BY <1>1, <2>1, <2>2 DEF Suspensions, Types
  <2>5. Live' = Live \ {s}
    BY <2>3, <2>4 DEF Live
  <2> QED
    BY <2>3, <2>4, <2>5
<1>4. /\ Grows
      /\ \A u : u # t => (u \in LiveTasks' <=> u \in LiveTasks)
      /\ Clean(t) => t \in LiveTasks /\ t \notin LiveTasks'
  BY <1>0, <1>1, <1>2, <1>3, LiveDropped
<1>5. LegTasks' = LegTasks
  BY <1>1, <1>2, <1>4, LegTasksKept DEF Legs
<1>6. \A u \in Tasks : result'[u] = IF u = t THEN "killed" ELSE result[u]
  BY <1>2 DEF OrderInv, TypeInv, TaskInv, JobTypes
<1>7. ASSUME NEW j \in Jobs \ tainted', j # k PROVE JobOk(j)'
  <2>1. call'[j] = call[j] /\ \A u \in Tasks : Job(u) = j => u # t /\ result'[u] = result[u]
    BY <1>0, <1>2, <1>6, <1>7 DEF OrderInv, TypeInv, TaskInv, JobTypes
  <2>2. \A u \in Tasks : Job(u) = j => completed'[u] = completed[u]
    BY <1>0, <1>2, <1>7 DEF Siblings, Proc
  <2>3. Untouched(j)
    BY <1>2, <1>4, <1>5, <2>1, <2>2 DEF Untouched
  <2> QED
    BY <1>4, <1>7, <2>3, Frame
<1>8. ASSUME k \notin tainted', Kind[k] = "chain" PROVE JobOk(k)'
  <2>1. Clean(t) /\ Chained(t)
    BY <1>0, <1>2, <1>8 DEF Clean, Chained
  <2>2. sibs = {}
    BY <1>0, <1>1, <2>1 DEF OrderInv, TypeInv, TaskInv, TasksInStep, OneLive, Siblings, Proc
  <2>3. call' = [call EXCEPT ![k] = "done"]
    BY <1>2, <2>2
  <2>4. /\ Clean(Proc(s)) /\ Chained(Proc(s)) /\ UNCHANGED <<cold, report>> /\ k = Job(Proc(s))
        /\ result' = [result EXCEPT ![Proc(s)] = "killed"]
    BY <1>0, <1>2, <2>1
  <2>5. \A u : u \in LiveTasks' => u \in LiveTasks
    BY <1>4, <2>1
  <2> QED
    BY <1>1, <1>4, <2>3, <2>4, <2>5, ChainEnds
<1>9. ASSUME k \notin tainted', Kind[k] # "chain" PROVE JobOk(k)'
  <2>0. PICK n : n = Width[k] /\ n \in Nat /\ Slots(k) = 1 .. n /\ Slot(t) \in 1 .. n
    BY <1>0, <1>1, TaskForm DEF Slots
  <2>1. /\ Clean(t) /\ Kind[k] = "parallel" /\ JobOk(k) /\ SlotsOk(k)
        /\ cold[t] = "settled" /\ t = <<k, Slot(t)>>
        /\ call[k] \in {"idle", "running", "parked", "done"}
    BY <1>0, <1>1, <1>2, <1>9, SubagentAssumption, TaskForm
       DEF OrderInv, JobOk, Clean, TypeInv, TaskInv, JobTypes, TasksInStep, LiveInStep
  <2>2. /\ t \in LiveTasks
        /\ \A i \in Slots(k) : i \in waiting <=> <<k, i>> \in LiveTasks /\ i # Slot(t)
        /\ Over(k) = Slots(k) \ (waiting \union {Slot(t)})
        /\ \A u \in Tasks : (\E x \in sibs : susp[x].proc = u) <=>
                               u \in LiveTasks /\ Job(u) = k /\ u # t
    <3>1. s \in Live /\ Clean(Proc(s)) /\ waiting = {Slot(susp[x].proc) : x \in Siblings(s)}
      BY <1>0, <1>1, <2>1
    <3>2. /\ Proc(s) \in LiveTasks
          /\ \A i \in Slots(Job(Proc(s))) :
                i \in waiting <=> <<Job(Proc(s)), i>> \in LiveTasks /\ i # Slot(Proc(s))
          /\ Over(Job(Proc(s))) = Slots(Job(Proc(s))) \ (waiting \union {Slot(Proc(s))})
          /\ \A u \in Tasks : (\E x \in Siblings(s) : susp[x].proc = u) <=>
                                 u \in LiveTasks /\ Job(u) = Job(Proc(s)) /\ u # Proc(s)
      BY <3>1, SiblingSlots
    <3> QED
      BY <1>0, <3>2
  <2>3. call[k] = "parked" /\ call'[k] = IF sibs = {} THEN "done" ELSE "parked"
    <3>1. call[k] = "parked"
      BY <1>0, <1>1, <2>1, <2>2 DEF SlotsOk, JobOk, Known, Proc
    <3> QED
      BY <1>1, <1>2, <3>1 DEF OrderInv, TypeInv, TaskInv, JobTypes
  <2>4. \A i \in Slots(k) : <<k, i>> \in Tasks /\ Job(<<k, i>>) = k /\ (<<k, i>> = t <=> i = Slot(t))
    BY <1>1, <2>1, TaskForm
  <2>5. Over(k)' = ((1 .. n) \ waiting) \union {Slot(t)}
    BY <1>4, <2>0, <2>1, <2>2, <2>4 DEF Over
  <2>6. ASSUME NEW u \in Tasks, Job(u) = k, u \in LiveTasks'
        PROVE  Holds(completed'[u], k, Over(k)', result')
    <3>1. u # t /\ u \in LiveTasks
      BY <1>4, <2>1, <2>6
    <3>2. completed'[u] = MergeKill(completed[u], Slot(t), Entry(t, "killed"), waiting, n)
      BY <1>2, <2>0, <2>1, <2>2, <2>6, <3>1
    <3>3. Holds(completed[u], k, (1 .. n) \ (waiting \union {Slot(t)}), result)
      <4>1. Holds(completed[u], k, Over(k), result)
        BY <2>1, <2>3, <2>6, <3>1 DEF SlotsOk
      <4> QED
        BY <2>0, <2>2, <4>1
    <3>4. \A i \in (1 .. n) \ (waiting \union {Slot(t)}) : result'[<<k, i>>] = result[<<k, i>>]
      BY <1>6, <2>0, <2>4
    <3>5. Entry(t, "killed") = Entry(<<k, Slot(t)>>, result'[<<k, Slot(t)>>])
      BY <1>1, <1>6, <2>1
    <3>6. PICK after, old : after = result' /\ old = completed[u]
      OBVIOUS
    <3>7. Holds(MergeKill(old, Slot(t), Entry(t, "killed"), waiting, n), k,
                ((1 .. n) \ waiting) \union {Slot(t)}, after)
      BY <2>0, <3>3, <3>4, <3>5, <3>6, MergeKillHolds
    <3> QED
      BY <2>5, <3>2, <3>6, <3>7
  <2>7. Reported(k)'
    <3>1. Reported(k)
      BY <2>1 DEF SlotsOk
    <3> QED
      BY <1>2, <1>4, <1>6, <2>1, <2>2, <2>4, <3>1 DEF Reported
  <2>8. ASSUME NEW u \in Tasks, Job(u) = k
        PROVE  /\ cold'[u] = "settled"
               /\ result'[u] = "suspended" <=> u \in LiveTasks'
               /\ call'[k] = "done" => u \notin LiveTasks'
    <3>1. cold[u] = "settled" /\ (result[u] = "suspended" <=> u \in LiveTasks)
      BY <2>1, <2>3, <2>8 DEF SlotsOk
    <3>2. call'[k] = "done" => u = t \/ u \notin LiveTasks
      BY <2>2, <2>3, <2>8
    <3> QED
      BY <1>2, <1>4, <1>6, <2>1, <3>1, <3>2
  <2>9. SlotsOk(k)'
    BY <2>3, <2>6, <2>7, <2>8 DEF SlotsOk
  <2> QED
    BY <2>1, <2>3, <2>9 DEF JobOk
<1> QED
  BY <1>7, <1>8, <1>9

(* The answer merged at the end of a resumed task holds every slot: its own  *)
(* entry, the marker of each waiting slot, and the result of all the others. *)
AnswerOf(s, how, waiting) == Merged(Proc(s), how, waiting, completed[Proc(s)])
AnswerComplete(t, k, how, waiting, merged) ==
    /\ t \in LiveTasks /\ SlotsOk(k) /\ call[k] = "parked"
    /\ \A i \in Slots(k) : i \in waiting <=> <<k, i>> \in LiveTasks /\ i # Slot(t)
    /\ DOMAIN merged = Slots(k)
    /\ merged[Slot(t)] = Entry(t, how)
    /\ \A i \in Slots(k) : i # Slot(t) =>
          merged[i] = Entry(<<k, i>>, IF i \in waiting THEN "waiting" ELSE result[<<k, i>>])

LEMMA AnswerHolds ==
    ASSUME OrderInv, NEW s \in Live, Clean(Proc(s)), Kind[Job(Proc(s))] = "parallel",
           Proc(s) \in LegTasks, NEW how, NEW waiting,
           \A i : i \in waiting <=> \E x \in Siblings(s) : i = Slot(susp[x].proc)
    PROVE  /\ AnswerComplete(Proc(s), Job(Proc(s)), how, waiting, AnswerOf(s, how, waiting))
           /\ \A u \in Tasks : (\E x \in Siblings(s) : susp[x].proc = u) <=>
                                  u \in LiveTasks /\ Job(u) = Job(Proc(s)) /\ u # Proc(s)
<1>0. PICK t, k, n, old : t = Proc(s) /\ k = Job(t) /\ n = Width[k] /\ old = completed[t]
  OBVIOUS
<1>1. t \in Tasks /\ k \in Jobs /\ n \in Nat /\ Slots(k) = 1 .. n
  BY <1>0, RegistryTypes, TaskForm DEF Live, OrderInv, TypeInv, TaskInv, Inv, Slots
<1>2. /\ t \in LiveTasks
      /\ \A i \in Slots(k) : i \in waiting <=> <<k, i>> \in LiveTasks /\ i # Slot(t)
      /\ Over(k) = Slots(k) \ (waiting \union {Slot(t)})
      /\ \A u \in Tasks : (\E x \in Siblings(s) : susp[x].proc = u) <=>
                             u \in LiveTasks /\ Job(u) = k /\ u # t
  <2>1. /\ Proc(s) \in LiveTasks
        /\ \A i \in Slots(Job(Proc(s))) :
              i \in waiting <=> <<Job(Proc(s)), i>> \in LiveTasks /\ i # Slot(Proc(s))
        /\ Over(Job(Proc(s))) = Slots(Job(Proc(s))) \ (waiting \union {Slot(Proc(s))})
        /\ \A u \in Tasks : (\E x \in Siblings(s) : susp[x].proc = u) <=>
                               u \in LiveTasks /\ Job(u) = Job(Proc(s)) /\ u # Proc(s)
    <3>1. waiting = {Slot(susp[x].proc) : x \in Siblings(s)}
      OBVIOUS
    <3> QED
      BY <3>1, SiblingSlots
  <2> QED
    BY <1>0, <2>1
<1>3. SlotsOk(k)
  BY <1>0, <1>1 DEF OrderInv, JobOk, Clean
<1>4. call[k] = "parked"
  BY <1>0, <1>1, <1>2, <1>3 DEF SlotsOk
<1>5. PICK O, res : O = Over(k) /\ res = result
  OBVIOUS
<1>6. Holds(old, Job(t), O, res)
  BY <1>0, <1>1, <1>2, <1>3, <1>4, <1>5 DEF SlotsOk
<1>7. /\ O \in SUBSET Slots(Job(t))
      /\ \A i \in Slots(Job(t)) : i \in O <=> i \notin waiting /\ i # Slot(t)
  BY <1>0, <1>1, <1>2, <1>5
<1>8. /\ DOMAIN Merged(t, how, waiting, old) = Slots(Job(t))
      /\ Merged(t, how, waiting, old)[Slot(t)] = Entry(t, how)
      /\ \A i \in O : Merged(t, how, waiting, old)[i] = Entry(<<Job(t), i>>, res[<<Job(t), i>>])
      /\ \A i \in Slots(Job(t)) \cap waiting : i # Slot(t) =>
            Merged(t, how, waiting, old)[i] = Entry(<<Job(t), i>>, "waiting")
  BY <1>0, <1>1, <1>6, <1>7, MergedHolds
<1>9. PICK merged : merged = Merged(t, how, waiting, old)
  OBVIOUS
<1>10. ASSUME NEW i \in 1 .. n, i # Slot(t)
      PROVE  merged[i] = Entry(<<k, i>>, IF i \in waiting THEN "waiting" ELSE result[<<k, i>>])
  <2>1. CASE i \in waiting
    BY <1>0, <1>1, <1>5, <1>8, <1>9, <1>10, <2>1
  <2>2. CASE i \notin waiting
    BY <1>0, <1>1, <1>5, <1>7, <1>8, <1>9, <1>10, <2>2
  <2> QED
    BY <2>1, <2>2
<1> QED
  <2>1. merged = AnswerOf(s, how, waiting)
    BY <1>0, <1>9 DEF AnswerOf
  <2> QED
    BY <1>0, <1>1, <1>2, <1>3, <1>4, <1>5, <1>8, <1>9, <1>10, <2>1 DEF AnswerComplete

(* The end of a resumed task: the answer holds every slot, and each waiting *)
(* slot is given the results of all the others.                             *)
LEMMA ContinuesOrder ==
    ASSUME OrderInv, Grows, NEW s \in Live, NEW how \in {"ok", "failed"},
           ParallelContinues(s, how), NEW k, k = Job(Proc(s)), Kind[k] = "parallel",
           result' = [result EXCEPT ![Proc(s)] = how], UNCHANGED cold,
           Proc(s) \in LegTasks, LegTasks' = LegTasks, k \notin tainted',
           \A u : u # Proc(s) => (u \in LiveTasks' <=> u \in LiveTasks),
           Proc(s) \notin LiveTasks'
    PROVE  JobOk(k)'
<1>0. PICK t, n, active, waiting, merged, patched :
          /\ t = Proc(s) /\ n = Width[k]
          /\ active = {x \in Live : x # s /\ Kind[Job(susp[x].proc)] = "parallel"}
          /\ waiting = {Slot(susp[x].proc) : x \in active}
          /\ merged = Merged(t, how, waiting, completed[t])
          /\ patched = {susp[x].proc : x \in {y \in active : Slot(susp[y].proc) # Slot(t)}}
  OBVIOUS
<1>1. t \in Tasks /\ k \in Jobs /\ n \in Nat /\ Slots(k) = 1 .. n /\ Slot(t) \in Slots(k)
      /\ k = Job(t) /\ t = <<k, Slot(t)>> /\ s \in Ids
  BY <1>0, RegistryTypes, TaskForm DEF Live, OrderInv, TypeInv, TaskInv, Inv, Slots
<1>2. /\ report' = [report EXCEPT ![k] = merged]
      /\ completed' = [p \in Tasks |-> IF p \in patched THEN Patch(merged, waiting, Slot(p))
                                       ELSE completed[p]]
      /\ call' = [call EXCEPT ![k] = IF waiting = {} THEN "done" ELSE "parked"]
      /\ {Job(susp[x].proc) : x \in active} \ {k} # {} => k \in tainted'
  BY <1>0, <1>1 DEF ParallelContinues, Proc
<1>3. active = Siblings(s)
  <2>1. \A x \in active : Job(susp[x].proc) = k
    BY <1>2
  <2> QED
    BY <1>0, <1>1, <2>1 DEF Siblings, Proc
<1>4. /\ t \in LiveTasks /\ SlotsOk(k) /\ call[k] = "parked"
      /\ \A i \in Slots(k) : i \in waiting <=> <<k, i>> \in LiveTasks /\ i # Slot(t)
      /\ \A u \in Tasks : (\E x \in active : susp[x].proc = u) <=>
                             u \in LiveTasks /\ Job(u) = k /\ u # t
      /\ DOMAIN merged = 1 .. n
      /\ merged[Slot(t)] = Entry(t, how)
      /\ \A i \in 1 .. n : i # Slot(t) =>
            merged[i] = Entry(<<k, i>>, IF i \in waiting THEN "waiting" ELSE result[<<k, i>>])
  <2>1. \A i : i \in waiting <=> \E x \in Siblings(s) : i = Slot(susp[x].proc)
    BY <1>0, <1>3
  <2>2. Clean(Proc(s)) /\ Kind[Job(Proc(s))] = "parallel"
    BY <1>0, <1>1 DEF Clean, Grows
  <2>3. /\ AnswerComplete(Proc(s), Job(Proc(s)), how, waiting, AnswerOf(s, how, waiting))
        /\ \A u \in Tasks : (\E x \in Siblings(s) : susp[x].proc = u) <=>
                               u \in LiveTasks /\ Job(u) = Job(Proc(s)) /\ u # Proc(s)
    BY <2>1, <2>2, AnswerHolds
  <2>4. AnswerComplete(t, k, how, waiting, merged)
    BY <1>0, <2>3 DEF AnswerOf
  <2> QED
    BY <1>0, <1>1, <1>3, <2>3, <2>4 DEF AnswerComplete
<1>5. \A i \in Slots(k) : <<k, i>> \in Tasks /\ Job(<<k, i>>) = k /\ Slot(<<k, i>>) = i
                          /\ (<<k, i>> = t <=> i = Slot(t))
  BY <1>1, TaskForm
<1>6. \A i \in Slots(k) : i \in waiting <=> <<k, i>> \in LiveTasks'
  BY <1>0, <1>4, <1>5
<1>7. Over(k)' = (1 .. n) \ waiting
  BY <1>1, <1>6 DEF Over
<1>8. \A u \in Tasks : result'[u] = IF u = t THEN how ELSE result[u]
  BY <1>0 DEF OrderInv, TypeInv, TaskInv, JobTypes
<1>9. Slot(t) \notin waiting
  BY <1>1, <1>4
<1>10. \A i \in 1 .. n : merged[i] = Entry(<<k, i>>, IF i \in waiting THEN "waiting" ELSE result'[<<k, i>>])
  <2> SUFFICES ASSUME NEW i \in 1 .. n
               PROVE  merged[i] = Entry(<<k, i>>, IF i \in waiting THEN "waiting" ELSE result'[<<k, i>>])
    OBVIOUS
  <2>1. CASE i = Slot(t)
    <3>1. result'[<<k, i>>] = how /\ <<k, i>> = t
      BY <1>1, <1>5, <1>8, <2>1
    <3> QED
      BY <1>4, <1>9, <2>1, <3>1
  <2>2. CASE i # Slot(t)
    <3>1. result'[<<k, i>>] = result[<<k, i>>]
      BY <1>1, <1>5, <1>8, <2>2
    <3> QED
      BY <1>4, <2>2, <3>1
  <2> QED
    BY <2>1, <2>2
<1>11. ASSUME NEW u \in Tasks, Job(u) = k, u \in LiveTasks'
       PROVE  Holds(completed'[u], k, Over(k)', result')
  <2>1. u = <<k, Slot(u)>> /\ Slot(u) \in Slots(k) /\ u # t /\ u \in LiveTasks
    BY <1>0, <1>11, TaskForm
  <2>2. Slot(u) \in waiting /\ Slot(u) # Slot(t)
    BY <1>4, <2>1, <1>1
  <2>3. u \in patched
    <3>1. PICK x \in active : susp[x].proc = u
      BY <1>4, <1>11, <2>1
    <3> QED
      BY <1>0, <2>2, <3>1
  <2>4. completed'[u] = Patch(merged, waiting, Slot(u))
    BY <1>2, <2>3
  <2>5. PICK res : res = result'
    OBVIOUS
  <2>6. Holds(Patch(merged, waiting, Slot(u)), k, (1 .. n) \ waiting, res)
    <3>1. \A i \in (1 .. n) \ waiting : merged[i] = Entry(<<k, i>>, res[<<k, i>>])
      BY <1>10, <2>5
    <3>2. DOMAIN merged = 1 .. n /\ n \in Nat
      BY <1>1, <1>4
    <3> QED
      BY <2>2, <3>1, <3>2, PatchHolds
  <2> QED
    BY <1>7, <2>4, <2>5, <2>6
<1>12. Reported(k)'
  <2>1. report'[k] = merged
    BY <1>1, <1>2 DEF OrderInv, TypeInv, DataTypes
  <2> SUFFICES ASSUME NEW i \in 1 .. n
               PROVE  /\ merged[i].task = <<k, i>>
                      /\ \/ merged[i].how = "waiting" /\ <<k, i>> \in LiveTasks'
                         \/ merged[i].how = result'[<<k, i>>] /\ <<k, i>> \notin LiveTasks'
    BY <1>1, <1>4, <2>1 DEF Reported
  <2>2. merged[i] = Entry(<<k, i>>, IF i \in waiting THEN "waiting" ELSE result'[<<k, i>>])
    BY <1>10
  <2>3. i \in waiting <=> <<k, i>> \in LiveTasks'
    BY <1>1, <1>6
  <2> QED
    BY <2>2, <2>3 DEF Entry
<1>13. call'[k] = IF waiting = {} THEN "done" ELSE "parked"
  BY <1>1, <1>2 DEF OrderInv, TypeInv, TaskInv, JobTypes
<1>14. ASSUME NEW u \in Tasks, Job(u) = k
       PROVE  /\ cold'[u] = "settled"
              /\ result'[u] = "suspended" <=> u \in LiveTasks'
              /\ call'[k] = "done" => u \notin LiveTasks'
  <2>1. cold[u] = "settled" /\ (result[u] = "suspended" <=> u \in LiveTasks)
    BY <1>4, <1>4, <1>14 DEF SlotsOk
  <2>2. result'[u] = "suspended" <=> u \in LiveTasks'
    BY <1>0, <1>8, <2>1
  <2>3. u = <<k, Slot(u)>> /\ Slot(u) \in Slots(k)
    BY <1>14, TaskForm
  <2>4. call'[k] = "done" => u \notin LiveTasks'
    BY <1>6, <1>13, <2>3
  <2> QED
    BY <2>1, <2>2, <2>4
<1>15. SlotsOk(k)'
  BY <1>11, <1>12, <1>13, <1>14 DEF SlotsOk
<1> QED
  BY <1>4, <1>13, <1>15 DEF JobOk

LEMMA LegCloseOrder ==
    ASSUME OrderInv, NEW t \in Tasks, LegClose(t)
    PROVE  \A j \in Jobs \ tainted' : JobOk(j)'
<1>1. PICK r \in Listening(t), how \in {"ok", "failed"} :
          /\ leg' = [leg EXCEPT ![r].st = "settled"]
          /\ IF susp[leg[r].of].cancelled
             THEN UNCHANGED <<result, call, completed, report, susp, tainted>>
             ELSE /\ susp' = Unregister(susp, leg[r].of)
                  /\ result' = [result EXCEPT ![t] = how]
                  /\ IF Kind[Job(t)] = "parallel" THEN ParallelContinues(leg[r].of, how)
                     ELSE ChainContinues(t)
          /\ UNCHANGED cold
  BY DEF LegClose
<1>2. PICK s, k : s = leg[r].of /\ k = Job(t)
  OBVIOUS
<1>3. /\ r \in Legs /\ s \in Ids /\ Proc(s) = t /\ k \in Jobs /\ Types
      /\ leg[r].st = "listening" /\ LegTask(r) = t /\ t \in LegTasks
  BY <1>2, RegistryTypes, TaskJob DEF Listening, LegTasks, OrderInv, TypeInv, TaskInv, Inv
<1>4. Legs' = Legs /\ \A x \in Legs : leg'[x].of = leg[x].of
  BY <1>1, <1>3, LegEnds
<1>5. CASE susp[s].cancelled
  <2>1. UNCHANGED <<cold, result, call, completed, report, susp, tainted>>
    BY <1>1, <1>2, <1>5
  <2>2. Grows /\ LiveTasks' = LiveTasks
    BY <2>1 DEF Grows, LiveTasks, Live, Ids, Proc
  <2>3. LegTasks' = LegTasks
    BY <1>3, <1>4, <2>2, LegTasksKept
  <2>4. \A j \in Jobs \ tainted' : Untouched(j)
    BY <2>1, <2>2, <2>3 DEF Untouched
  <2> QED
    BY <2>2, <2>4, Frame
<1>6. CASE ~susp[s].cancelled
  <2>1. /\ susp' = Unregister(susp, s)
        /\ result' = [result EXCEPT ![t] = how]
        /\ IF Kind[k] = "parallel" THEN ParallelContinues(s, how) ELSE ChainContinues(t)
        /\ UNCHANGED cold
    BY <1>1, <1>2, <1>6
  <2>2. /\ Ids' = Ids /\ Live' = Live \ {s}
        /\ \A x \in Ids : susp'[x].proc = susp[x].proc
    BY <1>3, <2>1, Dropped
  <2>3. tainted \subseteq tainted'
    BY <2>1 DEF ChainContinues, ParallelContinues
  <2>4. /\ Grows
        /\ \A u : u # t => (u \in LiveTasks' <=> u \in LiveTasks)
        /\ s \in Live /\ Clean(t) => t \in LiveTasks /\ t \notin LiveTasks'
    BY <1>3, <2>2, <2>3, LiveDropped
  <2>5. LegTasks' = LegTasks
    BY <1>3, <1>4, <2>4, LegTasksKept
  <2>6. ASSUME NEW j \in Jobs \ tainted', j # k PROVE JobOk(j)'
    <3>1. \A u \in Tasks : Job(u) = j => u # t /\ result'[u] = result[u]
      BY <1>2, <2>1, <2>6 DEF OrderInv, TypeInv, TaskInv, JobTypes
    <3>2. CASE Kind[k] # "parallel"
      <4>1. UNCHANGED <<completed, report>> /\ call'[j] = call[j]
        BY <1>2, <2>1, <2>6, <3>2 DEF ChainContinues, OrderInv, TypeInv, TaskInv, JobTypes
      <4>2. Untouched(j)
        BY <2>1, <2>4, <2>5, <3>1, <4>1 DEF Untouched
      <4> QED
        BY <2>4, <2>6, <4>2, Frame
    <3>3. CASE Kind[k] = "parallel"
      <4>1. PICK active, waiting, merged, patched :
                /\ active = {x \in Live : x # s /\ Kind[Job(susp[x].proc)] = "parallel"}
                /\ waiting = {Slot(susp[x].proc) : x \in active}
                /\ merged = Merged(t, how, waiting, completed[t])
                /\ patched = {susp[x].proc : x \in {y \in active : Slot(susp[y].proc) # Slot(t)}}
        OBVIOUS
      <4>2. /\ report' = [report EXCEPT ![k] = merged]
            /\ completed' = [p \in Tasks |-> IF p \in patched THEN Patch(merged, waiting, Slot(p))
                                             ELSE completed[p]]
            /\ call' = [call EXCEPT ![k] = IF waiting = {} THEN "done" ELSE "parked"]
            /\ {Job(susp[x].proc) : x \in active} \ {k} \subseteq tainted'
        BY <1>2, <1>3, <2>1, <3>3, <4>1 DEF ParallelContinues, Proc
      <4>3. \A u \in Tasks : Job(u) = j => u \notin patched
        BY <2>6, <4>1, <4>2
      <4>4. report'[j] = report[j] /\ call'[j] = call[j]
        BY <2>6, <4>2 DEF OrderInv, TypeInv, DataTypes, TaskInv, JobTypes
      <4>5. \A u \in Tasks : Job(u) = j => completed'[u] = completed[u]
        BY <4>2, <4>3
      <4>6. Untouched(j)
        BY <2>1, <2>4, <2>5, <3>1, <4>4, <4>5 DEF Untouched
      <4> QED
        BY <2>4, <2>6, <4>6, Frame
    <3> QED
      BY <3>2, <3>3
  <2>7. ASSUME k \notin tainted' PROVE JobOk(k)'
    <3>1. Clean(t) /\ k = Job(Proc(s)) /\ Clean(Proc(s))
      BY <1>2, <1>3, <2>3, <2>7 DEF Clean
    <3>2. s \in Live
      BY <1>2, <1>3, <1>6, <3>1 DEF OrderInv, TypeInv, TaskInv, TasksInStep, LegInStep, Live
    <3>3. /\ \A u : u # Proc(s) => (u \in LiveTasks' <=> u \in LiveTasks)
          /\ Proc(s) \in LegTasks /\ Proc(s) \notin LiveTasks'
          /\ result' = [result EXCEPT ![Proc(s)] = how]
      BY <1>3, <2>1, <2>4, <3>1, <3>2
    <3>4. CASE Kind[k] = "parallel"
      <4>1. ParallelContinues(s, how) /\ UNCHANGED cold
        BY <2>1, <3>4
      <4> QED
        BY <2>4, <2>5, <2>7, <3>1, <3>2, <3>3, <3>4, <4>1, ContinuesOrder
    <3>5. CASE Kind[k] # "parallel"
      <4>1. Chained(Proc(s)) /\ Kind[k] = "chain"
        BY <1>3, <3>1, <3>5, SubagentAssumption DEF Chained
      <4>2. /\ call' = [call EXCEPT ![k] = IF Slot(t) < Width[k] THEN "running" ELSE "done"]
            /\ UNCHANGED <<cold, report>>
        BY <1>2, <2>1, <3>5 DEF ChainContinues
      <4>3. PICK c : c = IF Slot(t) < Width[k] THEN "running" ELSE "done"
        OBVIOUS
      <4>4. /\ call' = [call EXCEPT ![k] = c]
            /\ c \in IF how = "killed" THEN {"done"} ELSE {"running", "done"}
            /\ how \in {"ok", "failed", "killed"}
        BY <4>2, <4>3
      <4>5. \A u : u \in LiveTasks' => u \in LiveTasks
        BY <3>3
      <4> QED
        BY <2>4, <3>1, <3>2, <3>3, <4>1, <4>2, <4>4, <4>5, ChainEnds
    <3> QED
      BY <3>4, <3>5
  <2> QED
    BY <2>6, <2>7
<1> QED
  BY <1>5, <1>6

LEMMA OrderStep == OrderInv /\ [Next]_vars => OrderInv'
<1> SUFFICES ASSUME OrderInv, [Next]_vars PROVE \A j \in Jobs \ tainted' : JobOk(j)'
  BY TypeStep DEF OrderInv
<1>1. ASSUME NEW t \in Tasks,
             Exit(t) \/ Reap(t) \/ DiesFrozen(t) \/ KillFallback(t) \/ HolderEnds(t)
      PROVE  \A j \in Jobs \ tainted' : JobOk(j)'
  BY <1>1, QuietOrder DEF Exit, Reap, DiesFrozen, KillFallback, HolderEnds, jobVars
<1>2. CASE Abort \/ NextRun \/ ParentExits \/ UNCHANGED vars
  BY <1>2, QuietOrder DEF Abort, NextRun, ParentExits, vars, jobVars
<1>3. ASSUME NEW t \in Tasks, Close(t) PROVE \A j \in Jobs \ tainted' : JobOk(j)'
  BY <1>3, ColdCloseOrder, LegCloseOrder, QuietOrder DEF Close, jobVars
<1>4. ASSUME NEW s \in Ids, Resume(s) PROVE \A j \in Jobs \ tainted' : JobOk(j)'
  BY <1>4, ResumeThawsOrder, ResumeFailsOrder DEF Resume
<1> QED
  BY <1>1, <1>2, <1>3, <1>4, StartOrder, SpawnOrder, SpawnFailsOrder, ColdWatchdogOrder,
     LegWatchdogOrder, KillOrder
  DEF Next, Runs, Asked

(* The answer of a parallel call lists every slot at its own place, with a   *)
(* waiting marker only for what still waits or was killed meanwhile, and     *)
(* what each suspended slot keeps is one entry for every other finished one, *)
(* in their order, however suspensions, resumes and kills interleave         *)
(* (finalizeAndContinue, patchSiblings, handleKill); and a chain starts a    *)
(* step only after the one before it, a failed one included only when it had *)
(* been suspended and resumed (runChain, finalizeAndContinue).               *)
THEOREM NothingOutOfOrder == Spec => []ResultsInOrder
<1> QED
  BY OrderInit, OrderStep, OrderImplies, PTL DEF Spec
=============================================================================
