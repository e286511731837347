------------------------------ MODULE Subagent ------------------------------
(***************************************************************************)
(* The subagent tool of the pi extension (.pi/extensions/subagent): tool   *)
(* calls that run one sub-pi, a chain of them or several in parallel; the  *)
(* idle watchdog that freezes a silent sub-pi with SIGSTOP and parks its   *)
(* job in a registry of suspensions; resume, kill and the reaper at exit.  *)
(*                                                                         *)
(* A task is a pair <<job, slot>>; a single run is a chain of length one.  *)
(* What a sub-pi writes, and the wording of what the tool answers, are     *)
(* abstracted to which task a result is of and how that task ended.        *)
(***************************************************************************)
EXTENDS Integers, FiniteSets, Sequences

CONSTANTS Jobs,             \* tool calls that run something
          Kind,             \* Kind[j]: "chain" (single: of length 1) or "parallel"
          Width,            \* Width[j]: number of steps or tasks
          Concurrency,      \* MAX_CONCURRENCY
          MaxStarts,        \* bound: calls started in a behaviour
          MaxSuspensions,   \* bound, by the job frozen: suspensions registered in a behaviour
          MaxMishaps,       \* bound: failures, aborts and second resumes in a behaviour
          MaxResumes        \* bound: resumes that thaw a process in a behaviour

ASSUME SubagentAssumption ==
    /\ Kind \in [Jobs -> {"chain", "parallel"}]
    /\ Width \in [Jobs -> Nat \ {0}]
    /\ Concurrency \in Nat \ {0}
    /\ MaxStarts \in Nat
    /\ MaxMishaps \in Nat
    /\ MaxSuspensions \in [Jobs -> Nat]
    /\ MaxResumes \in Nat

VARIABLES
    st,         \* the process of a task: what the kernel and Node know of it
    code,       \* how it ended
    term,       \* tasks whose abort handler has fired: SIGTERM sent, SIGKILL to follow
    held,       \* dead tasks whose stdout a grandchild in a session of its own holds
    cold,       \* the run that spawned the process: listening or settled
    result,     \* what the tool has recorded of the task
    call,       \* the job: idle, running, parked (suspended) or done
    completed,  \* completedResults of the task's job object
    susp,       \* every suspension made, in order of its id
    leg,        \* every resume that thawed a process
    report,     \* the last merged result of a parallel job, slot by slot
    aborted,    \* the signal of the agent run has been aborted
    mishaps,    \* bound counter: what has gone wrong so far
    gone,       \* the parent pi has exited
    tainted     \* history: parallel jobs hit by one of the cases below

procVars == <<st, code, term, held>>
jobVars  == <<cold, result, call, completed, report>>
vars == <<procVars, jobVars, susp, leg, aborted, mishaps, gone, tainted>>

Slots(j) == 1 .. Width[j]
Tasks == UNION {{j} \X Slots(j) : j \in Jobs}
Job(t) == t[1]
Slot(t) == t[2]

\* proc.exitCode !== null: set once Node has reaped a process that exited by itself.
HasExitCode(t) == st[t] \in {"reaped", "closed"} /\ code[t] # "signal"
\* process.kill(-pgid, sig) succeeds while the group has a member, a zombie included.
GroupExists(t) == st[t] \in {"running", "stopped", "dead"}
Freezes(t) == st' = [st EXCEPT ![t] = IF @ = "running" THEN "stopped" ELSE @]
\* SIGKILL reaches a frozen process too, and nothing that is dead already.
KillGroups(T) ==
    LET hit == {t \in T : st[t] \in {"running", "stopped"}}
    IN /\ st' = [t \in Tasks |-> IF t \in hit THEN "dead" ELSE st[t]]
       /\ code' = [t \in Tasks |-> IF t \in hit THEN "signal" ELSE code[t]]

Ids == DOMAIN susp
Live == {s \in Ids : susp[s].live}
Siblings(s) ==
    {x \in Live : x # s /\ Job(susp[x].proc) = Job(susp[s].proc)}
\* Ids of a parallel call are answered when the whole call returns.
Known(s) == LET j == Job(susp[s].proc) IN Kind[j] = "parallel" => call[j] # "running"
Suspension(t) == [proc |-> t, live |-> TRUE, cancelled |-> FALSE]
Unregister(f, s) == [f EXCEPT ![s].live = FALSE]

Legs == DOMAIN leg
LegTask(r) == susp[leg[r].of].proc
Listening(t) == {r \in Legs : LegTask(r) = t /\ leg[r].st = "listening"}
Attached(t) == cold[t] = "listening"
               \/ \E r \in Legs : LegTask(r) = t /\ leg[r].st \in {"listening", "deaf"}

-----------------------------------------------------------------------------
(* The results of a parallel job.  completedResults lists results without   *)
(* their slots: both walks below count the slots they skip.                 *)

Entry(t, how) == [task |-> t, how |-> how]
\* The place of i in the ascending order of S, and the slots of S in that order.
Rank(S, i) == Cardinality({k \in S : k <= i})
InOrder(S) == [k \in 1 .. Cardinality(S) |-> CHOOSE i \in S : Rank(S, i) = k]
\* Entries consumed by the walk up to slot i when the slots of skip consume none.
Cursor(i, skip) == Cardinality((1 .. i) \ skip)

Finished(j, res) ==
    LET done == InOrder({i \in Slots(j) : res[<<j, i>>] # "suspended"})
    IN [k \in 1 .. Len(done) |-> Entry(<<j, done[k]>>, res[<<j, done[k]>>])]

\* Mutant: the siblings of a killed task are not told.
MergeKillUntold(old, killed, entry, waiting, n) == old

MergeKill(old, killed, entry, waiting, n) ==
    LET skip == waiting \union {killed}
        kept == InOrder({i \in 1 .. n : \/ i = killed
                                        \/ i \notin skip /\ Cursor(i, skip) <= Len(old)})
    IN [k \in 1 .. Len(kept) |-> IF kept[k] = killed THEN entry ELSE old[Cursor(kept[k], skip)]]

Merged(t, how, waiting, old) ==
    [i \in Slots(Job(t)) |->
        CASE i = Slot(t) -> Entry(t, how)
          [] i # Slot(t) /\ i \in waiting -> Entry(<<Job(t), i>>, "waiting")
          [] OTHER -> LET k == Cursor(i, waiting \union {Slot(t)})
                      IN IF k <= Len(old) THEN old[k] ELSE Entry(<<Job(t), i>>, "missing")]

\* The entries of a merged result that the suspended slot i is given.
Patch(merged, waiting, i) ==
    LET kept == InOrder(DOMAIN merged \ (waiting \union {i}))
    IN [k \in 1 .. Len(kept) |-> merged[kept[k]]]

-----------------------------------------------------------------------------
TypeOK ==
    /\ st \in [Tasks -> {"none", "running", "stopped", "dead", "reaped", "closed"}]
    /\ code \in [Tasks -> {"none", "ok", "failed", "signal"}]
    /\ term \subseteq Tasks /\ held \subseteq Tasks
    /\ cold \in [Tasks -> {"none", "listening", "settled"}]
    /\ result \in [Tasks -> {"none", "ok", "failed", "killed", "suspended"}]
    /\ call \in [Jobs -> {"idle", "running", "parked", "done"}]
    /\ completed \in [Tasks -> Seq([task : Tasks,
                                    how : {"ok", "failed", "killed", "waiting", "missing"}])]
    /\ susp \in Seq([proc : Tasks, live : BOOLEAN, cancelled : BOOLEAN])
    /\ leg \in Seq([of : Nat, st : {"listening", "deaf", "settled"}])
    /\ \A r \in Legs : leg[r].of \in Ids
    /\ DOMAIN report = Jobs
    /\ mishaps \in 0 .. MaxMishaps
    /\ aborted \in BOOLEAN /\ gone \in BOOLEAN
    /\ tainted \subseteq Jobs

Init ==
    /\ st = [t \in Tasks |-> "none"]
    /\ code = [t \in Tasks |-> "none"]
    /\ term = {} /\ held = {}
    /\ cold = [t \in Tasks |-> "none"]
    /\ result = [t \in Tasks |-> "none"]
    /\ call = [j \in Jobs |-> "idle"]
    /\ completed = [t \in Tasks |-> <<>>]
    /\ susp = <<>> /\ leg = <<>>
    /\ report = [j \in Jobs |-> <<>>]
    /\ aborted = FALSE /\ mishaps = 0 /\ gone = FALSE
    /\ tainted = {}

-----------------------------------------------------------------------------
(* The run of a call.                                                       *)

\* mapWithConcurrencyLimit has settled every task: the suspensions of the call get
\* the results of all the others, and the call returns.
ParallelReturns(j, res, sus) ==
    LET waiting == {i \in Slots(j) : res[<<j, i>>] = "suspended"} IN
    /\ completed' = [t \in Tasks |->
                       IF /\ Job(t) = j /\ Slot(t) \in waiting
                          /\ \E s \in DOMAIN sus : sus[s].proc = t /\ sus[s].live
                       THEN Finished(j, res) ELSE completed[t]]
    /\ report' = [report EXCEPT ![j] =
                    [i \in Slots(j) |->
                       Entry(<<j, i>>, IF i \in waiting THEN "waiting" ELSE res[<<j, i>>])]]
    /\ call' = [call EXCEPT ![j] = IF waiting = {} THEN "done" ELSE "parked"]

\* A chain goes on after a step that did not fail.
ChainAfter(t, how) ==
    CASE how = "suspended" -> "parked"
      [] how = "ok" /\ Slot(t) < Width[Job(t)] -> "running"
      [] OTHER -> "done"

\* The promise of a step's run settles: the chain takes its next step.
StepSettles(t, how) ==
    /\ call' = [call EXCEPT ![Job(t)] = ChainAfter(t, how)]
    /\ UNCHANGED <<completed, report>>

\* The promise of a task's run settles: the last one ends the parallel call.
TaskSettles(t, how, sus) ==
    IF \A i \in Slots(Job(t)) \ {Slot(t)} : cold[<<Job(t), i>>] = "settled"
    THEN ParallelReturns(Job(t), [result EXCEPT ![t] = how], sus)
    ELSE UNCHANGED <<call, completed, report>>

ColdSettles(t, how, sus) ==
    /\ cold' = [cold EXCEPT ![t] = "settled"]
    /\ result' = [result EXCEPT ![t] = how]
    /\ IF Kind[Job(t)] = "chain" THEN StepSettles(t, how) ELSE TaskSettles(t, how, sus)

Mishap == mishaps < MaxMishaps /\ mishaps' = mishaps + 1

Start(j) ==
    /\ ~gone /\ ~aborted /\ call[j] = "idle"
    /\ Cardinality({k \in Jobs : call[k] # "idle"}) < MaxStarts
    /\ call' = [call EXCEPT ![j] = "running"]
    /\ UNCHANGED <<procVars, cold, result, completed, report, susp, leg, aborted, mishaps, gone, tainted>>

\* The next step of a chain, or the next task a free worker of a parallel call takes.
NextTask(t) ==
    LET j == Job(t)
        busy == {i \in Slots(j) : cold[<<j, i>>] = "listening"}
    IN /\ call[j] = "running" /\ cold[t] = "none"
       /\ \A i \in 1 .. Slot(t) - 1 : cold[<<j, i>>] # "none"
       /\ Cardinality(busy) < IF Kind[j] = "chain" THEN 1 ELSE Concurrency

\* A signal that is aborted already terminates the new process at once.
Spawn(t) ==
    /\ ~gone /\ NextTask(t)
    /\ st' = [st EXCEPT ![t] = "running"]
    /\ cold' = [cold EXCEPT ![t] = "listening"]
    /\ term' = IF aborted THEN term \union {t} ELSE term
    /\ UNCHANGED <<code, held, result, call, completed, report, susp, leg, aborted, mishaps, gone, tainted>>

\* No such agent, an unknown skill, an error event from spawn, or, in a chain, a prompt
\* file that cannot be written: that one rejects the whole call.
SpawnFails(t) ==
    /\ ~gone /\ NextTask(t) /\ Mishap
    /\ st' = [st EXCEPT ![t] = "closed"]
    /\ code' = [code EXCEPT ![t] = "failed"]
    /\ ColdSettles(t, "failed", susp)
    /\ UNCHANGED <<term, held, susp, leg, aborted, gone, tainted>>

\* The watchdog of the run: the silent process is frozen and its job parked, or,
\* when SIGSTOP finds no process, the run ends as aborted.
ColdWatchdog(t) ==
    /\ ~gone /\ cold[t] = "listening" /\ ~HasExitCode(t)
    /\ IF GroupExists(t)
       THEN /\ Len(susp) < MaxSuspensions[Job(t)]
            /\ Freezes(t)
            /\ susp' = Append(susp, Suspension(t))
            /\ ColdSettles(t, "suspended", Append(susp, Suspension(t)))
       ELSE ColdSettles(t, "failed", susp) /\ UNCHANGED <<st, susp>>
    /\ UNCHANGED <<code, term, held, leg, aborted, mishaps, gone, tainted>>

\* Mutant: the way the process ended is recorded as it is.
ColdCloseRaw(t) ==
    /\ cold[t] = "listening"
    /\ ColdSettles(t, code[t], susp)
    /\ UNCHANGED <<susp, leg, tainted>>

\* The abort handler of the run has fired: it has failed, however its process ended.
WasAborted(t) == t \in term

ColdClose(t) ==
    /\ cold[t] = "listening"
    /\ ColdSettles(t, IF code[t] = "ok" /\ ~WasAborted(t) THEN "ok" ELSE "failed", susp)
    /\ UNCHANGED <<susp, leg, tainted>>

-----------------------------------------------------------------------------
(* Resume.                                                                  *)

\* SIGCONT succeeds, on a process that is dead but not reaped too: a new leg takes it
\* over, and the listeners of any earlier leg are removed.  The suspension stays registered.
ResumeThaws(s) ==
    LET t == susp[s].proc IN
    /\ GroupExists(t)
    /\ Len(leg) < MaxResumes
    /\ st' = [st EXCEPT ![t] = IF @ = "stopped" THEN "running" ELSE @]
    /\ leg' = Append([r \in Legs |-> IF r \in Listening(t) THEN [leg[r] EXCEPT !.st = "deaf"]
                                     ELSE leg[r]],
                     [of |-> s, st |-> "listening"])
    /\ tainted' = IF Listening(t) = {} THEN tainted ELSE tainted \union {Job(t)}
    /\ UNCHANGED <<result, call, susp>>

\* SIGCONT fails: the suspension is dropped; its siblings are told nothing.
ResumeFails(s) ==
    LET t == susp[s].proc IN
    /\ st[t] \in {"reaped", "closed"}
    /\ susp' = Unregister(susp, s)
    /\ result' = [result EXCEPT ![t] = "failed"]
    /\ call' = [call EXCEPT ![Job(t)] = IF Siblings(s) = {} THEN "done" ELSE @]
    /\ tainted' = tainted \union {Job(t)}
    /\ UNCHANGED <<st, leg>>

Resume(s) ==
    /\ ~gone /\ ~aborted /\ s \in Live /\ Known(s)
    /\ ResumeThaws(s) \/ ResumeFails(s)
    /\ IF Listening(susp[s].proc) = {} THEN UNCHANGED mishaps ELSE Mishap
    /\ UNCHANGED <<code, term, held, cold, completed, report, aborted, gone>>

\* The watchdog of a resumed leg; a leg that is deaf keeps its timer.
LegWatchdog(r) ==
    LET s == leg[r].of
        t == LegTask(r)
    IN /\ ~gone /\ leg[r].st \in {"listening", "deaf"} /\ ~HasExitCode(t)
       /\ leg' = [leg EXCEPT ![r].st = "settled"]
       /\ IF GroupExists(t)
          THEN /\ Len(susp) < MaxSuspensions[Job(t)]
               /\ Freezes(t)
               /\ susp' = Unregister(Append(susp, Suspension(t)), s)
               /\ tainted' = IF susp[s].cancelled THEN tainted \union {Job(t)} ELSE tainted
               /\ UNCHANGED <<result, call>>
          ELSE /\ susp' = Unregister(susp, s)
               /\ result' = IF susp[s].cancelled THEN result ELSE [result EXCEPT ![t] = "failed"]
               /\ call' = [call EXCEPT ![Job(t)] = IF Siblings(s) = {} THEN "done" ELSE @]
               /\ tainted' = tainted \union {Job(t)}
               /\ UNCHANGED st
       /\ UNCHANGED <<code, term, held, cold, completed, report, aborted, mishaps, gone>>

\* finalizeAndContinue of a parallel job: the suspensions of every parallel job count
\* as waiting slots, and all of them are patched.
ParallelContinues(s, how) ==
    LET t == susp[s].proc
        j == Job(t)
        active == {x \in Live : x # s /\ Kind[Job(susp[x].proc)] = "parallel"}
        waiting == {Slot(susp[x].proc) : x \in active}
        merged == Merged(t, how, waiting, completed[t])
        patched == {susp[x].proc : x \in {y \in active : Slot(susp[y].proc) # Slot(t)}}
        strangers == {Job(susp[x].proc) : x \in active} \ {j}
    IN /\ report' = [report EXCEPT ![j] = merged]
       /\ completed' = [p \in Tasks |-> IF p \in patched THEN Patch(merged, waiting, Slot(p))
                                        ELSE completed[p]]
       /\ call' = [call EXCEPT ![j] = IF waiting = {} THEN "done" ELSE "parked"]
       /\ tainted' = IF strangers # {} THEN tainted \union strangers \union {j} ELSE tainted

\* A resumed step goes on with the rest of its chain, whatever its own result.
ChainContinues(t) ==
    /\ call' = [call EXCEPT ![Job(t)] = IF Slot(t) < Width[Job(t)] THEN "running" ELSE "done"]
    /\ UNCHANGED <<completed, report, tainted>>

\* Mutants: a leg ignores that it was killed; a killed leg drops the event.
LegCloseUncancelled(t) ==
    \E r \in Listening(t) :
        LET j == Job(t) IN
        /\ leg' = [leg EXCEPT ![r].st = "settled"]
        /\ susp' = Unregister(susp, leg[r].of)
        /\ result' = [result EXCEPT ![t] = IF code[t] = "ok" THEN "ok" ELSE "failed"]
        /\ IF Kind[j] = "parallel" THEN ParallelContinues(leg[r].of, result'[t])
           ELSE ChainContinues(t)
        /\ UNCHANGED cold
LegCloseDropped(t) ==
    /\ \E r \in Listening(t) : susp[leg[r].of].cancelled
    /\ UNCHANGED <<jobVars, susp, leg, tainted>>

\* The close event reaches the leg that listens: a killed one only answers, a chain
\* goes on with its next step whatever the step's result.
LegClose(t) ==
    \E r \in Listening(t) :
        LET s == leg[r].of
            how == IF code[t] = "ok" THEN "ok" ELSE "failed"
            j == Job(t)
        IN /\ leg' = [leg EXCEPT ![r].st = "settled"]
           /\ IF susp[s].cancelled
              THEN UNCHANGED <<result, call, completed, report, susp, tainted>>
              ELSE /\ susp' = Unregister(susp, s)
                   /\ result' = [result EXCEPT ![t] = how]
                   /\ IF Kind[j] = "parallel"
                      THEN ParallelContinues(s, how)
                      ELSE ChainContinues(t)
           /\ UNCHANGED cold

-----------------------------------------------------------------------------
(* Kill, abort and exit.                                                    *)

\* Mutant: a polite SIGTERM, which a stopped process does not receive.
KillPolitely(s) ==
    /\ ~gone /\ ~aborted /\ s \in Live /\ Known(s)
    /\ susp' = [susp EXCEPT ![s].cancelled = TRUE, ![s].live = FALSE]
    /\ result' = [result EXCEPT ![susp[s].proc] = "killed"]
    /\ UNCHANGED <<procVars, cold, call, completed, report, leg, aborted, mishaps, gone, tainted>>

\* The siblings of a killed parallel task are told, so that their slots stay in place.
Kill(s) ==
    LET t == susp[s].proc
        j == Job(t)
        sibs == Siblings(s)
        waiting == {Slot(susp[x].proc) : x \in sibs}
        entry == Entry(t, "killed")
    IN /\ ~gone /\ ~aborted /\ s \in Live /\ Known(s)
       /\ susp' = [susp EXCEPT ![s].cancelled = TRUE, ![s].live = FALSE]
       /\ KillGroups({t})
       /\ result' = [result EXCEPT ![t] = "killed"]
       /\ completed' = IF Kind[j] = "parallel"
                       THEN [p \in Tasks |->
                               IF \E x \in sibs : susp[x].proc = p
                               THEN MergeKill(completed[p], Slot(t), entry, waiting, Width[j])
                               ELSE completed[p]]
                       ELSE completed
       /\ call' = [call EXCEPT ![j] = IF sibs = {} THEN "done" ELSE @]
       /\ UNCHANGED <<term, held, cold, report, leg, aborted, mishaps, gone, tainted>>

Busy == (\E j \in Jobs : call[j] = "running") \/ (\E r \in Legs : leg[r].st # "settled")

\* The user aborts the run: SIGTERM to every process a live handler is attached to.  To
\* one that is dead or frozen it does nothing, but its handler has fired.
Abort ==
    /\ ~gone /\ ~aborted /\ Busy /\ Mishap
    /\ aborted' = TRUE
    /\ term' = term \union {t \in Tasks : Attached(t) /\ GroupExists(t)}
    /\ UNCHANGED <<st, code, held, jobVars, susp, leg, gone, tainted>>

\* The next run of the agent has a signal of its own.
NextRun ==
    /\ ~gone /\ aborted /\ ~Busy
    /\ aborted' = FALSE
    /\ UNCHANGED <<procVars, jobVars, susp, leg, mishaps, gone, tainted>>

\* Five seconds after SIGTERM.
KillFallback(t) ==
    /\ ~gone /\ t \in term /\ st[t] \in {"running", "stopped"}
    /\ KillGroups({t})
    /\ UNCHANGED <<term, held, jobVars, susp, leg, aborted, mishaps, gone, tainted>>

\* The parent pi ends by itself, from SIGINT or from SIGTERM: the reaper kills every
\* registered process.  No other signal that ends it runs the reaper.
ParentExits ==
    /\ ~gone /\ gone' = TRUE
    /\ KillGroups({susp[s].proc : s \in Live})
    /\ UNCHANGED <<term, held, jobVars, susp, leg, aborted, mishaps, tainted>>

-----------------------------------------------------------------------------
(* The processes and Node's view of them.                                   *)

\* A sub-pi ends by itself or from a signal; something it left behind may hold its stdout.
Exit(t) ==
    /\ ~gone /\ st[t] = "running"
    /\ st' = [st EXCEPT ![t] = "dead"]
    /\ \/ /\ code' = [code EXCEPT ![t] = "ok"]
          /\ UNCHANGED <<held, mishaps>>
       \/ /\ Mishap
          /\ \E c \in {"ok", "failed", "signal"} : code' = [code EXCEPT ![t] = c]
          /\ \E h \in {held, held \union {t}} : held' = h
    /\ UNCHANGED <<term, jobVars, susp, leg, aborted, gone, tainted>>

\* A frozen process can still be killed from outside.
DiesFrozen(t) ==
    /\ ~gone /\ st[t] = "stopped" /\ Mishap
    /\ st' = [st EXCEPT ![t] = "dead"]
    /\ code' = [code EXCEPT ![t] = "signal"]
    /\ UNCHANGED <<term, held, jobVars, susp, leg, aborted, gone, tainted>>

Reap(t) ==
    /\ ~gone /\ st[t] = "dead"
    /\ st' = [st EXCEPT ![t] = "reaped"]
    /\ UNCHANGED <<code, term, held, jobVars, susp, leg, aborted, mishaps, gone, tainted>>

HolderEnds(t) ==
    /\ ~gone /\ t \in held
    /\ held' = held \ {t}
    /\ UNCHANGED <<st, code, term, jobVars, susp, leg, aborted, mishaps, gone, tainted>>

\* Node emits close once the process is reaped and its pipes have ended: to the run that
\* spawned it, to the leg that took it over, or to nobody.
Close(t) ==
    /\ ~gone /\ st[t] = "reaped" /\ t \notin held
    /\ st' = [st EXCEPT ![t] = "closed"]
    /\ \/ ColdClose(t)
       \/ LegClose(t)
       \/ /\ cold[t] # "listening" /\ Listening(t) = {}
          /\ UNCHANGED <<jobVars, susp, leg, tainted>>
    /\ UNCHANGED <<code, term, held, aborted, mishaps, gone>>

\* What happens by itself: Node's event loop, its timers, and a sub-pi that either ends
\* or falls silent, so that the watchdog fires.
Runs ==
    \/ \E t \in Tasks : \/ Spawn(t) \/ SpawnFails(t) \/ ColdWatchdog(t)
                        \/ Exit(t) \/ Reap(t) \/ Close(t) \/ KillFallback(t)
    \/ \E r \in Legs : LegWatchdog(r)

\* What the model, the user and the rest of the machine do.
Asked ==
    \/ \E j \in Jobs : Start(j)
    \/ \E s \in Ids : Resume(s) \/ Kill(s)
    \/ \E t \in Tasks : DiesFrozen(t) \/ HolderEnds(t)
    \/ Abort \/ NextRun \/ ParentExits

Next == Runs \/ Asked

Spec == Init /\ [][Next]_vars /\ WF_vars(Runs)

-----------------------------------------------------------------------------
(* A process frozen by the watchdog can always be reached: a suspension in  *)
(* the registry holds it, so that it can be resumed, killed or reaped, and  *)
(* none stays frozen once the parent has ended by itself, from SIGINT or    *)
(* from SIGTERM                                                             *)
(* (freezeProcessGroup / registerSuspension / parentProcessCleanup).        *)
FrozenReachable ==
    \A t \in Tasks : st[t] = "stopped" => ~gone /\ \E s \in Live : susp[s].proc = t

(* However the tasks of a parallel call are resumed and killed, a merged    *)
(* answer holds in each slot the result of that slot's own task; the cases  *)
(* that break this are a suspension dropped without telling its siblings,   *)
(* a suspension of another parallel call, a freeze after a kill and a       *)
(* second resume of one suspension (finalizeAndContinue, handleKill).       *)
SlotsRight ==
    \A j \in Jobs \ tainted : \A i \in DOMAIN report[j] :
        /\ report[j][i].task = <<j, i>>
        /\ report[j][i].how \in {"waiting", result[<<j, i>>]}
        /\ call[j] = "done" /\ report[j][i].how = "waiting" => result[<<j, i>>] = "killed"

(* The unconditional form.                                                  *)
OwnSlots == \A j \in Jobs : \A i \in DOMAIN report[j] : report[j][i].task = <<j, i>>

(* What was killed stays killed: the close event of a killed process that   *)
(* was being resumed neither replaces its result nor starts a further step  *)
(* (N-R1, cancelled).                                                       *)
KillIsFinal ==
    [][\A t \in Tasks : result[t] = "killed" /\ Job(t) \notin tainted =>
          /\ result'[t] = "killed"
          /\ Kind[Job(t)] = "chain" => call'[Job(t)] = call[Job(t)]]_vars

(* A step of a chain starts only after the one before it, and after a       *)
(* failed one only if that had been suspended and resumed.                  *)
ChainOrder ==
    \A t \in Tasks : (/\ Job(t) \notin tainted /\ Kind[Job(t)] = "chain"
                      /\ Slot(t) > 1 /\ cold[t] # "none") =>
        LET before == <<Job(t), Slot(t) - 1>>
        IN \/ result[before] = "ok"
           \/ result[before] = "failed" /\ \E s \in Ids : susp[s].proc = before

(* Neither the results of a parallel call nor the steps of a chain get out  *)
(* of order through suspensions.                                            *)
ResultsInOrder == SlotsRight /\ ChainOrder

(* In the end every run and every resume that takes a process over has      *)
(* answered its caller, unless something the dead process left behind holds *)
(* its stdout, a second resume took its listeners away, or the parent has   *)
(* exited (the watchdogs, close, N-R1).                                     *)
Answered ==
    \/ gone
    \/ /\ \A t \in Tasks : cold[t] = "listening" => t \in held
       /\ \A r \in Legs : \/ leg[r].st = "settled" \/ LegTask(r) \in held
                          \/ Job(LegTask(r)) \in tainted
CallsSettle == <>[]Answered
=============================================================================
