------------------------------ MODULE WorkDirs ------------------------------
(***************************************************************************)
(* The saved work directories: the file state.json and the WorkDirStore of *)
(* the bridge (packages/bridge/src/state.ts), the handlers of              *)
(* session-layer.ts for it, the start of the bridge (index.ts), and the    *)
(* pages that list, add, remove and browse directories (Sidebar.tsx,       *)
(* DirectoryBrowser.tsx, App.tsx, WsClient.ts).                            *)
(*                                                                         *)
(* The calls on the file system are steps of their own: the process may be *)
(* killed between any two, and each may fail.  A handler is synchronous,   *)
(* so the bridge takes no other request meanwhile.  The room keeps order   *)
(* and sends what the bridge says to every page; a request that finds no   *)
(* bridge is lost, and a lost connection loses what is on its way.  Timers *)
(* have no deadlines: a watchdog may fire at any time before the answer.   *)
(***************************************************************************)
EXTENDS Naturals, Sequences, Functions, SequencesExt

CONSTANTS
    Dirs,           \* directories of the machine the bridge runs on
    Pages,          \* pages of the browser, all with the token of the bridge
    Users,          \* the pages somebody uses; the others are only looked at
    ConfigDir,      \* work_dir of bridge.json, or None
    None,           \* stands for null and undefined
    Missing,        \* a file that does not exist
    Torn,           \* a file whose writing was cut short
    MaxAsks,        \* bound: what a user does: tabs, changes, directories seen
    MaxFaults       \* bound: connections and processes lost, directories gone

Change == {"add", "remove"}

Requests == [id : 0..MaxAsks, kind : {"list", "browse"} \union Change, dir : Dirs \union {None}]

ASSUME BoundAssumption == MaxAsks \in Nat /\ MaxFaults \in Nat

ASSUME NoneAssumption ==
    /\ ConfigDir \in Dirs \union {None}
    /\ Users \subseteq Pages
    /\ None \notin Dirs \union Change \union Nat \union Requests
    /\ Missing # Torn
    /\ Missing \notin Seq(Dirs)
    /\ Torn \notin Seq(Dirs)

VARIABLES
    good,       \* the directories that exist and can be read
    file,       \* state.json: Missing, Torn or the list it holds
    tmp,        \* state.json.tmp, likewise
    dirs,       \* WorkDirStore.workDirs
    bridge,     \* "down", "starting" or "up"
    step,       \* next call of saveStateFile: "none", "write", "close",
                \* "rename"; or "reply", when it has returned
    job,        \* the request whose list is being saved; None at the start
    inbox,      \* the requests of a page on their way to the bridge
    on,         \* the pages that are connected
    tabs,       \* the pages whose sidebar shows the work directories
    mirror,     \* _workDirs of a page
    wire,       \* the answers on their way to a page
    waits,      \* a page's additions and removals whose watchdog is armed
    browser,    \* a page's DirectoryBrowser: the directory it is in, whose
                \* entries it shows, the query it waits for; None if closed
    asks, faults,   \* what the bounds count
    acked,      \* history: the last answered change of a directory
    silenced,   \* history: changes ended by an error without an answer
    missed      \* history: pages that owe the others a question for the list

disk == <<good, file, tmp>>
process == <<dirs, bridge, step, job>>
page == <<on, tabs, mirror, waits, browser>>
counts == <<asks, faults>>
history == <<acked, silenced, missed>>
vars == <<disk, process, inbox, page, wire, counts, history>>

Request(id, kind, d) == [id |-> id, kind |-> kind, dir |-> d]
Answer(r, ok, data) == [id |-> r.id, kind |-> r.kind, ok |-> ok, data |-> data]

(* The bridge's answer reaches every page that is connected.               *)
Sends(a) ==
    wire' = [p \in Pages |-> IF on[p] THEN Append(wire[p], a) ELSE wire[p]]

(* A page asks; with no bridge in the room the frame goes nowhere.  A list  *)
(* that is lost that way is not asked for again when the bridge returns.    *)
Asks(p, r) ==
    IF on[p] /\ bridge = "up"
    THEN /\ inbox' = [inbox EXCEPT ![p] = Append(@, r)]
         /\ missed' = IF r.kind = "list" THEN missed \ {p} ELSE missed
    ELSE /\ UNCHANGED inbox
         /\ missed' = IF r.kind = "list" THEN missed \union {p} ELSE missed

AsksList(p) == Asks(p, Request(0, "list", None))

(* A page opens at the choice of a directory, which shows the tab; one that *)
(* opens at a directory is like one that leaves the tab at once.            *)
Init ==
    /\ good = Dirs
    /\ file \in {Missing, <<>>} \union {<<d>> : d \in Dirs}
    /\ tmp = Missing
    /\ dirs = <<>>
    /\ bridge = "down"
    /\ step = "none"
    /\ job = None
    /\ inbox = [p \in Pages |-> <<>>]
    /\ on = [p \in Pages |-> FALSE]
    /\ tabs = Pages
    /\ mirror = [p \in Pages |-> <<>>]
    /\ wire = [p \in Pages |-> <<>>]
    /\ waits = [p \in Pages |-> {}]
    /\ browser = [p \in Pages |-> None]
    /\ asks = 0
    /\ faults = 0
    /\ acked = [d \in Dirs |-> None]
    /\ silenced = {}
    /\ missed = {}
-----------------------------------------------------------------------------
(* Saving                                                                   *)

(* saveStateFile is called for a list.                                      *)
Saves(r, list) ==
    /\ dirs' = list
    /\ job' = r
    /\ step' = "write"

(* mkdirSync, and writeFileSync begins.                                     *)
Writes ==
    /\ step = "write"
    /\ tmp' = Torn
    /\ step' = "close"
    /\ UNCHANGED <<good, file, dirs, bridge, job, inbox, page, wire, counts, history>>

Closes ==
    /\ step = "close"
    /\ tmp' = dirs
    /\ step' = "rename"
    /\ UNCHANGED <<good, file, dirs, bridge, job, inbox, page, wire, counts, history>>

(* renameSync.  At the start of the bridge there is no one to answer: it    *)
(* goes on to connect.                                                      *)
Renames ==
    /\ step = "rename"
    /\ file' = tmp
    /\ tmp' = Missing
    /\ IF bridge = "starting"
       THEN bridge' = "up" /\ step' = "none" /\ UNCHANGED acked
       ELSE /\ step' = "reply"
            /\ acked' = [acked EXCEPT ![job.dir] = None]
            /\ UNCHANGED bridge
    /\ UNCHANGED <<good, dirs, job, inbox, page, wire, counts, silenced, missed>>

(* add or remove has returned: the answer of a change.                      *)
Replies ==
    /\ step = "reply"
    /\ Sends(Answer(job, TRUE, None))
    /\ acked' = [acked EXCEPT ![job.dir] = job.kind]
    /\ step' = "none"
    /\ job' = None
    /\ UNCHANGED <<disk, dirs, bridge, inbox, page, counts, silenced, missed>>

(* The process is gone, with its memory and what was on its way to it.      *)
Gone ==
    /\ bridge' = "down"
    /\ dirs' = <<>>
    /\ step' = "none"
    /\ job' = None
    /\ inbox' = [p \in Pages |-> <<>>]
    /\ missed' = missed \union
                    {p \in Pages : waits[p] # {} \/ \E r \in Range(inbox[p]) : r.kind = "list"}

(* A call on the file system fails.  saveStateFile removes the temporary    *)
(* file if it can; add and remove restore the list and rethrow, and the     *)
(* handlers answer only a StateError, which this is not: it reaches the     *)
(* uncaughtException handler, or ends the start, and the process exits.     *)
SaveFails ==
    /\ step \in {"write", "close", "rename"}
    /\ faults < MaxFaults
    /\ faults' = faults + 1
    /\ tmp' \in {Missing, tmp}
    /\ silenced' = IF bridge = "starting" THEN silenced ELSE silenced \union {job}
    /\ Gone
    /\ UNCHANGED <<good, file, page, wire, asks, acked>>

Crashes ==
    /\ bridge # "down"
    /\ faults < MaxFaults
    /\ faults' = faults + 1
    /\ Gone
    /\ UNCHANGED <<disk, page, wire, asks, acked, silenced>>

Valid(list) == Range(list) \subseteq good

(* loadBridgeConfig checks the work_dir of bridge.json at every start.      *)
ConfigValid == ConfigDir \in good \union {None}

\* Mutant: the directory of bridge.json is migrated whenever it is absent.
Migrates ==
    /\ Valid(file)
    /\ ConfigDir \notin Range(file) \union {None}
    /\ bridge' = "starting"
    /\ Saves(None, Append(file, ConfigDir))

StartsMigrating ==
    /\ bridge = "down"
    /\ ConfigValid
    /\ IF file = Missing
       THEN /\ bridge' = "starting"
            /\ Saves(None, IF ConfigDir = None THEN <<>> ELSE <<ConfigDir>>)
       ELSE \/ Migrates
            \/ /\ Valid(file)
               /\ ConfigDir \in Range(file) \union {None}
               /\ dirs' = file
               /\ bridge' = "up"
               /\ UNCHANGED <<step, job>>
    /\ UNCHANGED <<disk, inbox, page, wire, counts, history>>

(* start: the work_dir of bridge.json must be there (loadBridgeConfig);     *)
(* then state.json is loaded, and every directory in it must still be       *)
(* there; without the file it is made, from that work_dir.  A torn file     *)
(* would not parse, and the bridge would not start.                         *)
Starts ==
    /\ bridge = "down"
    /\ ConfigValid
    /\ file # Torn
    /\ IF file = Missing
       THEN /\ bridge' = "starting"
            /\ Saves(None, IF ConfigDir = None THEN <<>> ELSE <<ConfigDir>>)
       ELSE /\ Valid(file)
            /\ dirs' = file
            /\ bridge' = "up"
            /\ UNCHANGED <<step, job>>
    /\ UNCHANGED <<disk, inbox, page, wire, counts, history>>
-----------------------------------------------------------------------------
(* The handlers of the bridge.  The requests of a page keep their order;    *)
(* those of several pages meet in the room in any.                          *)

Takes(p, kind) ==
    /\ bridge = "up"
    /\ step = "none"
    /\ inbox[p] # <<>>
    /\ Head(inbox[p]).kind = kind
    /\ inbox' = [inbox EXCEPT ![p] = Tail(@)]

Answers(p, ok, data) == Sends(Answer(Head(inbox[p]), ok, data))

Acks(p) == acked' = [acked EXCEPT ![Head(inbox[p]).dir] = Head(inbox[p]).kind]

HandleWorkDirList(p) ==
    /\ Takes(p, "list")
    /\ Answers(p, TRUE, dirs)
    /\ UNCHANGED <<disk, process, page, counts, history>>

HandleListDirectories(p) ==
    /\ Takes(p, "browse")
    /\ Answers(p, Head(inbox[p]).dir \in good, Head(inbox[p]).dir)
    /\ UNCHANGED <<disk, process, page, counts, history>>

\* Mutant: a directory that is saved already is added once more.
AddsAgain(p) ==
    /\ Takes(p, "add")
    /\ IF Head(inbox[p]).dir \in good
       THEN /\ Saves(Head(inbox[p]), Append(dirs, Head(inbox[p]).dir))
            /\ UNCHANGED <<acked, wire>>
       ELSE /\ Answers(p, FALSE, None)
            /\ UNCHANGED <<dirs, job, step, acked>>
    /\ UNCHANGED <<disk, bridge, page, counts, silenced, missed>>

(* A directory that is saved already is not checked again.                  *)
HandleWorkDirAdd(p) ==
    /\ Takes(p, "add")
    /\ LET d == Head(inbox[p]).dir
       IN \/ /\ d \in Range(dirs)
             /\ Answers(p, TRUE, None)
             /\ Acks(p)
             /\ UNCHANGED <<dirs, job, step>>
          \/ /\ d \notin Range(dirs)
             /\ d \notin good
             /\ Answers(p, FALSE, None)
             /\ UNCHANGED <<dirs, job, step, acked>>
          \/ /\ d \notin Range(dirs)
             /\ d \in good
             /\ Saves(Head(inbox[p]), Append(dirs, d))
             /\ UNCHANGED <<acked, wire>>
    /\ UNCHANGED <<disk, bridge, page, counts, silenced, missed>>

HandleWorkDirRemove(p) ==
    /\ Takes(p, "remove")
    /\ LET d == Head(inbox[p]).dir
       IN IF d \in Range(dirs)
          THEN /\ \E i \in DOMAIN dirs :
                     dirs[i] = d /\ Saves(Head(inbox[p]), RemoveAt(dirs, i))
               /\ UNCHANGED <<acked, wire>>
          ELSE /\ Answers(p, TRUE, None)
               /\ Acks(p)
               /\ UNCHANGED <<dirs, job, step>>
    /\ UNCHANGED <<disk, bridge, page, counts, silenced, missed>>
-----------------------------------------------------------------------------
(* The pages                                                                *)

(* The effect of WorkDirsTab asks for the list when the tab is mounted in a *)
(* page that is connected, and when a page that has it mounted connects.    *)
Connects(p) ==
    /\ ~on[p]
    /\ on' = [on EXCEPT ![p] = TRUE]
    /\ \/ /\ p \in tabs /\ bridge = "up"
          /\ inbox' = [inbox EXCEPT ![p] = Append(@, Request(0, "list", None))]
          /\ missed' = missed \ {p}
       \/ /\ p \in tabs /\ bridge # "up"
          /\ missed' = missed \union {p}
          /\ UNCHANGED inbox
       \/ /\ p \notin tabs
          /\ UNCHANGED <<inbox, missed>>
    /\ UNCHANGED <<disk, process, tabs, mirror, waits, browser, wire, counts,
                   acked, silenced>>

(* The connection of the page is lost, with some of what it had sent and    *)
(* with the answers to its changes.                                         *)
Breaks(p) ==
    /\ on[p]
    /\ faults < MaxFaults
    /\ faults' = faults + 1
    /\ on' = [on EXCEPT ![p] = FALSE]
    /\ wire' = [wire EXCEPT ![p] = <<>>]
    /\ \E k \in 0..Len(inbox[p]) :
          /\ inbox' = [inbox EXCEPT ![p] = SubSeq(@, 1, k)]
          /\ missed' = IF \/ waits[p] # {}
                          \/ \E i \in k + 1 .. Len(inbox[p]) : inbox[p][i].kind = "list"
                       THEN missed \union {p} ELSE missed
    /\ UNCHANGED <<disk, process, tabs, mirror, waits, browser, asks, acked, silenced>>

Counts == asks < MaxAsks /\ asks' = asks + 1

(* The user turns to the work directories, by the tab or by the address.    *)
OpensTab(p) ==
    /\ Counts
    /\ p \notin tabs
    /\ tabs' = tabs \union {p}
    /\ IF on[p] THEN AsksList(p) ELSE UNCHANGED <<inbox, missed>>
    /\ UNCHANGED <<disk, process, on, mirror, waits, browser, wire, faults, acked, silenced>>

(* The user turns to the sessions; requests on their way stay registered.   *)
LeavesTab(p) ==
    /\ Counts
    /\ p \in tabs
    /\ tabs' = tabs \ {p}
    /\ UNCHANGED <<disk, process, inbox, on, mirror, waits, browser, wire, faults, history>>

Changes(p, kind, d) ==
    /\ Counts
    /\ \A w \in waits[p] : <<w.kind, w.dir>> # <<kind, d>>
    /\ waits' = [waits EXCEPT ![p] = @ \union {Request(asks + 1, kind, d)}]
    /\ Asks(p, Request(asks + 1, kind, d))
    /\ UNCHANGED <<disk, process, on, tabs, mirror, wire, faults, acked, silenced>>

(* A click on the directory that is shown, in the browser.                  *)
HandleSelect(p, d) ==
    /\ browser[p] # None
    /\ browser[p].shows # None
    /\ Changes(p, "add", d)
    /\ UNCHANGED browser

HandleRemove(p, d) ==
    /\ p \in tabs
    /\ d \in Range(mirror[p])
    /\ Changes(p, "remove", d)
    /\ UNCHANGED browser

(* The browser, opened from the tab, goes to a directory: the effect        *)
(* forgets the query before, clears the entries and asks for the new ones.  *)
Navigates(p, d) ==
    /\ Counts
    /\ browser[p] = None => p \in tabs
    /\ browser' = [browser EXCEPT ![p] = [path |-> d, shows |-> None, query |-> asks + 1]]
    /\ Asks(p, Request(asks + 1, "browse", d))
    /\ UNCHANGED <<disk, process, on, tabs, mirror, waits, wire, faults, acked, silenced>>

(* The user closes the browser; an addition on its way stays registered.    *)
Cancels(p) ==
    /\ browser[p] # None
    /\ browser' = [browser EXCEPT ![p] = None]
    /\ UNCHANGED <<disk, process, inbox, on, tabs, mirror, waits, wire, counts, history>>

(* A watchdog fires: the answer, when it comes, is nobody's.                *)
ChangeTimesOut(p) ==
    /\ \E w \in waits[p] : waits' = [waits EXCEPT ![p] = @ \ {w}]
    /\ missed' = missed \union {p}
    /\ UNCHANGED <<disk, process, inbox, on, tabs, mirror, browser, wire, counts,
                   acked, silenced>>

BrowseTimesOut(p) ==
    /\ browser[p] # None
    /\ browser[p].query # None
    /\ browser' = [browser EXCEPT ![p].query = None]
    /\ UNCHANGED <<disk, process, inbox, on, tabs, mirror, waits, wire, counts, history>>

(* onAdded closes the browser, the one open now, and goes to the directory: *)
(* a change of view takes the sidebar to its sessions (the effect of        *)
(* Sidebar), a page that showed a directory already keeps its tab.          *)
Added(p, a) ==
    IF a.ok /\ a.kind = "add"
    THEN browser' = [browser EXCEPT ![p] = None] /\ tabs' \in {tabs, tabs \ {p}}
    ELSE UNCHANGED <<browser, tabs>>

\* Mutant: the answer of a change is not followed by a new list.
ResolvedQuietly(p, a) ==
    /\ \E w \in waits[p] : w.id = a.id /\ waits' = [waits EXCEPT ![p] = @ \ {w}]
    /\ Added(p, a)
    /\ UNCHANGED <<inbox, missed>>

(* The resolver of a change: the list is asked for anew, and onAdded goes   *)
(* where it goes.                                                           *)
Resolved(p, a) ==
    /\ \E w \in waits[p] : w.id = a.id /\ waits' = [waits EXCEPT ![p] = @ \ {w}]
    /\ Added(p, a)
    /\ IF a.ok THEN AsksList(p) ELSE UNCHANGED <<inbox, missed>>

\* Mutant: any answer to a query is shown.
ListedLate(p, a) ==
    browser' = IF browser[p] = None THEN browser
               ELSE [browser EXCEPT ![p].query = None,
                                    ![p].shows = IF a.ok THEN a.data ELSE @]

(* The resolver of the query the browser waits for, and only of it.         *)
Listed(p, a) ==
    browser' = IF browser[p] # None /\ browser[p].query = a.id
               THEN [browser EXCEPT ![p].query = None,
                                    ![p].shows = IF a.ok THEN a.data ELSE @]
               ELSE browser

(* An answer arrives.  A list is taken whoever asked for it.                *)
Receives(p) ==
    /\ on[p]
    /\ wire[p] # <<>>
    /\ wire' = [wire EXCEPT ![p] = Tail(@)]
    /\ LET a == Head(wire[p])
       IN \/ /\ a.kind = "list"
             /\ mirror' = [mirror EXCEPT ![p] = a.data]
             /\ UNCHANGED <<inbox, tabs, waits, browser, missed>>
          \/ /\ a.kind = "browse"
             /\ Listed(p, a)
             /\ UNCHANGED <<inbox, tabs, mirror, waits, missed>>
          \/ /\ a.kind \in Change
             /\ Resolved(p, a)
             /\ UNCHANGED mirror
          \/ /\ a.kind \in Change
             /\ \A w \in waits[p] : w.id # a.id
             /\ UNCHANGED <<inbox, tabs, mirror, waits, browser, missed>>
    /\ UNCHANGED <<disk, process, on, counts, acked, silenced>>

(* Directories disappear and return.                                        *)
Vanishes(d) ==
    /\ d \in good
    /\ faults < MaxFaults
    /\ faults' = faults + 1
    /\ good' = good \ {d}
    /\ UNCHANGED <<file, tmp, process, inbox, page, wire, asks, history>>

Returns(d) ==
    /\ d \notin good
    /\ good' = good \union {d}
    /\ UNCHANGED <<file, tmp, process, inbox, page, wire, counts, history>>
-----------------------------------------------------------------------------
Handles ==
    \E p \in Pages :
        \/ HandleWorkDirList(p) \/ HandleListDirectories(p)
        \/ HandleWorkDirAdd(p) \/ HandleWorkDirRemove(p)

Saving == Writes \/ Closes \/ Renames \/ Replies

Next ==
    \/ Saving \/ SaveFails \/ Crashes \/ Starts \/ Handles
    \/ \E p \in Pages :
          \/ Connects(p) \/ Breaks(p) \/ Receives(p)
          \/ ChangeTimesOut(p) \/ BrowseTimesOut(p)
    \/ \E p \in Users :
          \/ Cancels(p) \/ OpensTab(p) \/ LeavesTab(p)
          \/ \E d \in Dirs : HandleSelect(p, d) \/ HandleRemove(p, d) \/ Navigates(p, d)
    \/ \E d \in Dirs : Vanishes(d) \/ Returns(d)

(* The operator starts the bridge again, pages connect again and read what  *)
(* arrives, the bridge takes its requests.                                  *)
Spec ==
    /\ Init /\ [][Next]_vars
    /\ WF_vars(Starts) /\ WF_vars(Saving) /\ WF_vars(Handles)
    /\ \A p \in Pages : WF_vars(Connects(p)) /\ WF_vars(Receives(p))
-----------------------------------------------------------------------------
Lists == {s \in Seq(Dirs) : IsInjective(s)}

(* Types; no list holds a directory twice, a change being saved is one of   *)
(* the two the file is written for, and the bridge that is down has none.   *)
TypeOK ==
    /\ good \subseteq Dirs
    /\ file \in {Missing, Torn} \union Lists
    /\ tmp \in {Missing, Torn} \union Lists
    /\ dirs \in Lists
    /\ bridge \in {"down", "starting", "up"}
    /\ step \in {"none", "write", "close", "rename", "reply"}
    /\ (bridge = "starting") => (job = None /\ step # "none")
    /\ (bridge = "down") => (job = None /\ step = "none")
    /\ (bridge = "up") => ((step = "none") <=> (job = None))
    /\ job # None => job \in Requests /\ job.kind \in Change
    /\ inbox \in [Pages -> Seq(Requests)]
    /\ on \in [Pages -> BOOLEAN]
    /\ tabs \subseteq Pages
    /\ mirror \in [Pages -> Lists]
    /\ waits \in [Pages -> SUBSET Requests]
    /\ \A p \in Pages : browser[p] # None => browser[p].path \in Dirs

(* What a page was told is saved is saved for good: a directory whose       *)
(* addition was answered is in state.json and one whose removal was         *)
(* answered is not, whatever crashes and restarts follow, until the next    *)
(* change of it is written.  And however the bridge died, the file is a     *)
(* whole list, the one before or the one after a change, or not made yet.   *)
AckedDurable ==
    /\ file # Torn
    /\ step = "none" /\ bridge = "up" => file = dirs
    /\ \A d \in Dirs :
        /\ acked[d] = "add" => file # Missing /\ d \in Range(file)
        /\ acked[d] = "remove" => file = Missing \/ d \notin Range(file)

(* The entries in the browser are those of the directory it is in, whatever *)
(* order the answers to earlier queries come in.                            *)
EntriesOfPath ==
    \A p \in Pages : browser[p] # None => browser[p].shows \in {None, browser[p].path}

(* Every page that shows the work directories comes to show the list that   *)
(* is saved, the page's own changes and those of the others.  Only a page   *)
(* that made a change asks for the list on behalf of the others: excepted   *)
(* is a state in which one has lost that question, or the answer that would *)
(* make it ask (a watchdog that fired, a lost connection, a bridge that was *)
(* not there), and has not asked since, as it does when it opens the tab or *)
(* connects with the tab open.                                              *)
PagesCatchUp == <>[](missed # {} \/ \A p \in tabs : mirror[p] = file)

(* The same without the exception: the four occasions on which the code     *)
(* asks for the list are taken to suffice (App.tsx:126-131).                *)
ListsCatchUp == <>[](\A p \in tabs : mirror[p] = file)

(* A change that cannot be saved is answered, as control.md has it.         *)
FailuresAnswered == silenced = {}
=============================================================================
