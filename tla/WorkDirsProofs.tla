---------------------------- MODULE WorkDirsProofs ----------------------------
(***************************************************************************)
(* The saved work directories outlive every crash, for any directories,    *)
(* pages and bounds.                                                       *)
(*                                                                         *)
(* That an answered change is on disk rests on what a save that is under   *)
(* way may still do: the list in memory differs from the one on disk only  *)
(* in the directory of the request being saved, and that one is not among  *)
(* the answered changes once the file has been renamed.                    *)
(*                                                                         *)
(* That a browser shows its own directory rests on the numbers of queries: *)
(* no two of them are alike, so that what is on its way under the number a *)
(* browser waits for is about the directory it is in.                      *)
(***************************************************************************)
EXTENDS WorkDirs, TLAPS

(* What the list in memory and the one on disk have to do with each other   *)
(* at every step of a save.                                                 *)
SaveInStep ==
    /\ bridge = "starting" => file = Missing /\ step \in {"write", "close", "rename"}
    /\ bridge = "down" => step = "none"
    /\ bridge = "up" => file # Missing
    /\ bridge = "up" /\ step \in {"none", "reply"} => file = dirs
    /\ step = "rename" => tmp = dirs
    /\ bridge = "up" /\ step # "none" =>
        /\ job.kind \in Change
        /\ job.kind = "add" => job.dir \in Range(dirs)
        /\ job.kind = "remove" => job.dir \notin Range(dirs)
    /\ bridge = "up" /\ step \in {"write", "close", "rename"} =>
        \A d \in Dirs : d # job.dir => (d \in Range(dirs) <=> d \in Range(file))

Inv ==
    /\ good \subseteq Dirs
    /\ file \in {Missing} \union Lists
    /\ dirs \in Lists
    /\ bridge \in {"down", "starting", "up"}
    /\ step \in {"none", "write", "close", "rename", "reply"}
    /\ acked \in [Dirs -> Change \union {None}]
    /\ SaveInStep
    /\ file = Missing => \A d \in Dirs : acked[d] = None
    /\ AckedDurable

(* What saving and answering read and write.                                *)
saved == <<good, file, tmp, dirs, bridge, step, job, acked>>

LEMMA SavedKeeps == Inv /\ UNCHANGED saved => Inv'
  BY DEF Inv, saved, SaveInStep, AckedDurable, Range, Change

LEMMA ListIsNoMark ==
    \A s \in Lists : s # Missing /\ s # Torn
  BY NoneAssumption DEF Lists

(* push on the list.                                                        *)
LEMMA Appended ==
    ASSUME NEW s \in Lists, NEW d \in Dirs, d \notin Range(s)
    PROVE  /\ Append(s, d) \in Lists
           /\ Range(Append(s, d)) = Range(s) \union {d}
<1> DEFINE t == Append(s, d)
<1>1. s \in Seq(Dirs) /\ IsInjective(s)
  BY DEF Lists
<1>2. /\ t \in Seq(Dirs)
      /\ Len(t) = Len(s) + 1
      /\ \A k \in 1 .. Len(s) : t[k] = s[k]
      /\ t[Len(s) + 1] = d
  BY <1>1
<1>3. DOMAIN t = 1 .. (Len(s) + 1) /\ DOMAIN s = 1 .. Len(s) /\ Len(s) \in Nat
  BY <1>1, <1>2
<1> HIDE DEF t
<1>4. \A k \in 1 .. Len(s) : s[k] # d
  BY <1>3 DEF Range
<1>5. IsInjective(t)
  BY <1>1, <1>2, <1>3, <1>4 DEF IsInjective
<1>6. \A x : x \in Range(t) <=> x \in Range(s) \union {d}
  BY <1>2, <1>3 DEF Range
<1> QED
  BY <1>2, <1>5, <1>6 DEF t, Lists

LEMMA Joined ==
    ASSUME NEW a \in Seq(Dirs), NEW b \in Seq(Dirs)
    PROVE  /\ a \o b \in Seq(Dirs)
           /\ Len(a \o b) = Len(a) + Len(b)
           /\ \A k \in 1 .. Len(a) + Len(b) :
                 (a \o b)[k] = IF k <= Len(a) THEN a[k] ELSE b[k - Len(a)]
  OBVIOUS

(* splice on the list.                                                      *)
LEMMA Removed ==
    ASSUME NEW s \in Lists, NEW i \in DOMAIN s
    PROVE  /\ RemoveAt(s, i) \in Lists
           /\ Range(RemoveAt(s, i)) = Range(s) \ {s[i]}
<1> DEFINE t == RemoveAt(s, i)
<1> DEFINE a == SubSeq(s, 1, i - 1)
<1> DEFINE b == SubSeq(s, i + 1, Len(s))
<1>1. /\ s \in Seq(Dirs)
      /\ Len(s) \in Nat
      /\ DOMAIN s = 1 .. Len(s)
      /\ i \in 1 .. Len(s)
      /\ \A j, k \in 1 .. Len(s) : s[j] = s[k] => j = k
  BY DEF Lists, IsInjective
<1>2. /\ a \in Seq(Dirs)
      /\ Len(a) = i - 1
      /\ \A k \in 1 .. i - 1 : a[k] = s[k]
  BY <1>1
<1>3. /\ b \in Seq(Dirs)
      /\ Len(b) = Len(s) - i
      /\ \A k \in 1 .. Len(s) - i : b[k] = s[k + i]
  BY <1>1
<1>4. /\ t \in Seq(Dirs)
      /\ Len(t) = Len(s) - 1
      /\ DOMAIN t = 1 .. Len(s) - 1
      /\ \A k \in 1 .. Len(s) - 1 : t[k] = IF k < i THEN s[k] ELSE s[k + 1]
  <2>1. t = a \o b
    BY DEF RemoveAt
  <2> HIDE DEF a, b, t
  <2>2. /\ t \in Seq(Dirs)
        /\ Len(t) = Len(a) + Len(b)
        /\ \A k \in 1 .. Len(a) + Len(b) : t[k] = IF k <= Len(a) THEN a[k] ELSE b[k - Len(a)]
    BY <1>2, <1>3, <2>1, Joined
  <2>4. Len(t) = Len(s) - 1
    BY <1>1, <1>2, <1>3, <2>2
  <2>3. ASSUME NEW k \in 1 .. Len(s) - 1
        PROVE  t[k] = IF k < i THEN s[k] ELSE s[k + 1]
    <3>1. CASE k < i
      BY <1>1, <1>2, <2>2, <2>4, <3>1
    <3>2. CASE ~(k < i)
      <4>1. k - Len(a) \in 1 .. Len(s) - i
        BY <1>1, <1>2, <3>2
      <4>2. t[k] = b[k - Len(a)]
        BY <1>1, <1>2, <2>2, <2>4, <3>2
      <4>3. b[k - Len(a)] = s[k - Len(a) + i]
        BY <1>3, <4>1
      <4>4. k - Len(a) + i = k + 1
        BY <1>1, <1>2
      <4> QED
        BY <3>2, <4>2, <4>3, <4>4
    <3> QED
      BY <3>1, <3>2
  <2> QED
    <3>1. DOMAIN t = 1 .. Len(t)
      BY <2>2
    <3> QED
      BY <2>2, <2>3, <2>4, <3>1
<1> HIDE DEF t, a, b
<1>5. IsInjective(t)
  BY <1>1, <1>4 DEF IsInjective
<1>6. Range(t) \subseteq Range(s) \ {s[i]}
  <2> SUFFICES ASSUME NEW k \in 1 .. Len(s) - 1
               PROVE  t[k] \in Range(s) \ {s[i]}
    BY <1>4 DEF Range
  <2>1. PICK j \in 1 .. Len(s) : t[k] = s[j] /\ j # i
    BY <1>1, <1>4
  <2> QED
    BY <1>1, <2>1 DEF Range
<1>7. Range(s) \ {s[i]} \subseteq Range(t)
  <2> SUFFICES ASSUME NEW j \in 1 .. Len(s), j # i
               PROVE  s[j] \in Range(t)
    BY <1>1 DEF Range
  <2>1. PICK k \in 1 .. Len(s) - 1 : t[k] = s[j]
    <3>1. CASE j < i
      BY <1>1, <1>4, <3>1
    <3>2. CASE j > i
      <4>1. j - 1 \in 1 .. Len(s) - 1 /\ ~(j - 1 < i) /\ (j - 1) + 1 = j
        BY <1>1, <3>2
      <4> QED
        BY <1>4, <4>1
    <3> QED
      BY <1>1, <3>1, <3>2
  <2> QED
    BY <1>4, <2>1 DEF Range
<1> QED
  BY <1>4, <1>5, <1>6, <1>7 DEF t, Lists

LEMMA Starting == Init => Inv
<1> SUFFICES ASSUME Init PROVE Inv
  OBVIOUS
<1>1. <<>> \in Lists /\ \A d \in Dirs : <<d>> \in Lists
  BY DEF Lists, IsInjective
<1> QED
  BY <1>1, ListIsNoMark, NoneAssumption
     DEF Init, Inv, SaveInStep, AckedDurable, Range, Change

-----------------------------------------------------------------------------
(* Saving                                                                   *)

LEMMA WritesKeeps == Inv /\ Writes => Inv'
  BY DEF Inv, Writes, SaveInStep, AckedDurable, Range, Change, counts, history

LEMMA ClosesKeeps == Inv /\ Closes => Inv'
  BY DEF Inv, Closes, SaveInStep, AckedDurable, Range, Change, counts, history

LEMMA RenamesKeeps == Inv /\ Renames => Inv'
<1> SUFFICES ASSUME Inv, Renames PROVE Inv'
  OBVIOUS
<1>1. file' = dirs /\ dirs' = dirs /\ dirs \in Lists /\ file' # Missing /\ file' # Torn
  BY ListIsNoMark DEF Inv, Renames, SaveInStep
<1>2. CASE bridge = "starting"
  BY <1>1, <1>2, NoneAssumption DEF Inv, Renames, SaveInStep, AckedDurable, Change, counts
<1>3. CASE bridge = "up"
  <2>1. \A d \in Dirs : d # job.dir => (d \in Range(dirs) <=> d \in Range(file))
    BY <1>3 DEF Inv, Renames, SaveInStep
  <2>2. AckedDurable'
    BY <1>1, <1>3, <2>1, NoneAssumption DEF Inv, Renames, SaveInStep, AckedDurable, Change
  <2> QED
    BY <1>1, <1>3, <2>2, NoneAssumption DEF Inv, Renames, SaveInStep, Change, counts
<1> QED
  BY <1>2, <1>3 DEF Inv, Renames, SaveInStep

LEMMA RepliesKeeps == Inv /\ Replies => Inv'
<1> SUFFICES ASSUME Inv, Replies PROVE Inv'
  OBVIOUS
<1>1. bridge = "up" /\ file = dirs /\ step = "reply" /\ file # Missing /\ step' = "none"
  BY DEF Inv, Replies, SaveInStep
<1>2. AckedDurable'
  BY <1>1, NoneAssumption DEF Inv, Replies, SaveInStep, AckedDurable, Change, disk
<1> QED
  BY <1>1, <1>2 DEF Inv, Replies, SaveInStep, Change, disk

(* The process is gone: only the file counts.                               *)
LEMMA GoneKeeps == Inv /\ Gone /\ UNCHANGED <<good, file, acked>> => Inv'
<1> SUFFICES ASSUME Inv, Gone, UNCHANGED <<good, file, acked>> PROVE Inv'
  OBVIOUS
<1>1. dirs' \in Lists
  BY DEF Gone, Lists, IsInjective
<1> QED
  BY <1>1 DEF Inv, Gone, SaveInStep, AckedDurable

(* A save begins where file and list agree.                                 *)
LEMMA StartsKeeps == Inv /\ Starts => Inv'
<1> SUFFICES ASSUME Inv, Starts PROVE Inv'
  OBVIOUS
<1> USE DEF Inv, Starts, SaveInStep, AckedDurable, Saves, disk, history
<1>1. CASE file = Missing
  <2>1. <<>> \in Lists /\ \A d \in Dirs : <<d>> \in Lists
    BY DEF Lists, IsInjective
  <2>2. dirs' \in Lists
    BY <1>1, <2>1, NoneAssumption
  <2> QED
    BY <1>1, <2>2
<1>2. CASE file # Missing
  BY <1>2, ListIsNoMark
<1> QED
  BY <1>1, <1>2

-----------------------------------------------------------------------------
(* The handlers of the bridge                                               *)

LEMMA HandleWorkDirAddKeeps ==
    ASSUME NEW p \in Pages, Inv, HandleWorkDirAdd(p) PROVE Inv'
<1> DEFINE r == Head(inbox[p])
<1> USE DEF Inv, HandleWorkDirAdd, Takes, SaveInStep, AckedDurable, disk, counts
<1>1. file = dirs /\ file # Missing /\ bridge' = "up" /\ UNCHANGED file /\ r.kind = "add"
  OBVIOUS
<1>2. CASE r.dir \in Range(dirs) /\ Acks(p) /\ UNCHANGED <<dirs, job, step>>
  BY <1>1, <1>2 DEF Acks, Change
<1>3. CASE UNCHANGED <<dirs, job, step, acked>>
  BY <1>1, <1>3
<1>4. CASE /\ r.dir \notin Range(dirs)
           /\ r.dir \in good
           /\ Saves(r, Append(dirs, r.dir))
           /\ UNCHANGED acked
  <2>1. dirs' \in Lists /\ Range(dirs') = Range(dirs) \union {r.dir}
    BY <1>4, Appended DEF Saves
  <2> QED
    BY <1>1, <1>4, <2>1 DEF Saves, Change
<1> QED
  BY <1>2, <1>3, <1>4

LEMMA HandleWorkDirRemoveKeeps ==
    ASSUME NEW p \in Pages, Inv, HandleWorkDirRemove(p) PROVE Inv'
<1> DEFINE r == Head(inbox[p])
<1> USE DEF Inv, HandleWorkDirRemove, Takes, SaveInStep, AckedDurable, disk, counts
<1>1. file = dirs /\ file # Missing /\ bridge' = "up" /\ UNCHANGED file /\ r.kind = "remove"
  OBVIOUS
<1>2. CASE r.dir \in Range(dirs)
  <2>1. PICK i \in DOMAIN dirs : dirs[i] = r.dir /\ Saves(r, RemoveAt(dirs, i))
    BY <1>2
  <2>2. dirs' \in Lists /\ Range(dirs') = Range(dirs) \ {r.dir}
    BY <2>1, Removed DEF Saves
  <2> QED
    BY <1>1, <1>2, <2>1, <2>2 DEF Saves, Change
<1>3. CASE r.dir \notin Range(dirs)
  BY <1>1, <1>3 DEF Acks, Change
<1> QED
  BY <1>2, <1>3

-----------------------------------------------------------------------------
(* Directories come and go; whatever pages do leaves the list alone.        *)
LEMMA VanishesKeeps == Inv /\ (\E d \in Dirs : Vanishes(d) \/ Returns(d)) => Inv'
  BY DEF Inv, Vanishes, Returns, process, history, SaveInStep, AckedDurable

LEMMA StepKeeps == Inv /\ [Next]_vars => Inv'
<1> SUFFICES ASSUME Inv, [Next]_vars PROVE Inv'
  OBVIOUS
<1>1. CASE Saving
  BY <1>1, WritesKeeps, ClosesKeeps, RenamesKeeps, RepliesKeeps DEF Saving
<1>2. CASE SaveFails \/ Crashes
  BY <1>2, GoneKeeps DEF SaveFails, Crashes, disk
<1>3. CASE Starts
  BY <1>3, StartsKeeps
<1>4. CASE Handles
  <2> PICK p \in Pages : \/ HandleWorkDirList(p) \/ HandleListDirectories(p)
                         \/ HandleWorkDirAdd(p) \/ HandleWorkDirRemove(p)
    BY <1>4 DEF Handles
  <2>1. CASE HandleWorkDirList(p) \/ HandleListDirectories(p)
    <3>1. UNCHANGED saved
      BY <2>1 DEF HandleWorkDirList, HandleListDirectories, disk, process, history, saved
    <3> QED
      BY <3>1, SavedKeeps
  <2> QED
    BY <2>1, HandleWorkDirAddKeeps, HandleWorkDirRemoveKeeps
<1>5. CASE \E d \in Dirs : Vanishes(d) \/ Returns(d)
  BY <1>5, VanishesKeeps
<1>6. ASSUME NEW p \in Pages,
             \/ Connects(p) \/ Breaks(p) \/ Receives(p)
             \/ ChangeTimesOut(p) \/ BrowseTimesOut(p) \/ Cancels(p)
             \/ OpensTab(p) \/ LeavesTab(p)
             \/ \E d \in Dirs : HandleSelect(p, d) \/ HandleRemove(p, d) \/ Navigates(p, d)
      PROVE  Inv'
  <2>1. UNCHANGED saved
    BY <1>6 DEF Connects, Breaks, Receives, ChangeTimesOut, BrowseTimesOut, Cancels,
                OpensTab, LeavesTab,
                HandleSelect, HandleRemove, Navigates, Changes,
                disk, process, history, saved
  <2> QED
    BY <2>1, SavedKeeps
<1>7. CASE UNCHANGED vars
  BY <1>7, SavedKeeps DEF vars, disk, process, history, saved
<1> QED
  BY <1>1, <1>2, <1>3, <1>4, <1>5, <1>6, <1>7, NoneAssumption DEF Next

(* What every state of the saved directories satisfies.                     *)
THEOREM SavesInvariant == Spec => []Inv
<1> QED
  BY Starting, StepKeeps, PTL DEF Spec

(* The list on disk has every change that was answered, whatever crashes,   *)
(* failing saves and restarts come between (WorkDirStore and its handlers). *)
THEOREM AnswersAreDurable == Spec => []AckedDurable
<1>1. Inv => AckedDurable
  BY DEF Inv
<1> QED
  BY <1>1, SavesInvariant, PTL
-----------------------------------------------------------------------------
(* Types, and the entries a page shows.                                     *)

(* The answers of the bridge: a list goes with the answer to a list, and a  *)
(* directory with that to a query.                                          *)
Results ==
    {a \in [id : 0..MaxAsks, kind : {"list", "browse"} \union Change, ok : BOOLEAN,
            data : Lists \union Dirs \union {None}] :
        /\ a.kind = "list" => a.data \in Lists
        /\ a.kind = "browse" => a.data \in Dirs \union {None}}

Browsers ==
    {None} \union [path : Dirs, shows : Dirs \union {None}, query : Nat \union {None}]

Typed ==
    /\ tmp \in {Missing, Torn} \union Lists
    /\ bridge = "starting" => job = None /\ step # "none"
    /\ bridge = "down" => job = None /\ step = "none"
    /\ bridge = "up" => ((step = "none") <=> (job = None))
    /\ job # None => job \in Requests /\ job.kind \in Change
    /\ inbox \in [Pages -> Seq(Requests)]
    /\ on \in [Pages -> BOOLEAN]
    /\ tabs \subseteq Pages
    /\ mirror \in [Pages -> Lists]
    /\ wire \in [Pages -> Seq(Results)]
    /\ waits \in [Pages -> SUBSET Requests]
    /\ browser \in [Pages -> Browsers]
    /\ asks \in 0..MaxAsks

(* The queries on their way, and the answers to queries.                    *)
Asked == {r \in UNION {Range(inbox[q]) : q \in Pages} : r.kind = "browse"}
Told == {a \in UNION {Range(wire[q]) : q \in Pages} : a.kind = "browse"}

(* No two queries have the same number: whatever is on its way under the    *)
(* number a browser waits for is about the directory it is in.              *)
QueriesAnswered ==
    /\ \A r \in Asked : r.id <= asks
    /\ \A a \in Told : a.id <= asks
    /\ \A p \in Pages : browser[p] # None =>
        /\ browser[p].shows \in {None, browser[p].path}
        /\ browser[p].query # None => browser[p].query <= asks
        /\ \A r \in Asked : r.id = browser[p].query => r.dir = browser[p].path
        /\ \A a \in Told : a.id = browser[p].query => a.data = browser[p].path

LEMMA RangeOfAppend ==
    ASSUME NEW S, NEW s \in Seq(S), NEW x \in S
    PROVE  Append(s, x) \in Seq(S) /\ Range(Append(s, x)) = Range(s) \union {x}
<1>1. /\ DOMAIN Append(s, x) = 1 .. Len(s) + 1 /\ Len(s) \in Nat /\ DOMAIN s = 1 .. Len(s)
      /\ \A k \in 1 .. Len(s) : Append(s, x)[k] = s[k]
      /\ Append(s, x)[Len(s) + 1] = x
  OBVIOUS
<1> QED
  BY <1>1 DEF Range

LEMMA RangeOfTail ==
    ASSUME NEW S, NEW s \in Seq(S), s # <<>>
    PROVE  /\ Head(s) \in S /\ Head(s) \in Range(s)
           /\ Tail(s) \in Seq(S) /\ Range(Tail(s)) \subseteq Range(s)
<1>1. /\ Len(s) \in Nat \ {0} /\ DOMAIN s = 1 .. Len(s) /\ Head(s) = s[1]
      /\ Tail(s) \in Seq(S)
      /\ DOMAIN Tail(s) = 1 .. Len(s) - 1
      /\ \A k \in 1 .. Len(s) - 1 : Tail(s)[k] = s[k + 1]
  OBVIOUS
<1> QED
  BY <1>1 DEF Range

LEMMA RangeOfPrefix ==
    ASSUME NEW S, NEW s \in Seq(S), NEW k \in 0 .. Len(s)
    PROVE  SubSeq(s, 1, k) \in Seq(S) /\ Range(SubSeq(s, 1, k)) \subseteq Range(s)
<1>1. /\ Len(s) \in Nat /\ DOMAIN s = 1 .. Len(s)
      /\ SubSeq(s, 1, k) \in Seq(S)
      /\ DOMAIN SubSeq(s, 1, k) = 1 .. k
      /\ \A j \in 1 .. k : SubSeq(s, 1, k)[j] = s[j]
  OBVIOUS
<1> QED
  BY <1>1 DEF Range

LEMMA NothingOnItsWay ==
    ASSUME NEW S
    PROVE  <<>> \in Seq(S) /\ Range(<<>>) = {} /\ <<>> \in Lists
  BY DEF Range, Lists, IsInjective

(* A page asks.                                                             *)
LEMMA AsksAdds ==
    ASSUME Typed, NEW p \in Pages, NEW r \in Requests, Asks(p, r)
    PROVE  /\ inbox' \in [Pages -> Seq(Requests)]
           /\ \A q \in Pages : Range(inbox'[q]) \subseteq Range(inbox[q]) \union {r}
<1>1. Append(inbox[p], r) \in Seq(Requests) /\ Range(Append(inbox[p], r)) = Range(inbox[p]) \union {r}
  BY RangeOfAppend DEF Typed
<1> QED
  BY <1>1 DEF Asks, Typed

(* The bridge answers.                                                      *)
LEMMA SendsAdds ==
    ASSUME Typed, NEW a \in Results, Sends(a)
    PROVE  /\ wire' \in [Pages -> Seq(Results)]
           /\ \A q \in Pages : Range(wire'[q]) \subseteq Range(wire[q]) \union {a}
<1>1. \A q \in Pages : /\ Append(wire[q], a) \in Seq(Results)
                       /\ Range(Append(wire[q], a)) = Range(wire[q]) \union {a}
  BY RangeOfAppend DEF Typed
<1> QED
  BY <1>1 DEF Sends, Typed

(* The bridge takes the first request of a page.                            *)
LEMMA TakesFirst ==
    ASSUME Typed, NEW p \in Pages, NEW kind, Takes(p, kind)
    PROVE  /\ Head(inbox[p]) \in Requests /\ Head(inbox[p]).kind = kind
           /\ Head(inbox[p]) \in Range(inbox[p])
           /\ inbox' \in [Pages -> Seq(Requests)]
           /\ \A q \in Pages : Range(inbox'[q]) \subseteq Range(inbox[q])
<1>1. /\ inbox[p] \in Seq(Requests) /\ inbox[p] # <<>>
      /\ inbox' = [inbox EXCEPT ![p] = Tail(@)]
      /\ Head(inbox[p]).kind = kind
  BY DEF Takes, Typed
<1>2. /\ Head(inbox[p]) \in Requests /\ Head(inbox[p]) \in Range(inbox[p])
      /\ Tail(inbox[p]) \in Seq(Requests) /\ Range(Tail(inbox[p])) \subseteq Range(inbox[p])
  BY <1>1, RangeOfTail
<1> QED
  BY <1>1, <1>2 DEF Typed

(* What a step that sends no query does to the queries: those on their way  *)
(* are answered or lost, and the browsers forget theirs or show what it     *)
(* brought.                                                                 *)
LEMMA QueriesKeep ==
    ASSUME QueriesAnswered, Typed, asks <= asks', asks' \in Nat,
           \A q \in Pages : \A r \in Range(inbox'[q]) :
                r.kind = "browse" => r \in Asked,
           \A q \in Pages : \A a \in Range(wire'[q]) :
                a.kind = "browse" => \/ a \in Told
                                     \/ \E r \in Asked : a.id = r.id /\ a.data = r.dir,
           \A p \in Pages : browser'[p] # None =>
                /\ browser[p] # None
                /\ browser'[p].path = browser[p].path
                /\ browser'[p].query \in {None, browser[p].query}
                /\ browser'[p].shows \in {None, browser[p].path}
    PROVE  QueriesAnswered'
<1>1. Asked' \subseteq Asked
  BY DEF Asked
<1>2. \A a \in Told' : a \in Told \/ \E r \in Asked : a.id = r.id /\ a.data = r.dir
  BY DEF Told
<1>3. /\ \A r \in Asked : r \in Requests
      /\ \A a \in Told : a \in Results
  <2>1. \A q \in Pages : inbox[q] \in Seq(Requests) /\ wire[q] \in Seq(Results)
    BY DEF Typed
  <2>2. \A q \in Pages : Range(inbox[q]) \subseteq Requests /\ Range(wire[q]) \subseteq Results
    BY <2>1 DEF Range
  <2> QED
    BY <2>2 DEF Asked, Told
<1>4. /\ \A r \in Asked : r.id \in Nat /\ r.id <= asks /\ r.id # None
      /\ \A a \in Told : a.id \in Nat /\ a.id <= asks /\ a.id # None
      /\ asks \in Nat
  BY <1>3, BoundAssumption, NoneAssumption DEF QueriesAnswered, Requests, Results, Typed
<1>5. /\ \A r \in Asked' : r.id <= asks'
      /\ \A a \in Told' : a.id <= asks'
  BY <1>1, <1>2, <1>4
<1>6. ASSUME NEW p \in Pages, browser'[p] # None
      PROVE  /\ browser'[p].shows \in {None, browser'[p].path}
             /\ browser'[p].query # None => browser'[p].query <= asks'
             /\ \A r \in Asked' : r.id = browser'[p].query => r.dir = browser'[p].path
             /\ \A a \in Told' : a.id = browser'[p].query => a.data = browser'[p].path
  <2>1. /\ browser[p] # None /\ browser'[p].path = browser[p].path
        /\ browser'[p].query \in {None, browser[p].query}
        /\ browser'[p].shows \in {None, browser[p].path}
    BY <1>6
  <2>2. browser[p].query # None => browser[p].query \in Nat
    BY <2>1 DEF Typed, Browsers
  <2>3. browser'[p].query # None => browser'[p].query <= asks'
    BY <1>4, <2>1, <2>2 DEF QueriesAnswered
  <2>4. \A r \in Asked' : r.id = browser'[p].query => r.dir = browser'[p].path
    BY <1>1, <1>4, <2>1 DEF QueriesAnswered
  <2>5. \A a \in Told' : a.id = browser'[p].query => a.data = browser'[p].path
    BY <1>2, <1>4, <2>1 DEF QueriesAnswered
  <2> QED
    BY <2>1, <2>3, <2>4, <2>5
<1> QED
  BY <1>5, <1>6 DEF QueriesAnswered

LEMMA StartsTyped == Init => Typed /\ QueriesAnswered
<1> SUFFICES ASSUME Init PROVE Typed /\ QueriesAnswered
  OBVIOUS
<1>1. Typed
  BY NothingOnItsWay, BoundAssumption, NoneAssumption DEF Init, Typed, Browsers
<1>2. Asked = {} /\ Told = {}
  BY NothingOnItsWay DEF Init, Asked, Told
<1>3. \A p \in Pages : browser[p] = None
  BY DEF Init
<1> QED
  BY <1>1, <1>2, <1>3 DEF QueriesAnswered

(* The steps of saving and starting, the ends of the process, and the       *)
(* directories that come and go: no query is sent or answered.              *)
LEMMA SavingTyped ==
    ASSUME Inv, Typed, QueriesAnswered,
           \/ Saving \/ SaveFails \/ Crashes \/ Starts
           \/ \E d \in Dirs : Vanishes(d) \/ Returns(d)
    PROVE  Typed' /\ QueriesAnswered'
<1> USE DEF Typed
<1>1. CASE Writes
  BY <1>1 DEF Writes, Inv, SaveInStep, page, counts, QueriesAnswered, Asked, Told
<1>2. CASE Closes
  BY <1>2 DEF Closes, Inv, SaveInStep, page, counts, QueriesAnswered, Asked, Told
<1>3. CASE Renames
  BY <1>3 DEF Renames, Inv, SaveInStep, page, counts, QueriesAnswered, Asked, Told
<1>4. CASE Replies
  <2> DEFINE a == Answer(job, TRUE, None)
  <2>1. /\ bridge = "up" /\ job # None
        /\ job \in Requests /\ job.kind \in Change
        /\ Sends(a)
    BY <1>4 DEF Replies, Inv, SaveInStep
  <2>2. a \in Results /\ a.kind # "browse"
    BY <2>1 DEF Answer, Requests, Results, Change
  <2> HIDE DEF a
  <2>3. /\ wire' \in [Pages -> Seq(Results)]
        /\ \A q \in Pages : Range(wire'[q]) \subseteq Range(wire[q]) \union {a}
    BY <2>1, <2>2, SendsAdds
  <2>4. Typed'
    BY <1>4, <2>1, <2>3 DEF Replies, disk, page, counts
  <2>5. QueriesAnswered'
    <3>1. UNCHANGED <<inbox, browser, asks>> /\ asks \in Nat
      BY <1>4, BoundAssumption DEF Replies, page, counts
    <3>2. \A q \in Pages : \A b \in Range(wire'[q]) : b.kind = "browse" => b \in Told
      BY <2>2, <2>3 DEF Told
    <3>3. \A q \in Pages : \A r \in Range(inbox'[q]) : r.kind = "browse" => r \in Asked
      BY <3>1 DEF Asked
    <3> QED
      BY <3>1, <3>2, <3>3, QueriesKeep DEF QueriesAnswered
  <2> QED
    BY <2>4, <2>5
<1>5. CASE SaveFails \/ Crashes
  <2>1. Typed'
    BY <1>5, NothingOnItsWay DEF SaveFails, Crashes, Gone, disk, page
  <2>2. UNCHANGED <<wire, browser, asks>> /\ asks \in Nat
    BY <1>5, BoundAssumption DEF SaveFails, Crashes, page
  <2>3. \A q \in Pages : \A r \in Range(inbox'[q]) : r.kind = "browse" => r \in Asked
    BY <1>5, NothingOnItsWay DEF SaveFails, Crashes, Gone
  <2>4. \A q \in Pages : \A b \in Range(wire'[q]) : b.kind = "browse" => b \in Told
    BY <2>2 DEF Told
  <2> QED
    BY <2>1, <2>2, <2>3, <2>4, QueriesKeep DEF QueriesAnswered
<1>6. CASE Starts
  BY <1>6 DEF Starts, Saves, disk, page, counts, QueriesAnswered, Asked, Told
<1>7. CASE \E d \in Dirs : Vanishes(d) \/ Returns(d)
  <2>1. /\ UNCHANGED <<tmp, bridge, step, job, inbox, wire>>
        /\ UNCHANGED <<on, tabs, mirror, waits, browser, asks>>
    BY <1>7 DEF Vanishes, Returns, process, page, counts
  <2> QED
    BY <2>1 DEF QueriesAnswered, Asked, Told
<1> QED
  BY <1>1, <1>2, <1>3, <1>4, <1>5, <1>6, <1>7 DEF Saving

(* The handlers of the bridge: only that of a query answers one, with the   *)
(* directory it was asked about.                                            *)
LEMMA HandlesTyped ==
    ASSUME Inv, Typed, QueriesAnswered, NEW p \in Pages,
           \/ HandleWorkDirList(p) \/ HandleListDirectories(p)
           \/ HandleWorkDirAdd(p) \/ HandleWorkDirRemove(p)
    PROVE  Typed' /\ QueriesAnswered'
<1> PICK r : r = Head(inbox[p])
  OBVIOUS
<1>1. /\ r \in Requests /\ r \in Range(inbox[p]) /\ r # None
      /\ inbox' \in [Pages -> Seq(Requests)]
      /\ \A q \in Pages : Range(inbox'[q]) \subseteq Range(inbox[q])
      /\ bridge = "up" /\ step = "none" /\ dirs \in Lists
  <2>1. PICK kind : Takes(p, kind)
    BY DEF HandleWorkDirList, HandleListDirectories, HandleWorkDirAdd, HandleWorkDirRemove
  <2> QED
    BY <2>1, TakesFirst, NoneAssumption DEF Takes, Inv
<1>2. UNCHANGED <<tmp, bridge, on, tabs, mirror, waits, browser, asks>> /\ asks \in Nat
  <2>1. asks \in Nat
    BY BoundAssumption DEF Typed
  <2>2. UNCHANGED <<tmp, bridge>> /\ UNCHANGED page /\ UNCHANGED counts
    BY DEF HandleWorkDirList, HandleListDirectories, HandleWorkDirAdd, HandleWorkDirRemove,
           disk, process
  <2> QED
    BY <2>1, <2>2 DEF page, counts
<1>3. \/ UNCHANGED <<step, job>>
      \/ step' = "write" /\ job' = r /\ r.kind \in Change
  BY DEF HandleWorkDirList, HandleListDirectories, HandleWorkDirAdd, HandleWorkDirRemove,
         Saves, Takes, Change, process
<1>4. \/ UNCHANGED wire
      \/ \E a \in Results :
            /\ Sends(a)
            /\ a.kind = "browse" => r.kind = "browse" /\ a.id = r.id /\ a.data = r.dir
  <2>1. /\ r.kind = "list" => Answer(r, TRUE, dirs) \in Results
        /\ r.kind = "browse" => \A ok \in BOOLEAN : Answer(r, ok, r.dir) \in Results
        /\ r.kind \in Change => \A ok \in BOOLEAN : Answer(r, ok, None) \in Results
    BY <1>1 DEF Answer, Requests, Results, Change
  <2>2. \A ok, data : Answer(r, ok, data).kind = r.kind /\ Answer(r, ok, data).id = r.id
                      /\ Answer(r, ok, data).data = data
    BY DEF Answer
  <2>3. CASE HandleWorkDirList(p)
    BY <2>1, <2>2, <2>3 DEF HandleWorkDirList, Takes, Answers
  <2>4. CASE HandleListDirectories(p)
    <3> PICK ok : ok = (r.dir \in good)
      OBVIOUS
    <3>1. r.kind = "browse" /\ Sends(Answer(r, ok, r.dir))
      BY <2>4 DEF HandleListDirectories, Takes, Answers
    <3>2. ok \in BOOLEAN
      OBVIOUS
    <3>3. Answer(r, ok, r.dir) \in Results
      BY <2>1, <3>1, <3>2
    <3> QED
      BY <2>2, <3>1, <3>3
  <2>5. CASE HandleWorkDirAdd(p)
    <3>1. /\ r.kind \in Change /\ r.kind # "browse"
          /\ UNCHANGED wire \/ \E ok \in BOOLEAN : Sends(Answer(r, ok, None))
      BY <2>5 DEF HandleWorkDirAdd, Takes, Answers, Change
    <3> QED
      BY <2>1, <2>2, <3>1
  <2>6. CASE HandleWorkDirRemove(p)
    <3>1. /\ r.kind \in Change /\ r.kind # "browse"
          /\ UNCHANGED wire \/ \E ok \in BOOLEAN : Sends(Answer(r, ok, None))
      BY <2>6 DEF HandleWorkDirRemove, Takes, Answers, Change
    <3> QED
      BY <2>1, <2>2, <3>1
  <2> QED
    BY <2>3, <2>4, <2>5, <2>6
<1>5. /\ wire' \in [Pages -> Seq(Results)]
      /\ \A q \in Pages : \A a \in Range(wire'[q]) :
            a.kind = "browse" => \/ a \in Told
                                 \/ \E s \in Asked : a.id = s.id /\ a.data = s.dir
  <2>1. CASE UNCHANGED wire
    BY <2>1 DEF Typed, Told
  <2>2. ASSUME NEW b \in Results, Sends(b),
               b.kind = "browse" => r.kind = "browse" /\ b.id = r.id /\ b.data = r.dir
        PROVE  /\ wire' \in [Pages -> Seq(Results)]
               /\ \A q \in Pages : \A a \in Range(wire'[q]) :
                     a.kind = "browse" => \/ a \in Told
                                          \/ \E s \in Asked : a.id = s.id /\ a.data = s.dir
    <3>1. /\ wire' \in [Pages -> Seq(Results)]
          /\ \A q \in Pages : Range(wire'[q]) \subseteq Range(wire[q]) \union {b}
      BY <2>2, SendsAdds
    <3>2. b.kind = "browse" => \E s \in Asked : b.id = s.id /\ b.data = s.dir
      BY <1>1, <2>2 DEF Asked
    <3> QED
      BY <3>1, <3>2 DEF Told
  <2> QED
    BY <1>4, <2>1, <2>2
<1>6. Typed'
  BY <1>1, <1>2, <1>3, <1>5 DEF Typed
<1>7. \A q \in Pages : \A s \in Range(inbox'[q]) : s.kind = "browse" => s \in Asked
  BY <1>1 DEF Asked
<1>8. QueriesAnswered'
  BY <1>2, <1>5, <1>7, QueriesKeep DEF QueriesAnswered
<1> QED
  BY <1>6, <1>8

(* The connections of the pages, and their watchdogs.                       *)
LEMMA PageTyped ==
    ASSUME Inv, Typed, QueriesAnswered, NEW p \in Pages,
           \/ Connects(p) \/ Breaks(p) \/ Cancels(p)
           \/ ChangeTimesOut(p) \/ BrowseTimesOut(p)
    PROVE  Typed' /\ QueriesAnswered'
<1>1. asks' = asks /\ asks \in Nat /\ UNCHANGED <<tmp, bridge, step, job, mirror>>
  BY BoundAssumption DEF Connects, Breaks, Cancels, ChangeTimesOut, BrowseTimesOut, counts,
     disk, process, Typed
<1>2. /\ inbox' \in [Pages -> Seq(Requests)]
      /\ \A q \in Pages : \A r \in Range(inbox'[q]) : r.kind = "browse" => r \in Asked
  <2>1. CASE inbox' = [inbox EXCEPT ![p] = Append(@, Request(0, "list", None))]
    <3> DEFINE r == Request(0, "list", None)
    <3>1. r \in Requests /\ r.kind # "browse"
      BY BoundAssumption DEF Request, Requests
    <3>2. inbox' = [inbox EXCEPT ![p] = Append(@, r)]
      BY <2>1
    <3> HIDE DEF r
    <3>3. /\ Append(inbox[p], r) \in Seq(Requests)
          /\ Range(Append(inbox[p], r)) = Range(inbox[p]) \union {r}
      BY <3>1, RangeOfAppend DEF Typed
    <3> QED
      BY <3>1, <3>2, <3>3 DEF Typed, Asked
  <2>2. CASE Breaks(p)
    <3>1. PICK k \in 0 .. Len(inbox[p]) : inbox' = [inbox EXCEPT ![p] = SubSeq(@, 1, k)]
      BY <2>2 DEF Breaks
    <3>2. /\ SubSeq(inbox[p], 1, k) \in Seq(Requests)
          /\ Range(SubSeq(inbox[p], 1, k)) \subseteq Range(inbox[p])
      BY RangeOfPrefix DEF Typed
    <3> QED
      BY <3>1, <3>2 DEF Typed, Asked
  <2>3. CASE UNCHANGED inbox
    BY <2>3 DEF Typed, Asked
  <2> QED
    BY <2>1, <2>2, <2>3 DEF Connects, Cancels, ChangeTimesOut, BrowseTimesOut
<1>3. /\ wire' \in [Pages -> Seq(Results)]
      /\ \A q \in Pages : \A a \in Range(wire'[q]) : a.kind = "browse" => a \in Told
  <2>1. \A q \in Pages : wire'[q] \in {wire[q], <<>>}
    BY DEF Connects, Breaks, Cancels, ChangeTimesOut, BrowseTimesOut, Typed
  <2>2. wire' = wire \/ wire' = [wire EXCEPT ![p] = <<>>]
    BY DEF Connects, Breaks, Cancels, ChangeTimesOut, BrowseTimesOut
  <2>3. wire' \in [Pages -> Seq(Results)]
    BY <2>2, NothingOnItsWay DEF Typed
  <2> QED
    BY <2>1, <2>3, NothingOnItsWay DEF Told
<1>4. /\ browser' \in [Pages -> Browsers]
      /\ \A q \in Pages : browser'[q] # None =>
            /\ browser[q] # None
            /\ browser'[q].path = browser[q].path
            /\ browser'[q].query \in {None, browser[q].query}
            /\ browser'[q].shows = browser[q].shows
  <2>1. CASE Cancels(p)
    BY <2>1 DEF Cancels, Typed, Browsers
  <2>2. CASE BrowseTimesOut(p)
    <3>1. /\ browser[p] \in Browsers \ {None}
          /\ browser' = [browser EXCEPT ![p].query = None]
      BY <2>2 DEF BrowseTimesOut, Typed
    <3>2. /\ browser'[p] \in Browsers
          /\ browser'[p].path = browser[p].path
          /\ browser'[p].query = None
          /\ browser'[p].shows = browser[p].shows
      BY <3>1 DEF Typed, Browsers
    <3>3. browser' \in [Pages -> Browsers] /\ \A q \in Pages \ {p} : browser'[q] = browser[q]
      BY <3>1, <3>2 DEF Typed
    <3> QED
      BY <3>1, <3>2, <3>3
  <2>3. CASE UNCHANGED browser
    BY <2>3 DEF Typed
  <2> QED
    BY <2>1, <2>2, <2>3 DEF Connects, Breaks, ChangeTimesOut
<1>5. waits' \in [Pages -> SUBSET Requests] /\ on' \in [Pages -> BOOLEAN] /\ tabs' \subseteq Pages
  BY DEF Connects, Breaks, Cancels, ChangeTimesOut, BrowseTimesOut, Typed
<1>6. Typed'
  BY <1>1, <1>2, <1>3, <1>4, <1>5 DEF Typed
<1>7. \A q \in Pages : browser'[q] # None => browser'[q].shows \in {None, browser[q].path}
  BY <1>4 DEF QueriesAnswered
<1>8. QueriesAnswered'
  BY <1>1, <1>2, <1>3, <1>4, <1>7, QueriesKeep
<1> QED
  BY <1>6, <1>8

(* A user asks for a change: no query.                                      *)
LEMMA ChangesTyped ==
    ASSUME Inv, Typed, QueriesAnswered, NEW p \in Pages, NEW kind \in Change, NEW d \in Dirs,
           Changes(p, kind, d), UNCHANGED browser
    PROVE  Typed' /\ QueriesAnswered'
<1> PICK r : r = Request(asks + 1, kind, d)
  OBVIOUS
<1>1. /\ r \in Requests /\ r.kind # "browse"
      /\ asks \in Nat /\ asks' = asks + 1 /\ asks' \in 0 .. MaxAsks
  BY BoundAssumption DEF Changes, Counts, Request, Requests, Typed, Change
<1>2. /\ Asks(p, r)
      /\ waits' = [waits EXCEPT ![p] = @ \union {r}]
      /\ UNCHANGED <<tmp, bridge, step, job, on, tabs, mirror, wire>>
  BY DEF Changes, disk, process
<1>3. /\ inbox' \in [Pages -> Seq(Requests)]
      /\ \A q \in Pages : Range(inbox'[q]) \subseteq Range(inbox[q]) \union {r}
  BY <1>1, <1>2, AsksAdds
<1>4. Typed'
  BY <1>1, <1>2, <1>3 DEF Typed
<1>5. /\ \A q \in Pages : \A s \in Range(inbox'[q]) : s.kind = "browse" => s \in Asked
      /\ \A q \in Pages : \A a \in Range(wire'[q]) : a.kind = "browse" => a \in Told
  BY <1>1, <1>2, <1>3 DEF Asked, Told
<1>6. \A q \in Pages : browser[q] # None => browser[q].shows \in {None, browser[q].path}
  BY DEF QueriesAnswered
<1>7. QueriesAnswered'
  BY <1>1, <1>5, <1>6, QueriesKeep
<1> QED
  BY <1>4, <1>7

(* The browser goes to a directory, under a number of its own.              *)
LEMMA NavigatesTyped ==
    ASSUME Inv, Typed, QueriesAnswered, NEW p \in Pages, NEW d \in Dirs, Navigates(p, d)
    PROVE  Typed' /\ QueriesAnswered'
<1> PICK r : r = Request(asks + 1, "browse", d)
  OBVIOUS
<1> PICK b : b = [path |-> d, shows |-> None, query |-> asks + 1]
  OBVIOUS
<1>1. /\ r \in Requests /\ r.id = asks + 1 /\ r.dir = d
      /\ b \in Browsers /\ b.path = d /\ b.shows = None /\ b.query = asks + 1
      /\ asks \in Nat /\ asks' = asks + 1 /\ asks' \in 0 .. MaxAsks
  BY BoundAssumption DEF Navigates, Counts, Request, Requests, Typed, Browsers
<1>2. /\ Asks(p, r)
      /\ browser' = [browser EXCEPT ![p] = b]
      /\ UNCHANGED <<tmp, bridge, step, job, on, tabs, mirror, wire, waits>>
  BY DEF Navigates, disk, process
<1>3. /\ inbox' \in [Pages -> Seq(Requests)]
      /\ \A q \in Pages : Range(inbox'[q]) \subseteq Range(inbox[q]) \union {r}
  BY <1>1, <1>2, AsksAdds
<1>4. Typed'
  BY <1>1, <1>2, <1>3 DEF Typed
<1>5. Asked' \subseteq Asked \union {r} /\ Told' = Told
  BY <1>2, <1>3 DEF Asked, Told
<1>6. /\ \A s \in Asked : s.id \in Nat /\ s.id <= asks
      /\ \A a \in Told : a.id \in Nat /\ a.id <= asks
  <2>1. \A q \in Pages : Range(inbox[q]) \subseteq Requests /\ Range(wire[q]) \subseteq Results
    <3>1. \A q \in Pages : inbox[q] \in Seq(Requests) /\ wire[q] \in Seq(Results)
      BY DEF Typed
    <3> QED
      BY <3>1 DEF Range
  <2> QED
    BY <2>1, BoundAssumption DEF Asked, Told, Requests, Results, QueriesAnswered
<1>7. \A s \in Asked' : s.id <= asks'
  BY <1>1, <1>5, <1>6
<1>8. \A a \in Told' : a.id <= asks'
  BY <1>1, <1>5, <1>6
<1>9. ASSUME NEW q \in Pages, browser'[q] # None
      PROVE  /\ browser'[q].shows \in {None, browser'[q].path}
             /\ browser'[q].query # None => browser'[q].query <= asks'
             /\ \A s \in Asked' : s.id = browser'[q].query => s.dir = browser'[q].path
             /\ \A a \in Told' : a.id = browser'[q].query => a.data = browser'[q].path
  <2>1. CASE q = p
    <3>1. browser'[q] = b
      BY <1>2, <2>1 DEF Typed
    <3>2. \A s \in Asked' : s.id = asks + 1 => s.dir = d
      BY <1>1, <1>5, <1>6
    <3>3. \A a \in Told' : a.id # asks + 1
      BY <1>1, <1>5, <1>6
    <3> QED
      BY <1>1, <3>1, <3>2, <3>3
  <2>2. CASE q # p
    <3>1. browser'[q] = browser[q] /\ browser[q] \in Browsers /\ browser[q] # None
      BY <1>2, <1>9, <2>2 DEF Typed
    <3>2. browser[q].query # None => browser[q].query \in Nat /\ browser[q].query <= asks
      BY <3>1 DEF Browsers, QueriesAnswered
    <3>3. r.id # browser[q].query
      BY <1>1, <3>2, NoneAssumption
    <3>4. /\ browser[q].shows \in {None, browser[q].path}
          /\ \A s \in Asked : s.id = browser[q].query => s.dir = browser[q].path
          /\ \A a \in Told : a.id = browser[q].query => a.data = browser[q].path
      BY <3>1 DEF QueriesAnswered
    <3> QED
      BY <1>1, <1>5, <3>1, <3>2, <3>3, <3>4
  <2> QED
    BY <2>1, <2>2
<1>10. QueriesAnswered'
  BY <1>7, <1>8, <1>9 DEF QueriesAnswered
<1> QED
  BY <1>4, <1>10

(* The user opens or leaves the tab: no query.                              *)
LEMMA TabTyped ==
    ASSUME Inv, Typed, QueriesAnswered, NEW p \in Pages, OpensTab(p) \/ LeavesTab(p)
    PROVE  Typed' /\ QueriesAnswered'
<1> DEFINE r == Request(0, "list", None)
<1>1. r \in Requests /\ r.kind # "browse"
  BY BoundAssumption DEF Request, Requests
<1>2. /\ UNCHANGED inbox \/ Asks(p, r)
      /\ tabs' \in {tabs \union {p}, tabs \ {p}}
      /\ UNCHANGED <<tmp, bridge, step, job, on, mirror, wire, waits, browser>>
      /\ asks \in Nat /\ asks' = asks + 1 /\ asks' \in 0 .. MaxAsks
  BY BoundAssumption DEF OpensTab, LeavesTab, AsksList, Counts, disk, process, Typed
<1> HIDE DEF r
<1>3. /\ inbox' \in [Pages -> Seq(Requests)]
      /\ \A q \in Pages : Range(inbox'[q]) \subseteq Range(inbox[q]) \union {r}
  BY <1>1, <1>2, AsksAdds DEF Typed
<1>4. Typed'
  BY <1>2, <1>3 DEF Typed
<1>5. /\ \A q \in Pages : \A s \in Range(inbox'[q]) : s.kind = "browse" => s \in Asked
      /\ \A q \in Pages : \A a \in Range(wire'[q]) : a.kind = "browse" => a \in Told
  BY <1>1, <1>2, <1>3 DEF Asked, Told
<1>6. \A q \in Pages : browser[q] # None => browser[q].shows \in {None, browser[q].path}
  BY DEF QueriesAnswered
<1>7. QueriesAnswered'
  BY <1>2, <1>5, <1>6, QueriesKeep
<1> QED
  BY <1>4, <1>7

(* An answer arrives: the browser shows it if it is the one it waits for.   *)
LEMMA ReceivesTyped ==
    ASSUME Inv, Typed, QueriesAnswered, NEW p \in Pages, Receives(p)
    PROVE  Typed' /\ QueriesAnswered'
<1> PICK a : a = Head(wire[p])
  OBVIOUS
<1>1. /\ a \in Results /\ a \in Range(wire[p])
      /\ wire' = [wire EXCEPT ![p] = Tail(@)]
      /\ Tail(wire[p]) \in Seq(Results) /\ Range(Tail(wire[p])) \subseteq Range(wire[p])
  BY RangeOfTail DEF Receives, Typed
<1>2. /\ wire' \in [Pages -> Seq(Results)]
      /\ \A q \in Pages : \A x \in Range(wire'[q]) : x.kind = "browse" => x \in Told
  BY <1>1 DEF Typed, Told
<1>3. /\ UNCHANGED <<tmp, bridge, step, job, on, asks>> /\ asks \in Nat
  BY BoundAssumption DEF Receives, disk, process, counts, Typed
<1> DEFINE r == Request(0, "list", None)
<1>4. r \in Requests /\ r.kind # "browse"
  BY BoundAssumption DEF Request, Requests
<1>5. \/ UNCHANGED inbox
      \/ Asks(p, r)
  BY DEF Receives, Resolved, AsksList
<1> HIDE DEF r
<1>6. /\ inbox' \in [Pages -> Seq(Requests)]
      /\ \A q \in Pages : \A s \in Range(inbox'[q]) : s.kind = "browse" => s \in Asked
  <2>1. CASE UNCHANGED inbox
    BY <2>1 DEF Typed, Asked
  <2>2. CASE Asks(p, r)
    <3>1. /\ inbox' \in [Pages -> Seq(Requests)]
          /\ \A q \in Pages : Range(inbox'[q]) \subseteq Range(inbox[q]) \union {r}
      BY <1>4, <2>2, AsksAdds
    <3> QED
      BY <1>4, <3>1 DEF Asked
  <2> QED
    BY <1>5, <2>1, <2>2
<1>7. mirror' \in [Pages -> Lists] /\ waits' \in [Pages -> SUBSET Requests] /\ tabs' \subseteq Pages
  BY <1>1 DEF Receives, Resolved, Added, Results, Typed
<1>8. /\ browser' \in [Pages -> Browsers]
      /\ \A q \in Pages : browser'[q] # None =>
            /\ browser[q] # None
            /\ browser'[q].path = browser[q].path
            /\ browser'[q].query \in {None, browser[q].query}
            /\ browser'[q].shows \in {None, browser[q].path}
  <2>1. \A q \in Pages : browser[q] # None => browser[q].shows \in {None, browser[q].path}
    BY DEF QueriesAnswered
  <2>2. CASE browser' \in {browser, [browser EXCEPT ![p] = None]}
    BY <2>1, <2>2 DEF Typed, Browsers
  <2>3. CASE a.kind = "browse" /\ Listed(p, a) /\ browser[p] # None /\ browser[p].query = a.id
    <3>1. a.data = browser[p].path
      BY <1>1, <2>3 DEF QueriesAnswered, Told
    <3>2. browser[p] \in Browsers \ {None}
      BY <2>3 DEF Typed
    <3> PICK b : b = [browser[p] EXCEPT !.query = None,
                                        !.shows = IF a.ok THEN a.data ELSE @]
      OBVIOUS
    <3>3. /\ b \in Browsers /\ b.path = browser[p].path /\ b.query = None
          /\ b.shows \in {None, browser[p].path}
      BY <2>1, <3>1, <3>2 DEF Browsers
    <3>4. browser' = [browser EXCEPT ![p] = b]
      BY <2>3 DEF Listed, Typed
    <3>5. browser' \in [Pages -> Browsers] /\ browser'[p] = b
          /\ \A q \in Pages \ {p} : browser'[q] = browser[q]
      BY <3>3, <3>4 DEF Typed
    <3> QED
      BY <2>1, <2>3, <3>3, <3>5
  <2> QED
    BY <2>2, <2>3 DEF Receives, Listed, Resolved, Added
<1>9. Typed'
  BY <1>2, <1>3, <1>6, <1>7, <1>8 DEF Typed
<1>10. QueriesAnswered'
  BY <1>2, <1>3, <1>6, <1>8, QueriesKeep
<1> QED
  BY <1>9, <1>10

LEMMA StepTyped ==
    ASSUME Inv, Typed, QueriesAnswered, [Next]_vars
    PROVE  Typed' /\ QueriesAnswered'
<1>1. CASE \/ Saving \/ SaveFails \/ Crashes \/ Starts
           \/ \E d \in Dirs : Vanishes(d) \/ Returns(d)
  BY <1>1, SavingTyped
<1>2. CASE Handles
  BY <1>2, HandlesTyped DEF Handles
<1>3. ASSUME NEW p \in Pages,
             \/ Connects(p) \/ Breaks(p) \/ Cancels(p)
             \/ ChangeTimesOut(p) \/ BrowseTimesOut(p)
      PROVE  Typed' /\ QueriesAnswered'
  BY <1>3, PageTyped
<1>4. ASSUME NEW p \in Pages, Receives(p) PROVE Typed' /\ QueriesAnswered'
  BY <1>4, ReceivesTyped
<1>5. ASSUME NEW p \in Users, NEW d \in Dirs,
             HandleSelect(p, d) \/ HandleRemove(p, d) \/ Navigates(p, d)
      PROVE  Typed' /\ QueriesAnswered'
  <2>1. p \in Pages /\ "add" \in Change /\ "remove" \in Change
    BY NoneAssumption DEF Change
  <2> QED
    BY <1>5, <2>1, ChangesTyped, NavigatesTyped DEF HandleSelect, HandleRemove
<1>6. ASSUME NEW p \in Users, OpensTab(p) \/ LeavesTab(p) PROVE Typed' /\ QueriesAnswered'
  BY <1>6, TabTyped, NoneAssumption
<1>7. CASE UNCHANGED vars
  BY <1>7 DEF vars, disk, process, page, counts, Typed, QueriesAnswered, Asked, Told
<1> QED
  BY <1>1, <1>2, <1>3, <1>4, <1>5, <1>6, <1>7, NoneAssumption DEF Next

(* Every variable keeps its type: no list, on disk, in memory or in a page, *)
(* ever holds a directory twice, and the bridge saves only changes.         *)
THEOREM TypesHold == Spec => []TypeOK
<1>1. Inv /\ Typed => TypeOK
  BY DEF Inv, Typed, TypeOK, Browsers
<1>2. Inv /\ Typed /\ QueriesAnswered /\ [Next]_vars => Typed' /\ QueriesAnswered'
  BY StepTyped
<1> QED
  BY <1>1, <1>2, Starting, StartsTyped, StepKeeps, PTL DEF Spec

(* In whatever order the answers to its queries come, after watchdogs and   *)
(* lost connections too, the browser shows the entries of the directory it  *)
(* is in (DirectoryBrowser and the handler of list_directories).            *)
THEOREM BrowserShowsItsDirectory == Spec => []EntriesOfPath
<1>1. QueriesAnswered => EntriesOfPath
  BY DEF QueriesAnswered, EntriesOfPath
<1>2. Inv /\ Typed /\ QueriesAnswered /\ [Next]_vars => Typed' /\ QueriesAnswered'
  BY StepTyped
<1> QED
  BY <1>1, <1>2, Starting, StartsTyped, StepKeeps, PTL DEF Spec
=============================================================================
