-------------------------- MODULE SessionLayerProofs --------------------------
(***************************************************************************)
(* What SessionLayer promises for any number of managers, work dirs and    *)
(* sessions, and for any sessions on disk when the bridge starts.          *)
(***************************************************************************)
EXTENDS SessionLayer, SequenceTheorems, TLAPS

(* What is known of a manager before it is made, and of one made for a new  *)
(* session: its snapshot was taken.                                         *)
MadeInStep ==
    \A m \in Managers :
        /\ ~Made(m) =>
            /\ \A k \in Keys : managers[k] # m
            /\ holder[m] = None /\ pi[m] = "none"
        /\ Made(m) => dir[m] \in WorkDirs /\ holder[m] # None
        /\ mapKey[m] \in PendingKeys => snapshot[m] # None

SessionInv == TypeOK /\ MadeInStep /\ SessionIsNew

(* Inserting a name in a listing makes a longer listing.                    *)
LEMMA Inserted ==
    ASSUME NEW f \in Seq(Stems), NEW s \in Stems, NEW i \in 1..(Len(f) + 1)
    PROVE  /\ InsertAt(f, i, s) \in Seq(Stems)
           /\ Range(f) \subseteq Range(InsertAt(f, i, s))
<1> DEFINE a == SubSeq(f, 1, i - 1)
           h == a \o <<s>>
           b == SubSeq(f, i, Len(f))
           g == InsertAt(f, i, s)
<1>1. i \in Nat /\ 1 <= i /\ i <= Len(f) + 1 /\ Len(f) \in Nat
  OBVIOUS
<1>2. /\ a \in Seq(Stems) /\ Len(a) = i - 1
      /\ \A j \in 1..(i - 1) : a[j] = f[j]
  BY <1>1, SubSeqProperties
<1>3. /\ b \in Seq(Stems) /\ Len(b) = Len(f) + 1 - i
      /\ \A j \in 1..(Len(f) + 1 - i) : b[j] = f[i + j - 1]
  BY <1>1, SubSeqProperties
<1>4. /\ h \in Seq(Stems) /\ Len(h) = i
      /\ \A j \in 1..(i - 1) : h[j] = a[j]
  BY <1>1, <1>2
<1>5. /\ g \in Seq(Stems) /\ Len(g) = Len(f) + 1
      /\ \A j \in 1..i : g[j] = h[j]
      /\ \A j \in 1..(Len(f) + 1 - i) : g[i + j] = b[j]
  <2>1. g = h \o b
    BY DEF InsertAt
  <2> HIDE DEF a, b, g, h
  <2>2. h \o b \in Seq(Stems) /\ Len(h \o b) = Len(h) + Len(b)
    BY <1>3, <1>4, ConcatProperties
  <2>3. \A j \in 1..Len(h) : (h \o b)[j] = h[j]
    BY <1>1, <1>3, <1>4
  <2>4. \A j \in 1..Len(b) : (h \o b)[Len(h) + j] = b[j]
    BY <1>1, <1>3, <1>4
  <2> QED BY <1>1, <1>3, <1>4, <2>1, <2>2, <2>3, <2>4
<1>6. ASSUME NEW j \in 1..Len(f) PROVE f[j] \in Range(g)
  <2>1. CASE j < i
    <3>1. j \in DOMAIN g /\ g[j] = f[j]
      BY <2>1, <1>1, <1>2, <1>4, <1>5
    <3> QED BY <3>1 DEF Range
  <2>2. CASE j >= i
    <3>1. j + 1 - i \in 1..(Len(f) + 1 - i)
      BY <2>2, <1>1
    <3>2. i + (j + 1 - i) = j + 1 /\ i + (j + 1 - i) - 1 = j
      BY <1>1
    <3>3. g[i + (j + 1 - i)] = b[j + 1 - i]
      BY <3>1, <1>5
    <3>4. b[j + 1 - i] = f[i + (j + 1 - i) - 1]
      BY <3>1, <1>3
    <3>5. g[j + 1] = f[j]
      BY <3>2, <3>3, <3>4
    <3>6. j + 1 \in DOMAIN g
      BY <1>1, <1>5
    <3> QED BY <3>5, <3>6 DEF Range
  <2> QED BY <1>1, <2>1, <2>2
<1>7. Range(f) \subseteq Range(g)
  <2> HIDE DEF g
  <2> QED BY <1>6 DEF Range
<1> QED BY <1>5, <1>7

(* A manager that a key addresses, or that has a pi, was made.              *)
LEMMA AddressedIsMade ==
    ASSUME SessionInv, NEW m \in Managers
    PROVE  /\ m \in Mapped => Made(m)
           /\ pi[m] # "none" => Made(m)
           /\ phase[m] = "live" => Made(m)
           /\ \A k \in Keys : managers[k] = m => Made(m)
BY DEF SessionInv, TypeOK, MadeInStep, Mapped

(* Moving a manager keeps the invariant: it goes to a session of its work   *)
(* dir that was not there before.                                           *)
LEMMA MigrateInv ==
    ASSUME SessionInv, NEW m \in Managers, NEW k \in Keys, Made(m), Migrate(m, k),
           UNCHANGED <<known, objects, processes, files, workDirs, stopped, told, crowded>>
    PROVE  SessionInv'
<1> USE NamesAssumption DEF objects, processes, Made
<1>1. CASE Candidates(m) = {} /\ UNCHANGED <<managers, holder, again>>
  BY <1>1 DEF SessionInv, TypeOK, MadeInStep, SessionIsNew
<1>2. ASSUME NEW stem \in Stems, IsNewest(m, stem),
             managers' = [managers EXCEPT ![k] = None, ![stem] = m],
             holder' = IF m \in known THEN [holder EXCEPT ![m] = stem] ELSE holder,
             again' = IF managers[k] # m /\ managers' # managers THEN again \union {m} ELSE again
      PROVE  SessionInv'
  <2>1. stem \in Range(files[dir[m]]) /\ stem \notin snapshot[m]
    BY <1>2 DEF IsNewest, Candidates
  <2>2. stem \in Keys /\ stem # None
    BY DEF Keys
  <2>3. TypeOK'
    <3>1. managers' \in [Keys -> Managers \union {None}]
      BY <1>2, <2>2 DEF SessionInv, TypeOK
    <3>2. holder' \in [Managers -> Keys \union {None}]
      BY <1>2, <2>2 DEF SessionInv, TypeOK
    <3>3. again' \subseteq Managers
      BY <1>2 DEF SessionInv, TypeOK
    <3> QED
      BY <3>1, <3>2, <3>3 DEF SessionInv, TypeOK
  <2>4. MadeInStep'
    BY <1>2, <2>2 DEF SessionInv, TypeOK, MadeInStep
  <2>5. SessionIsNew'
    <3> SUFFICES ASSUME NEW n \in Managers, NEW s \in Stems,
                        managers'[s] = n \/ (holder'[n] = s /\ mapKey[n] # s)
                 PROVE  /\ s \in Range(files[dir[n]])
                        /\ mapKey[n] \in PendingKeys =>
                             snapshot[n] # None /\ s \notin snapshot[n]
      BY DEF SessionIsNew
    <3>1. mapKey[n] \in PendingKeys => snapshot[n] # None
      BY DEF SessionInv, MadeInStep
    <3>2. CASE n = m /\ s = stem
      BY <3>1, <3>2, <2>1
    <3>3. CASE ~(n = m /\ s = stem)
      <4>1. managers'[s] = n => managers[s] = n
        BY <1>2, <3>3, <2>2, NamesAssumption DEF SessionInv, TypeOK, Keys
      <4>2. holder'[n] = s => holder[n] = s
        BY <1>2, <3>3 DEF SessionInv, TypeOK
      <4> QED BY <4>1, <4>2 DEF SessionInv, SessionIsNew
    <3> QED BY <3>2, <3>3
  <2> QED BY <2>3, <2>4, <2>5 DEF SessionInv
<1> QED BY <1>1, <1>2 DEF Migrate

(* Spawning pi for a manager that was made keeps the invariant, also when   *)
(* keys go at the same time.                                                *)
LEMMA SpawnInv ==
    ASSUME SessionInv, NEW m \in Managers, Made(m), Spawn(m, mapKey[m], dir[m]),
           managers' \in [Keys -> Managers \union {None}],
           \A k \in Keys : managers'[k] # managers[k] => managers'[k] = None,
           known' \subseteq known,
           UNCHANGED <<holder, objects, files, workDirs, stopped, told, history>>
    PROVE  SessionInv'
<1> USE NamesAssumption DEF objects, Made
<1>1. files[dir[m]] \in Seq(Stems)
  BY DEF SessionInv, TypeOK, MadeInStep
<1>2. Range(files[dir[m]]) \in SUBSET Stems
  BY <1>1 DEF Range
<1>3. Pinned(mapKey[m], dir[m]) \in Stems \union {None}
  BY <1>1 DEF Pinned, Last
<1>4. TypeOK'
  BY <1>2, <1>3 DEF SessionInv, TypeOK, Spawn, history
<1>5. snapshot'[m] # None /\ (snapshot[m] # None => snapshot'[m] = snapshot[m])
  BY <1>2 DEF SessionInv, TypeOK, Spawn
<1>6. \A n \in Managers : n # m => snapshot'[n] = snapshot[n] /\ pi'[n] = pi[n]
  BY DEF SessionInv, TypeOK, Spawn
<1>7. MadeInStep'
  <2>1. \A n \in Managers, k \in Keys : managers'[k] = n => managers[k] = n
    OBVIOUS
  <2>2. \A n \in Managers : ~Made(n) =>
          (\A k \in Keys : managers'[k] # n) /\ holder'[n] = None /\ pi'[n] = "none"
    BY <1>6, <2>1 DEF SessionInv, MadeInStep
  <2>3. \A n \in Managers : mapKey[n] \in PendingKeys => snapshot'[n] # None
    BY <1>5, <1>6 DEF SessionInv, MadeInStep
  <2> QED BY <2>2, <2>3 DEF SessionInv, MadeInStep
<1>8. SessionIsNew'
  BY <1>5, <1>6 DEF SessionInv, SessionIsNew, Keys
<1> QED BY <1>4, <1>7, <1>8 DEF SessionInv

(* The `exited' frame only takes keys away.                                 *)
LEMMA ExitedFrame ==
    ASSUME SessionInv, NEW m \in Managers, OnExited(m)
    PROVE  /\ managers' \in [Keys -> Managers \union {None}]
           /\ \A k \in Keys : managers'[k] # managers[k] => managers'[k] = None
           /\ known' \subseteq known /\ holder' = holder
BY DEF SessionInv, TypeOK, OnExited, KeysOf

(* Making a manager, which may spawn its pi at once, keeps the invariant.   *)
LEMMA MakeInv ==
    ASSUME SessionInv, NEW m \in Managers, NEW k \in Keys, NEW d \in WorkDirs,
           Home(k, d), Make(m, k, d),
           Spawn(m, k, d) \/ (k \notin PendingKeys /\ UNCHANGED processes),
           UNCHANGED <<files, workDirs, stopped, told, history>>
    PROVE  SessionInv'
<1> USE NamesAssumption DEF Make, Made
<1>1. files[d] \in Seq(Stems)
  BY DEF SessionInv, TypeOK
<1>2. Range(files[d]) \in SUBSET Stems
  BY <1>1 DEF Range
<1>3. Pinned(k, d) \in Stems \union {None}
  BY <1>1 DEF Pinned, Last
<1>4. k # None
  OBVIOUS
<1>5. TypeOK'
  <2>1. /\ snapshot' \in [Managers -> {None} \union SUBSET Stems]
        /\ phase' \in [Managers -> {"exited", "live"}]
        /\ pi' \in [Managers -> {"none", "running", "lost", "gone"}]
        /\ file' \in [Managers -> Stems \union {None}]
        /\ \A n \in Managers : phase'[n] = "live" <=> pi'[n] = "running"
    <3>1. CASE Spawn(m, k, d)
      BY <1>2, <1>3, <3>1 DEF SessionInv, TypeOK, Spawn
    <3>2. CASE UNCHANGED processes
      BY <3>2 DEF SessionInv, TypeOK, processes
    <3> QED BY <3>1, <3>2
  <2>2. /\ managers' \in [Keys -> Managers \union {None}]
        /\ mapKey' \in [Managers -> Keys \union {None}]
        /\ holder' \in [Managers -> Keys \union {None}]
        /\ dir' \in [Managers -> WorkDirs \union {None}]
    BY DEF SessionInv, TypeOK
  <2>3. known' \subseteq {n \in Managers : mapKey'[n] # None}
    BY <1>4 DEF SessionInv, TypeOK
  <2>4. /\ files' \in [WorkDirs -> Seq(Stems)] /\ workDirs' \subseteq WorkDirs
        /\ stopped' \in BOOLEAN /\ told' \subseteq Managers
        /\ again' \subseteq Managers /\ crowded' \subseteq Managers
    BY DEF SessionInv, TypeOK, history
  <2> QED BY <2>1, <2>2, <2>3, <2>4 DEF TypeOK
<1>6. /\ snapshot[m] # None => snapshot'[m] = snapshot[m]
      /\ k \in PendingKeys => snapshot'[m] # None
      /\ \A n \in Managers : n # m => snapshot'[n] = snapshot[n] /\ pi'[n] = pi[n]
  BY <1>2 DEF SessionInv, TypeOK, Spawn, processes
<1>7. /\ mapKey'[m] = k /\ holder'[m] = k /\ dir'[m] = d /\ managers'[k] = m
      /\ \A n \in Managers : n # m =>
            mapKey'[n] = mapKey[n] /\ holder'[n] = holder[n] /\ dir'[n] = dir[n]
      /\ \A j \in Keys : j # k => managers'[j] = managers[j]
  BY DEF SessionInv, TypeOK
<1>8. MadeInStep'
  BY <1>4, <1>6, <1>7 DEF SessionInv, MadeInStep
<1>9. SessionIsNew'
  <2> SUFFICES ASSUME NEW n \in Managers, NEW s \in Stems,
                      managers'[s] = n \/ (holder'[n] = s /\ mapKey'[n] # s)
               PROVE  /\ s \in Range(files[dir'[n]])
                      /\ mapKey'[n] \in PendingKeys =>
                           snapshot'[n] # None /\ s \notin snapshot'[n]
    BY DEF SessionIsNew
  <2>1. CASE n = m
    <3>1. s = k
      BY <1>7, <2>1 DEF SessionInv, MadeInStep, Keys
    <3>2. k \notin PendingKeys /\ k # LegacyKey
      BY <3>1
    <3>3. k \in Range(files[d])
      BY <3>2 DEF Home, PendingKeys
    <3> QED BY <1>7, <2>1, <3>1, <3>2, <3>3
  <2>2. CASE n # m
    BY <1>6, <1>7, <2>2 DEF SessionInv, SessionIsNew, Keys
  <2> QED BY <2>1, <2>2
<1> QED BY <1>5, <1>8, <1>9 DEF SessionInv

(* A new file is added to a listing.                                        *)
LEMMA CreateInv ==
    ASSUME SessionInv, NEW m \in Managers, CreateFile(m)
    PROVE  SessionInv'
<1> USE NamesAssumption DEF table, objects, Made
<1>1. Made(m)
  BY AddressedIsMade DEF CreateFile
<1>2. PICK s \in Stems, i \in 1..(Len(files[dir[m]]) + 1) :
        /\ file' = [file EXCEPT ![m] = s]
        /\ files' = [files EXCEPT ![dir[m]] = InsertAt(@, i, s)]
  BY DEF CreateFile
<1>3. files[dir[m]] \in Seq(Stems) /\ dir[m] \in WorkDirs
  BY <1>1 DEF SessionInv, TypeOK, MadeInStep
<1>4. /\ InsertAt(files[dir[m]], i, s) \in Seq(Stems)
      /\ Range(files[dir[m]]) \subseteq Range(InsertAt(files[dir[m]], i, s))
  BY <1>3, Inserted
<1>5. /\ files' \in [WorkDirs -> Seq(Stems)]
      /\ \A d \in WorkDirs : Range(files[d]) \subseteq Range(files'[d])
  <2> DEFINE g == InsertAt(files[dir[m]], i, s)
  <2>1. files' = [files EXCEPT ![dir[m]] = g]
    BY <1>2
  <2> HIDE DEF g
  <2> QED BY <1>3, <1>4, <2>1 DEF SessionInv, TypeOK, g
<1>6. TypeOK'
  <2>1. PendingKey(dir[m]) \in Keys
    BY <1>3 DEF Keys, PendingKeys
  <2>2. crowded' \subseteq Managers
    BY <2>1 DEF SessionInv, TypeOK, CreateFile
  <2> QED
    BY <1>2, <1>5, <2>2 DEF SessionInv, TypeOK, CreateFile
<1>7. MadeInStep'
  BY DEF SessionInv, MadeInStep, CreateFile
<1>8. SessionIsNew'
  <2>1. \A n \in Managers, t \in Stems :
          managers[t] = n \/ (holder[n] = t /\ mapKey[n] # t) => dir[n] \in WorkDirs
    BY AddressedIsMade DEF SessionInv, MadeInStep, Keys
  <2> QED BY <1>5, <2>1 DEF SessionInv, SessionIsNew, CreateFile
<1> QED BY <1>6, <1>7, <1>8 DEF SessionInv

LEMMA InitInv == Init => SessionInv
<1> SUFFICES ASSUME Init PROVE SessionInv
  OBVIOUS
<1> USE NamesAssumption DEF Init, Made
<1>1. TypeOK
  <2>1. files \in [WorkDirs -> Seq(Stems)]
    OBVIOUS
  <2>2. workDirs \subseteq WorkDirs /\ known \subseteq {m \in Managers : mapKey[m] # None}
    OBVIOUS
  <2>3. \A m \in Managers : phase[m] = "live" <=> pi[m] = "running"
    OBVIOUS
  <2>4. managers \in [Keys -> Managers \union {None}]
    OBVIOUS
  <2>7. /\ mapKey \in [Managers -> Keys \union {None}]
        /\ holder \in [Managers -> Keys \union {None}]
    OBVIOUS
  <2>8. dir \in [Managers -> WorkDirs \union {None}]
    OBVIOUS
  <2>9. /\ snapshot \in [Managers -> {None} \union SUBSET Stems]
        /\ file \in [Managers -> Stems \union {None}]
    OBVIOUS
  <2>5. /\ phase \in [Managers -> {"exited", "live"}]
        /\ pi \in [Managers -> {"none", "running", "lost", "gone"}]
    OBVIOUS
  <2>6. /\ stopped \in BOOLEAN /\ told \subseteq Managers
        /\ again \subseteq Managers /\ crowded \subseteq Managers
    OBVIOUS
  <2> QED BY <2>1, <2>2, <2>3, <2>4, <2>5, <2>6, <2>7, <2>8, <2>9 DEF TypeOK
<1>2. MadeInStep
  <2>1. None \notin PendingKeys
    BY DEF Keys
  <2>2. \A m \in Managers : mapKey[m] = None /\ holder[m] = None /\ pi[m] = "none"
    OBVIOUS
  <2>3. \A m \in Managers, k \in Keys : managers[k] # m
    OBVIOUS
  <2> QED BY <2>1, <2>2, <2>3 DEF MadeInStep
<1>3. SessionIsNew
  BY DEF SessionIsNew, Keys
<1> QED BY <1>1, <1>2, <1>3 DEF SessionInv

LEMMA StepInv == SessionInv /\ [Next]_vars => SessionInv'
<1> SUFFICES ASSUME SessionInv, [Next]_vars PROVE SessionInv'
  OBVIOUS
<1> USE NamesAssumption
<1>1. ASSUME NEW k \in Keys, CommandMakes(k) PROVE SessionInv'
  BY <1>1, MakeInv DEF CommandMakes
<1>2. ASSUME NEW k \in Keys, QueryMakes(k) PROVE SessionInv'
  BY <1>2, MakeInv DEF QueryMakes
<1>3. ASSUME NEW m \in Managers, CommandWakes(m) PROVE SessionInv'
  <2>1. managers' \in [Keys -> Managers \union {None}]
    BY <1>3 DEF CommandWakes, table, SessionInv, TypeOK
  <2> QED BY <1>3, <2>1, AddressedIsMade, SpawnInv DEF CommandWakes, table
<1>4. ASSUME NEW m \in Managers, CreateFile(m) PROVE SessionInv'
  BY <1>4, CreateInv
<1>5. ASSUME NEW m \in Managers, StateFrame(m) PROVE SessionInv'
  <2>1. Made(m)
    BY <1>5, AddressedIsMade DEF StateFrame
  <2>2. CASE UNCHANGED <<managers, holder, again>>
    BY <1>5, <2>2 DEF StateFrame, objects, processes, SessionInv, TypeOK, MadeInStep,
         SessionIsNew, Made
  <2>3. ASSUME NEW k \in KeysOf(m) \intersect PendingKeys, Migrate(m, k) PROVE SessionInv'
    BY <1>5, <2>1, <2>3, MigrateInv DEF StateFrame, KeysOf
  <2> QED BY <1>5, <2>2, <2>3 DEF StateFrame, OnSessionState
<1>6. ASSUME NEW m \in Managers, OtherFrame(m) PROVE SessionInv'
  <2>1. Made(m)
    BY <1>6, AddressedIsMade DEF OtherFrame
  <2>2. CASE UNCHANGED <<managers, holder, again>>
    BY <1>6, <2>2 DEF OtherFrame, objects, processes, SessionInv, TypeOK, MadeInStep,
         SessionIsNew, Made
  <2>3. CASE mapKey[m] \in PendingKeys /\ Migrate(m, mapKey[m])
    BY <1>6, <2>1, <2>3, MigrateInv DEF OtherFrame, Keys
  <2> QED BY <1>6, <2>2, <2>3 DEF OtherFrame, OnOtherFrame
<1>7. ASSUME NEW m \in Managers, Exit(m) \/ LetGo(m) PROVE SessionInv'
  <2>1. Made(m) /\ OnExited(m)
    BY <1>7, AddressedIsMade DEF Exit, LetGo
  <2>2. TypeOK'
    <3>1. /\ phase' = [phase EXCEPT ![m] = "exited"]
          /\ pi' \in {[pi EXCEPT ![m] = "gone"], [pi EXCEPT ![m] = "lost"]}
          /\ UNCHANGED <<objects, snapshot, file, files, workDirs, stopped, told, history>>
      BY <1>7 DEF Exit, LetGo
    <3>2. /\ managers' \in [Keys -> Managers \union {None}]
          /\ known' \subseteq known /\ holder' = holder
      BY <2>1, ExitedFrame
    <3>3. /\ phase' \in [Managers -> {"exited", "live"}]
          /\ pi' \in [Managers -> {"none", "running", "lost", "gone"}]
          /\ \A n \in Managers : phase'[n] = "live" <=> pi'[n] = "running"
      <4>1. CASE pi' = [pi EXCEPT ![m] = "gone"]
        BY <3>1, <4>1 DEF SessionInv, TypeOK
      <4>2. CASE pi' = [pi EXCEPT ![m] = "lost"]
        BY <3>1, <4>2 DEF SessionInv, TypeOK
      <4> QED BY <3>1, <4>1, <4>2
    <3> QED BY <3>1, <3>2, <3>3 DEF objects, SessionInv, TypeOK, Made, history
  <2>3. MadeInStep'
    BY <1>7, <2>1, ExitedFrame DEF Exit, LetGo, objects, SessionInv, TypeOK, MadeInStep, Made
  <2>4. SessionIsNew'
    BY <1>7, <2>1, ExitedFrame DEF Exit, LetGo, objects, SessionInv, SessionIsNew, Keys
  <2> QED BY <2>2, <2>3, <2>4 DEF SessionInv
<1>8. ASSUME NEW m \in Managers, Crash(m) PROVE SessionInv'
  BY <1>8, AddressedIsMade, ExitedFrame, SpawnInv DEF Crash
<1>9. ASSUME NEW m \in Managers, LostExit(m) PROVE SessionInv'
  BY <1>9 DEF LostExit, table, objects, history, SessionInv, TypeOK, MadeInStep, SessionIsNew,
       Made
<1>10. ASSUME NEW d \in WorkDirs, WorkDirAdd(d) \/ WorkDirRemove(d) PROVE SessionInv'
  BY <1>10 DEF WorkDirAdd, WorkDirRemove, table, objects, processes, history, SessionInv, TypeOK,
       MadeInStep, SessionIsNew, Made
<1>11. CASE Stop
  <2>1. Mapped \subseteq Managers
    BY DEF SessionInv, TypeOK, Mapped
  <2>2. TypeOK'
    BY <1>11, <2>1 DEF Stop, objects, processes, history, SessionInv, TypeOK, Made
  <2>3. MadeInStep'
    BY <1>11 DEF Stop, objects, processes, SessionInv, MadeInStep, Made
  <2>4. SessionIsNew'
    BY <1>11 DEF Stop, objects, processes, SessionInv, SessionIsNew, Keys
  <2> QED BY <2>2, <2>3, <2>4 DEF SessionInv
<1>12. CASE UNCHANGED vars
  BY <1>12 DEF vars, table, objects, processes, history, SessionInv, TypeOK, MadeInStep, SessionIsNew,
       Made
<1> QED
  BY <1>1, <1>2, <1>3, <1>4, <1>5, <1>6, <1>7, <1>8, <1>9, <1>10, <1>11, <1>12 DEF Next

(* The session layer's state keeps its types in every behaviour, for any    *)
(* number of managers, work dirs and sessions.                              *)
THEOREM TypeCorrect == Spec => []TypeOK
<1>1. SessionInv => TypeOK
  BY DEF SessionInv
<1> QED BY <1>1, InitInv, StepInv, PTL DEF Spec

(* A stem addresses a manager of its work dir, and a new session is never   *)
(* bound to one that was there before its manager started, in every         *)
(* behaviour: repeated migrations, crashes and lost pis included.           *)
THEOREM NewSessionsAreNew == Spec => []SessionIsNew
<1>1. SessionInv => SessionIsNew
  BY DEF SessionInv
<1> QED BY <1>1, InitInv, StepInv, PTL DEF Spec

-----------------------------------------------------------------------------
(* A manager that has not moved again has one key.  Under its pending key   *)
(* it has a pi, and no file has appeared in its work dir but its own unless *)
(* it is crowded; one made for a stem has that stem's file and no other     *)
(* key.                                                                     *)
RouteOf(m) ==
    /\ \A j, k \in Keys : managers[j] = m /\ managers[k] = m => j = k
    /\ \A d \in WorkDirs : managers[PendingKey(d)] = m =>
          /\ mapKey[m] = PendingKey(d) /\ dir[m] = d /\ pi[m] = "running"
          /\ m \in crowded \/ Candidates(m) \subseteq {file[m]}
    /\ mapKey[m] \in Stems /\ pi[m] # "none" => file[m] = mapKey[m]
    /\ \A k \in Keys : managers[k] = m /\ mapKey[m] \notin PendingKeys => k = mapKey[m]
    /\ \A s \in Stems : managers[s] = m /\ pi[m] = "running" => file[m] = s \/ m \in crowded
    /\ \A k \in Keys : managers[k] = m /\ phase[m] = "exited" => snapshot[m] = None

RouteInStep ==
    /\ \A m \in Managers : ~Made(m) => snapshot[m] = None
    /\ \A m \in Managers \ again : RouteOf(m)

RouteInv == SessionInv /\ RouteInStep

(* The keys of pending sessions tell their work dirs apart.                 *)
LEMMA PendingKeysDiffer ==
    /\ \A d \in WorkDirs : PendingKey(d) \in PendingKeys /\ PendingKey(d) \in Keys
    /\ \A d, e \in WorkDirs : PendingKey(d) = PendingKey(e) => d = e
    /\ \A k \in PendingKeys : \E d \in WorkDirs : k = PendingKey(d)
BY DEF PendingKey, PendingKeys, Keys

(* What is in a listing after an insertion: nothing but the new name.       *)
LEMMA OnlyInserted ==
    ASSUME NEW f \in Seq(Stems), NEW s \in Stems, NEW i \in 1..(Len(f) + 1)
    PROVE  Range(InsertAt(f, i, s)) \subseteq Range(f) \union {s}
<1> DEFINE a == SubSeq(f, 1, i - 1)
           h == a \o <<s>>
           b == SubSeq(f, i, Len(f))
           g == InsertAt(f, i, s)
<1>1. i \in Nat /\ 1 <= i /\ i <= Len(f) + 1 /\ Len(f) \in Nat
  OBVIOUS
<1>2. /\ a \in Seq(Stems) /\ Len(a) = i - 1
      /\ \A j \in 1..(i - 1) : a[j] = f[j]
  BY <1>1, SubSeqProperties
<1>3. /\ b \in Seq(Stems) /\ Len(b) = Len(f) + 1 - i
      /\ \A j \in 1..(Len(f) + 1 - i) : b[j] = f[i + j - 1]
  BY <1>1, SubSeqProperties
<1>4. /\ h \in Seq(Stems) /\ Len(h) = i /\ h[i] = s
      /\ \A j \in 1..(i - 1) : h[j] = a[j]
  <2>1. Len(a) = i - 1 /\ a \in Seq(Stems)
    BY <1>2
  <2> HIDE DEF a
  <2> QED
    BY <1>1, <2>1
<1>5. g = h \o b
  BY DEF InsertAt
<1> HIDE DEF a, b, g, h
<1>6. DOMAIN g = 1..(Len(f) + 1) /\ DOMAIN f = 1..Len(f)
  <2>1. h \o b \in Seq(Stems) /\ Len(h \o b) = Len(h) + Len(b)
    BY <1>3, <1>4, ConcatProperties
  <2> QED
    BY <1>1, <1>3, <1>4, <1>5, <2>1
<1>7. ASSUME NEW j \in DOMAIN g
      PROVE  g[j] \in Range(f) \union {s}
  <2>1. CASE j <= i
    <3>1. g[j] = h[j]
      BY <1>1, <1>3, <1>4, <1>5, <1>6, <2>1
    <3>2. CASE j = i
      BY <1>4, <3>1, <3>2
    <3>3. CASE j < i
      <4>1. g[j] = f[j] /\ j \in DOMAIN f
        BY <1>1, <1>2, <1>4, <1>6, <3>1, <3>3
      <4> QED
        BY <4>1 DEF Range
    <3> QED
      BY <1>1, <1>6, <2>1, <3>2, <3>3
  <2>2. CASE j > i
    <3>1. j - i \in 1..(Len(f) + 1 - i) /\ i + (j - i) = j
      BY <1>1, <1>6, <2>2
    <3>2. (h \o b)[Len(h) + (j - i)] = b[j - i]
      BY <1>1, <1>3, <1>4, <3>1
    <3>3. b[j - i] = f[i + (j - i) - 1]
      BY <1>3, <3>1
    <3>4. j - 1 \in DOMAIN f
      BY <1>1, <1>6, <2>2
    <3>5. Len(h) + (j - i) = j /\ i + (j - i) - 1 = j - 1
      BY <1>1, <1>4, <1>6
    <3>6. g[j] = f[j - 1]
      BY <1>5, <3>2, <3>3, <3>5
    <3> QED
      BY <3>4, <3>6 DEF Range
  <2> QED
    BY <1>1, <1>6, <2>1, <2>2
<1> QED
  BY <1>7 DEF Range, g

(* A manager that is left alone, except that keys are taken from it, keeps  *)
(* its route.                                                               *)
LEMMA LeftAlone ==
    ASSUME NEW n \in Managers, RouteOf(n),
           \A k \in Keys : managers'[k] = n => managers[k] = n,
           mapKey'[n] = mapKey[n], dir'[n] = dir[n], snapshot'[n] = snapshot[n],
           phase'[n] = phase[n], pi'[n] = pi[n], file'[n] = file[n], crowded \subseteq crowded',
           \A d \in WorkDirs :
                managers[PendingKey(d)] = n => n \in crowded' \/ Candidates(n)' \subseteq Candidates(n)
    PROVE  RouteOf(n)'
<1>1. \A d \in WorkDirs : PendingKey(d) \in Keys
  BY PendingKeysDiffer
<1>2. \A t \in Stems : t \in Keys
  BY DEF Keys
<1> QED
  BY <1>1, <1>2 DEF RouteOf

(* A manager with one key has none after its `exited' frame.                *)
LEMMA ExitedIsGone ==
    ASSUME SessionInv, NEW m \in Managers, OnExited(m)
    PROVE  /\ \A k \in Keys : managers'[k] \in {managers[k], None}
           /\ RouteOf(m) => \A k \in Keys : managers'[k] # m
<1> USE NamesAssumption
<1>1. managers \in [Keys -> Managers \union {None}] /\ m # None
  BY DEF SessionInv, TypeOK
<1>2. CASE KeysOf(m) = {}
  BY <1>1, <1>2 DEF OnExited, KeysOf
<1>3. CASE KeysOf(m) # {}
  BY <1>1, <1>3 DEF OnExited, KeysOf, RouteOf
<1> QED
  BY <1>2, <1>3

(* When a manager loses its key and everything else stays as it was with    *)
(* the others, the routes stay in step.                                     *)
LEMMA LeavingKeepsRoutes ==
    ASSUME RouteInv, NEW m \in Managers, Made(m), OnExited(m),
           \A n \in Managers \ {m} :
                snapshot'[n] = snapshot[n] /\ phase'[n] = phase[n] /\ pi'[n] = pi[n] /\ file'[n] = file[n],
           m \notin again /\ mapKey[m] \in Stems /\ pi'[m] # "none" => file'[m] = mapKey[m],
           UNCHANGED <<mapKey, dir, files, history>>
    PROVE  RouteInStep'
<1> USE NamesAssumption, PendingKeysDiffer DEF history
<1>1. \A n \in Managers : ~Made(n)' => snapshot'[n] = None
  BY DEF RouteInv, RouteInStep, Made
<1>2. ASSUME NEW n \in Managers, n \notin again
      PROVE  RouteOf(n)'
  <2>1. RouteOf(n) /\ \A k \in Keys : managers'[k] \in {managers[k], None}
    BY <1>2, ExitedIsGone DEF RouteInv, RouteInStep
  <2>2. CASE n = m
    <3>1. \A k \in Keys : managers'[k] # m
      BY <2>1, <2>2, ExitedIsGone DEF RouteInv
    <3>2. \A t \in Stems : t \in Keys
      BY DEF Keys
    <3> QED
      BY <1>2, <2>2, <3>1, <3>2 DEF RouteOf
  <2>3. CASE n # m
    <3>1. Candidates(n)' = Candidates(n)
      BY <2>3 DEF Candidates
    <3> QED
      BY <2>1, <2>3, <3>1, LeftAlone
  <2> QED
    BY <2>2, <2>3
<1> QED
  BY <1>1, <1>2 DEF RouteInStep

(* Making a manager, with a pi or without.                                  *)
LEMMA MakingKeepsRoutes ==
    ASSUME RouteInv, NEW m \in Managers, NEW k \in Keys, NEW d \in WorkDirs,
           Home(k, d), Make(m, k, d),
           Spawn(m, k, d) \/ (k \notin PendingKeys /\ UNCHANGED processes),
           UNCHANGED <<files, history>>
    PROVE  RouteInStep'
<1> USE NamesAssumption, PendingKeysDiffer DEF history
<1>1. /\ SessionInv /\ TypeOK /\ snapshot[m] = None /\ pi[m] = "none" /\ phase[m] = "exited"
      /\ \A j \in Keys : managers[j] # m
  BY DEF RouteInv, RouteInStep, SessionInv, TypeOK, MadeInStep, Make
<1>2. /\ mapKey'[m] = k /\ dir'[m] = d /\ managers'[k] = m
      /\ \A n \in Managers : n # m => mapKey'[n] = mapKey[n] /\ dir'[n] = dir[n]
      /\ \A j \in Keys : j # k => managers'[j] = managers[j]
  BY <1>1 DEF Make, TypeOK
<1>3. \A n \in Managers : n # m =>
        snapshot'[n] = snapshot[n] /\ phase'[n] = phase[n] /\ pi'[n] = pi[n] /\ file'[n] = file[n]
  BY <1>1 DEF Spawn, processes, TypeOK
<1>4. /\ k \in Stems /\ pi'[m] # "none" => file'[m] = k
      /\ k \in PendingKeys => pi'[m] = "running" /\ Candidates(m)' = {}
      /\ phase'[m] = "exited" => snapshot'[m] = None
  <2>1. CASE Spawn(m, k, d)
    <3>1. /\ snapshot'[m] = Range(files[d]) /\ phase'[m] = "live" /\ pi'[m] = "running"
          /\ file'[m] = Pinned(k, d)
      BY <1>1, <2>1 DEF Spawn, TypeOK
    <3> QED
      BY <1>2, <3>1 DEF Pinned, Candidates
  <2>2. CASE k \notin PendingKeys /\ UNCHANGED processes
    BY <1>1, <2>2 DEF processes
  <2> QED
    BY <2>1, <2>2
<1>5. \A n \in Managers : ~Made(n)' => snapshot'[n] = None
  BY <1>2, <1>3 DEF RouteInv, RouteInStep, Made
<1>6. \A j \in Keys : managers'[j] = m => j = k
  BY <1>1, <1>2
<1>7. RouteOf(m)'
  <2>1. ASSUME NEW e \in WorkDirs, managers'[PendingKey(e)] = m
        PROVE  /\ mapKey'[m] = PendingKey(e) /\ dir'[m] = e /\ pi'[m] = "running"
               /\ Candidates(m)' \subseteq {file'[m]}
    <3>1. k = PendingKey(e)
      BY <1>6, <2>1
    <3>2. d = e
      BY <3>1 DEF Home, Keys
    <3> QED
      BY <1>2, <1>4, <3>1, <3>2
  <2>2. \A s \in Stems : managers'[s] = m /\ pi'[m] = "running" => file'[m] = s
    BY <1>4, <1>6 DEF Keys
  <2> QED
    BY <1>2, <1>4, <1>6, <2>1, <2>2 DEF RouteOf
<1>8. ASSUME NEW n \in Managers, n # m, n \notin again
      PROVE  RouteOf(n)'
  <2>1. RouteOf(n)
    BY <1>8 DEF RouteInv, RouteInStep
  <2>2. Candidates(n)' = Candidates(n)
    BY <1>2, <1>3, <1>8 DEF Candidates
  <2>3. \A j \in Keys : managers'[j] = n => managers[j] = n
    BY <1>2, <1>8
  <2> QED
    BY <1>2, <1>3, <1>8, <2>1, <2>2, <2>3, LeftAlone
<1> QED
  BY <1>5, <1>7, <1>8 DEF RouteInStep

(* Waking a manager that has exited.                                        *)
LEMMA WakingKeepsRoutes ==
    ASSUME RouteInv, NEW m \in Managers, CommandWakes(m)
    PROVE  RouteInStep'
<1> USE NamesAssumption, PendingKeysDiffer DEF table, objects, history
<1>1. /\ SessionInv /\ TypeOK /\ Made(m) /\ m \in Mapped /\ phase[m] = "exited" /\ pi[m] # "running"
  BY AddressedIsMade DEF RouteInv, SessionInv, TypeOK, CommandWakes
<1>2. \A n \in Managers : n # m =>
        snapshot'[n] = snapshot[n] /\ phase'[n] = phase[n] /\ pi'[n] = pi[n] /\ file'[n] = file[n]
  BY <1>1 DEF CommandWakes, Spawn, TypeOK
<1>3. UNCHANGED <<managers, mapKey, dir, files, history>>
  BY DEF CommandWakes
<1>4. phase'[m] = "live" /\ pi'[m] = "running" /\ file'[m] = Pinned(mapKey[m], dir[m])
  BY <1>1 DEF CommandWakes, Spawn, TypeOK
<1>5. \A n \in Managers : ~Made(n)' => snapshot'[n] = None
  BY <1>1, <1>2, <1>3 DEF RouteInv, RouteInStep, Made
<1>6. ASSUME m \notin again
      PROVE  RouteOf(m)'
  <2>1. RouteOf(m)
    BY <1>6 DEF RouteInv, RouteInStep
  <2>2. mapKey[m] \notin PendingKeys
    <3>1. PICK k \in Keys : managers[k] = m
      BY <1>1 DEF Mapped
    <3>2. snapshot[m] = None
      BY <1>1, <2>1, <3>1 DEF RouteOf
    <3> QED
      BY <1>1, <3>2 DEF SessionInv, MadeInStep
  <2>3. \A k \in Keys : managers[k] = m => k = mapKey[m]
    BY <2>1, <2>2 DEF RouteOf
  <2>4. \A d \in WorkDirs : managers[PendingKey(d)] # m
    BY <2>2, <2>3
  <2>5. \A s \in Stems : managers[s] = m => file'[m] = s
    BY <1>4, <2>3 DEF Pinned, Keys
  <2>6. mapKey[m] \in Stems => file'[m] = mapKey[m]
    BY <1>4 DEF Pinned
  <2> QED
    BY <1>3, <1>4, <2>3, <2>4, <2>5, <2>6, <2>1 DEF RouteOf
<1>7. ASSUME NEW n \in Managers, n # m, n \notin again
      PROVE  RouteOf(n)'
  <2>1. RouteOf(n)
    BY <1>7 DEF RouteInv, RouteInStep
  <2>2. Candidates(n)' = Candidates(n)
    BY <1>2, <1>3, <1>7 DEF Candidates
  <2> QED
    BY <1>2, <1>3, <1>7, <2>1, <2>2, LeftAlone
<1> QED
  BY <1>3, <1>5, <1>6, <1>7 DEF RouteInStep

(* A new file is its maker's own; a manager that waits in the same work dir *)
(* is crowded from then on.                                                 *)
LEMMA CreatingKeepsRoutes ==
    ASSUME RouteInv, NEW m \in Managers, CreateFile(m)
    PROVE  RouteInStep'
<1> USE NamesAssumption, PendingKeysDiffer DEF table, objects
<1>1. SessionInv /\ TypeOK /\ Made(m) /\ dir[m] \in WorkDirs
  BY AddressedIsMade DEF RouteInv, SessionInv, MadeInStep, CreateFile
<1>2. PICK s \in Stems, i \in 1..(Len(files[dir[m]]) + 1) :
        /\ file' = [file EXCEPT ![m] = s]
        /\ files' = [files EXCEPT ![dir[m]] = InsertAt(@, i, s)]
  BY DEF CreateFile
<1>3. /\ UNCHANGED <<managers, mapKey, dir, snapshot, phase, pi, again>>
      /\ crowded \subseteq crowded'
      /\ \A n \in Managers : managers[PendingKey(dir[m])] = n /\ n # m => n \in crowded'
      /\ pi[m] # "none" /\ file[m] = None
  BY DEF CreateFile
<1>4. \A n \in Managers : ~Made(n)' => snapshot'[n] = None
  BY <1>3 DEF RouteInv, RouteInStep, Made
<1>5. /\ \A n \in Managers : n # m => file'[n] = file[n]
      /\ file'[m] = s
      /\ \A e \in WorkDirs : e # dir[m] => files'[e] = files[e]
      /\ files'[dir[m]] = InsertAt(files[dir[m]], i, s)
      /\ files[dir[m]] \in Seq(Stems)
  <2> DEFINE g == InsertAt(files[dir[m]], i, s)
  <2>1. files' = [files EXCEPT ![dir[m]] = g]
    BY <1>2
  <2> HIDE DEF g
  <2>2. files'[dir[m]] = g /\ \A e \in WorkDirs : e # dir[m] => files'[e] = files[e]
    BY <1>1, <2>1 DEF TypeOK
  <2> QED
    BY <1>1, <1>2, <2>2 DEF TypeOK, g
<1>6. Range(files'[dir[m]]) \subseteq Range(files[dir[m]]) \union {s}
  BY <1>2, <1>5, OnlyInserted
<1>7. ASSUME m \notin again
      PROVE  RouteOf(m)'
  <2>1. RouteOf(m)
    BY <1>7 DEF RouteInv, RouteInStep
  <2>2. ASSUME m \notin crowded', NEW d \in WorkDirs, managers[PendingKey(d)] = m
        PROVE  Candidates(m)' \subseteq {s}
    <3>1. dir[m] = d /\ Candidates(m) \subseteq {None}
      BY <1>3, <2>1, <2>2 DEF RouteOf
    <3>2. Range(files[dir[m]]) \subseteq Stems
      BY <1>5 DEF Range
    <3>3. None \notin Stems
      BY DEF Keys
    <3> QED
      BY <1>3, <1>6, <3>1, <3>2, <3>3 DEF Candidates
  <2>3. mapKey[m] \notin Stems
    BY <1>3, <2>1 DEF RouteOf, Keys
  <2>4. \A t \in Stems : managers[t] = m /\ pi[m] = "running" => m \in crowded
    BY <1>3, <2>1 DEF RouteOf, Keys
  <2> QED
    BY <1>3, <1>5, <2>1, <2>2, <2>3, <2>4 DEF RouteOf
<1>8. ASSUME NEW n \in Managers, n # m, n \notin again
      PROVE  RouteOf(n)'
  <2>1. RouteOf(n)
    BY <1>8 DEF RouteInv, RouteInStep
  <2>2. ASSUME NEW d \in WorkDirs, managers[PendingKey(d)] = n, n \notin crowded'
        PROVE  Candidates(n)' = Candidates(n)
    <3>1. dir[n] = d /\ d # dir[m]
      BY <1>3, <1>8, <2>1, <2>2 DEF RouteOf
    <3> QED
      BY <1>3, <1>5, <3>1 DEF Candidates
  <2> QED
    BY <1>3, <1>5, <1>8, <2>1, <2>2, LeftAlone
<1> QED
  BY <1>3, <1>4, <1>7, <1>8 DEF RouteInStep

(* A migration moves a manager from its pending key to its own file, when   *)
(* it is not crowded; otherwise it moves again.                             *)
LEMMA MigratingKeepsRoutes ==
    ASSUME RouteInv, NEW m \in Managers, NEW k \in PendingKeys, Migrate(m, k),
           UNCHANGED <<objects, processes, files, crowded>>
    PROVE  RouteInStep'
<1> USE NamesAssumption, PendingKeysDiffer DEF objects, processes
<1>1. SessionInv /\ TypeOK /\ k \in Keys
  BY DEF RouteInv, SessionInv, Keys
<1>2. \A n \in Managers : ~Made(n)' => snapshot'[n] = None
  BY DEF RouteInv, RouteInStep, Made
<1>3. \A n \in Managers : Candidates(n)' = Candidates(n)
  BY DEF Candidates
<1>4. again \subseteq again' /\ (managers' # managers /\ managers[k] # m => m \in again')
  BY DEF Migrate
<1>5. ASSUME NEW n \in Managers, n \notin again', \A j \in Keys : managers'[j] = n => managers[j] = n
      PROVE  RouteOf(n)'
  <2>1. RouteOf(n)
    BY <1>4, <1>5 DEF RouteInv, RouteInStep
  <2> QED
    BY <1>3, <1>5, <2>1, LeftAlone
<1>6. CASE managers' = managers
  BY <1>2, <1>5, <1>6 DEF RouteInStep
<1>7. CASE managers' # managers
  <2>1. PICK stem \in Stems :
          /\ IsNewest(m, stem)
          /\ managers' = [managers EXCEPT ![k] = None, ![stem] = m]
    BY <1>7 DEF Migrate
  <2>2. /\ managers'[k] = None /\ managers'[stem] = m
        /\ \A j \in Keys : j \notin {k, stem} => managers'[j] = managers[j]
        /\ stem \in Keys /\ stem # k
    BY <1>1, <2>1 DEF TypeOK, Keys
  <2>3. ASSUME m \notin again'
        PROVE  RouteOf(m)'
    <3>1. managers[k] = m /\ RouteOf(m)
      BY <1>4, <1>7, <2>3 DEF RouteInv, RouteInStep
    <3>2. \A j \in Keys : managers'[j] = m => j = stem
      BY <2>2, <3>1 DEF RouteOf
    <3>3. PICK d \in WorkDirs : k = PendingKey(d)
      OBVIOUS
    <3>4. /\ pi[m] = "running" /\ mapKey[m] = k
          /\ m \in crowded \/ Candidates(m) \subseteq {file[m]}
      BY <3>1, <3>3 DEF RouteOf
    <3>5. file[m] = stem \/ m \in crowded
      BY <2>1, <3>4 DEF IsNewest
    <3>6. phase[m] = "live"
      BY <1>1, <3>4 DEF TypeOK
    <3>7. \A e \in WorkDirs : managers'[PendingKey(e)] # m
      BY <3>2 DEF Keys
    <3>8. \A t \in Stems : managers'[t] = m => t = stem
      BY <3>2 DEF Keys
    <3>9. mapKey[m] \notin Stems
      BY <3>4
    <3> QED
      BY <3>2, <3>4, <3>5, <3>6, <3>7, <3>8, <3>9 DEF RouteOf
  <2>4. \A n \in Managers, j \in Keys : n # m /\ managers'[j] = n => managers[j] = n
    BY <2>2
  <2> QED
    BY <1>2, <1>5, <2>3, <2>4 DEF RouteInStep
<1> QED
  BY <1>6, <1>7

(* A step that leaves managers, objects, processes and files alone.         *)
LEMMA IdlingKeepsRoutes ==
    ASSUME RouteInv, UNCHANGED <<managers, objects, processes, files, history>>
    PROVE  RouteInStep'
<1>1. \A n \in Managers : Candidates(n)' = Candidates(n)
  BY DEF Candidates, objects, processes
<1>2. ASSUME NEW n \in Managers, n \notin again
      PROVE  RouteOf(n)'
  <2>1. RouteOf(n)
    BY <1>2 DEF RouteInv, RouteInStep
  <2> QED
    BY <1>1, <1>2, <2>1, LeftAlone DEF objects, processes, history
<1> QED
  BY <1>2 DEF RouteInv, RouteInStep, Made, objects, processes, history

LEMMA RouteStep == RouteInv /\ [Next]_vars => RouteInv'
<1> SUFFICES ASSUME RouteInv, [Next]_vars
             PROVE  RouteInStep'
  BY StepInv DEF RouteInv
<1> USE DEF history
<1>1. SessionInv /\ SessionInv'
  BY StepInv DEF RouteInv
<1>2. ASSUME NEW k \in Keys, CommandMakes(k) \/ QueryMakes(k)
      PROVE  RouteInStep'
  BY <1>1, <1>2, MakingKeepsRoutes DEF CommandMakes, QueryMakes
<1>3. ASSUME NEW m \in Managers, CommandWakes(m)
      PROVE  RouteInStep'
  BY <1>1, <1>3, WakingKeepsRoutes
<1>4. ASSUME NEW m \in Managers, CreateFile(m)
      PROVE  RouteInStep'
  BY <1>1, <1>4, CreatingKeepsRoutes
<1>5. ASSUME NEW m \in Managers, StateFrame(m)
      PROVE  RouteInStep'
  <2>1. CASE UNCHANGED <<managers, holder, again>>
    BY <1>5, <2>1, IdlingKeepsRoutes DEF StateFrame
  <2>2. ASSUME NEW k \in KeysOf(m) \intersect PendingKeys, Migrate(m, k)
        PROVE  RouteInStep'
    BY <1>1, <1>5, <2>2, MigratingKeepsRoutes DEF StateFrame
  <2> QED
    BY <1>5, <2>1, <2>2 DEF StateFrame, OnSessionState
<1>6. ASSUME NEW m \in Managers, OtherFrame(m)
      PROVE  RouteInStep'
  <2>1. CASE UNCHANGED <<managers, holder, again>>
    BY <1>6, <2>1, IdlingKeepsRoutes DEF OtherFrame
  <2>2. CASE mapKey[m] \in PendingKeys /\ Migrate(m, mapKey[m])
    BY <1>1, <1>6, <2>2, MigratingKeepsRoutes DEF OtherFrame
  <2> QED
    BY <1>6, <2>1, <2>2 DEF OtherFrame, OnOtherFrame
<1>7. ASSUME NEW m \in Managers, Exit(m) \/ Crash(m) \/ LetGo(m)
      PROVE  RouteInStep'
  <2>1. Made(m) /\ OnExited(m) /\ TypeOK
    BY <1>1, <1>7, AddressedIsMade DEF Exit, Crash, LetGo, SessionInv
  <2>2. UNCHANGED <<mapKey, dir, files, history>>
    BY <1>7 DEF Exit, Crash, LetGo, objects
  <2>3. \A n \in Managers \ {m} :
          snapshot'[n] = snapshot[n] /\ phase'[n] = phase[n] /\ pi'[n] = pi[n] /\ file'[n] = file[n]
    BY <1>7, <2>1 DEF Exit, Crash, LetGo, Spawn, TypeOK
  <2>4. ASSUME m \notin again, mapKey[m] \in Stems
        PROVE  file'[m] = mapKey[m]
    <3>1. CASE Crash(m)
      BY <2>1, <2>4, <3>1 DEF Crash, Spawn, Pinned, TypeOK
    <3>2. CASE Exit(m) \/ LetGo(m)
      <4>1. phase[m] = "live" /\ file' = file
        BY <3>2 DEF Exit, LetGo
      <4>2. pi[m] # "none"
        BY <2>1, <4>1 DEF TypeOK
      <4> QED
        BY <2>4, <4>1, <4>2 DEF RouteInv, RouteInStep, RouteOf
    <3> QED
      BY <1>7, <3>1, <3>2
  <2> QED
    BY <2>1, <2>2, <2>3, <2>4, LeavingKeepsRoutes
<1>8. ASSUME NEW m \in Managers, LostExit(m)
      PROVE  RouteInStep'
  <2>1. /\ UNCHANGED <<table, objects, snapshot, phase, file, files, history>>
        /\ pi[m] = "lost" /\ pi'[m] = "gone"
        /\ \A n \in Managers : n # m => pi'[n] = pi[n]
    BY <1>1, <1>8 DEF LostExit, SessionInv, TypeOK
  <2>2. \A n \in Managers : Candidates(n)' = Candidates(n)
    BY <2>1 DEF Candidates, objects
  <2>3. ASSUME NEW n \in Managers, n \notin again
        PROVE  RouteOf(n)'
    <3>1. RouteOf(n)
      BY <2>3 DEF RouteInv, RouteInStep
    <3>2. CASE n = m
      BY <2>1, <2>2, <3>1, <3>2 DEF RouteOf, table, objects
    <3>3. CASE n # m
      BY <2>1, <2>2, <3>1, <3>3, LeftAlone DEF table, objects
    <3> QED
      BY <3>2, <3>3
  <2> QED
    BY <2>1, <2>3 DEF RouteInv, RouteInStep, Made, objects
<1>9. ASSUME NEW d \in WorkDirs, WorkDirAdd(d) \/ WorkDirRemove(d)
      PROVE  RouteInStep'
  BY <1>9, IdlingKeepsRoutes DEF WorkDirAdd, WorkDirRemove, table
<1>10. CASE Stop
  <2>1. \A k \in Keys : managers'[k] = None
    BY <1>10 DEF Stop
  <2>2. \A m \in Managers, k \in Keys : managers'[k] # m
    BY <2>1, NamesAssumption
  <2>3. UNCHANGED <<objects, processes, files, history>>
    BY <1>10 DEF Stop
  <2>4. ASSUME NEW n \in Managers, n \notin again
        PROVE  RouteOf(n)'
    <3>1. RouteOf(n)
      BY <2>4 DEF RouteInv, RouteInStep
    <3>2. Candidates(n)' = Candidates(n)
      BY <2>3 DEF Candidates, objects, processes
    <3> QED
      BY <2>2, <2>3, <3>1, <3>2, LeftAlone DEF objects, processes
  <2> QED
    BY <2>3, <2>4 DEF RouteInv, RouteInStep, Made, objects, processes
<1>11. CASE UNCHANGED vars
  BY <1>11, IdlingKeepsRoutes DEF vars, table
<1> QED
  BY <1>2, <1>3, <1>4, <1>5, <1>6, <1>7, <1>8, <1>9, <1>10, <1>11 DEF Next

(* A command for a session reaches the pi that writes the session's file,   *)
(* for any number of managers, work dirs and sessions and whatever is on    *)
(* disk at the start, unless another pi created a file in the work dir      *)
(* while the manager waited for its own; and a manager whose pi has exited  *)
(* is no longer in the map.  Excepted are managers that have moved again    *)
(* after they had lost their pending key (tryPendingMigration).             *)
THEOREM CommandsReachTheirPi == Spec => []RoutedRight
<1>1. Init => RouteInStep
  <2> SUFFICES ASSUME Init
               PROVE  RouteInStep
    OBVIOUS
  <2>1. \A k \in Keys : managers[k] = None
    BY DEF Init
  <2>2. \A m \in Managers, k \in Keys : managers[k] # m
    BY <2>1, NamesAssumption
  <2>3. \A m \in Managers : snapshot[m] = None /\ mapKey[m] = None /\ pi[m] = "none"
    BY DEF Init
  <2> QED
    BY <2>2, <2>3, PendingKeysDiffer DEF RouteInStep, RouteOf, Keys
<1>2. RouteInv => RoutedRight
  <2> SUFFICES ASSUME RouteInv, NEW m \in Managers \ again
               PROVE  /\ \A s \in Stems : managers[s] = m /\ pi[m] = "running" =>
                            file[m] = s \/ m \in crowded
                      /\ m \in Mapped /\ phase[m] = "exited" => snapshot[m] = None
    BY DEF RoutedRight
  <2> QED
    BY DEF RouteInv, RouteInStep, RouteOf, Mapped
<1> QED
  BY <1>1, <1>2, InitInv, RouteStep, PTL DEF Spec, RouteInv

=============================================================================
