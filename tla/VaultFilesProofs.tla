-------------------------- MODULE VaultFilesProofs --------------------------
(***************************************************************************)
(* The files of a vault directory, for any number of processes, files,     *)
(* old vaults, write errors, deaths and power losses: no name ever has a   *)
(* torn file, and with one process that may force an init a commit that    *)
(* was reported after a directory sync that took place survives.           *)
(***************************************************************************)
EXTENDS VaultFiles, TLAPS

Dirs  == [Names -> Files \cup {0}]
Tasks == [kind: Kinds, name: Names, base: Files \cup {0}, file: Files \cup {0}, bak: 0 .. MaxBackups]

\* A process that wrote its temp file, and one that published it.
Written   == {"written", "synced", "published"}
Commits(p) == task[p].kind # "backup"

\* Numbers are given in order: nothing refers to a file that is not made yet.
FilesMade ==
  /\ \A d \in surviving : \A name \in Names : d[name] <= made
  /\ \A p \in Processes : task[p].base <= made /\ Mine(p) <= made
  /\ \A f \in Files : f > made => holds[f] = {}

\* What a process works at, and that its file is what it should be.
Fits(p) ==
  /\ task[p].kind = "save" => task[p].name = Vault /\ task[p].base # 0
  /\ task[p].kind = "create" => task[p].name = Vault /\ task[p].base = 0
  /\ task[p].kind = "backup" => task[p].name = Out
  /\ pc[p] # "idle" => task[p].kind # "none"
  /\ pc[p] = "renaming" => task[p].kind = "create"
  /\ pc[p] \in Written => Mine(p) # 0
  /\ pc[p] \in {"synced", "published"} => Mine(p) \in sound
  /\ pc[p] \in Written /\ Commits(p) =>
       /\ Mine(p) \in holds[Mine(p)]
       /\ task[p].base # 0 => holds[task[p].base] \subseteq holds[Mine(p)]
TaskFits == \A p \in Processes : Fits(p)

\* Until a save renames its file, what it read is still at the name, or a forced init
\* took it away.
SaveSees == \A p \in Processes :
  pc[p] \in {"written", "synced"} /\ task[p].kind = "save" =>
    dir[Vault] \in {task[p].base, 0} \/ holds[dir[Vault]] = {}

\* What was published is still there when the operation returns.
PublishedKept == \A p \in Processes :
  pc[p] = "published" /\ Commits(p) =>
    \E name \in Names \ {Out} : dir[name] = Mine(p)

\* The bak.n a forced init picked is still free: there is nobody else to take it.
OneForces == \A p, q \in Forcing : p = q
BakFree == \A p \in Processes :
  pc[p] = "renaming" =>
    p \in Forcing /\ task[p].bak \in 1 .. MaxBackups /\ ~Exists(Bak(task[p].bak))

USE ForcingAssumption, SyncAssumption, NobodyAssumption, BoundsAssumption

LEMMA NamesApart ==
  /\ Vault \in Names /\ Out \in Names /\ Vault # Out
  /\ \A n \in 1 .. MaxBackups : Bak(n) \in Names /\ Bak(n) # Vault /\ Bak(n) # Out
<1>1. Vault # Out
  BY DEF Vault, Out
<1>2. ASSUME NEW n \in 1 .. MaxBackups
      PROVE  Bak(n) \in Names /\ Bak(n) # Vault /\ Bak(n) # Out
  <2>1. Bak(n) \in Baks
    BY DEF Baks
  <2> QED
    BY <2>1 DEF Names, Bak, Vault, Out
<1> QED
  BY <1>1, <1>2 DEF Names

LEMMA NoTaskTyped ==
  /\ NoTask \in Tasks /\ NoTask.kind = "none" /\ NoTask.base = 0 /\ NoTask.file = 0
  BY NamesApart DEF NoTask, Tasks, Kinds

LEMMA TypeParts ==
  ASSUME TypeOK
  PROVE  /\ dir \in Dirs /\ dir \in surviving /\ surviving \subseteq Dirs
         /\ temps \subseteq Files /\ sound \subseteq Files /\ reported \subseteq Files \X BOOLEAN
         /\ holds \in [Files -> SUBSET Files]
         /\ made \in 0 .. MaxFiles /\ faults \in 0 .. MaxFaults
         /\ lock \in [Names -> Processes \cup {Nobody}]
         /\ pc \in [Processes -> Points] /\ task \in [Processes -> Tasks]
         /\ \A p \in Processes, name \in Names :
              lock[name] = p <=> pc[p] \in Locked /\ task[p].name = name
  BY DEF TypeOK, Dirs, Tasks

LEMMA TypeNext ==
  ASSUME dir' \in Dirs, dir' \in surviving', surviving' \subseteq Dirs,
         temps' \subseteq Files, sound' \subseteq Files, reported' \subseteq Files \X BOOLEAN,
         holds' \in [Files -> SUBSET Files],
         made' \in 0 .. MaxFiles, faults' \in 0 .. MaxFaults,
         lock' \in [Names -> Processes \cup {Nobody}],
         pc' \in [Processes -> Points], task' \in [Processes -> Tasks],
         \A p \in Processes, name \in Names :
           lock'[name] = p <=> pc'[p] \in Locked /\ task'[p].name = name
  PROVE  TypeOK'
  BY DEF TypeOK, Dirs, Tasks

\* The common ends of the actions.
LEMMA BeginType ==
  ASSUME TypeOK, NEW p \in Processes, NEW point \in {"ready", "renaming"}, NEW t \in Tasks,
         Begin(p, point, t)
  PROVE  TypeOK'
<1>1. pc' \in [Processes -> Points] /\ task' \in [Processes -> Tasks]
  BY TypeParts DEF Begin, Points
<1>2. \A q \in Processes, name \in Names :
        lock'[name] = q <=> pc'[q] \in Locked /\ task'[q].name = name
  BY TypeParts DEF Begin, Locked
<1> QED
  BY <1>1, <1>2, TypeParts, TypeNext DEF Begin

LEMMA ReturnType ==
  ASSUME TypeOK, NEW p \in Processes, NEW left \in SUBSET Files, Return(p, left)
  PROVE  /\ temps' \subseteq Files /\ pc' \in [Processes -> Points] /\ task' \in [Processes -> Tasks]
         /\ lock' \in [Names -> Processes \cup {Nobody}]
         /\ \A q \in Processes, name \in Names :
              lock'[name] = q <=> pc'[q] \in Locked /\ task'[q].name = name
  BY TypeParts, NoTaskTyped DEF Return, Points, Locked

LEMMA RecordsTyped ==
  ASSUME NEW name \in Names, NEW base \in Files \cup {0}
  PROVE  /\ [NoTask EXCEPT !.kind = "save", !.base = base] \in Tasks
         /\ [NoTask EXCEPT !.kind = "create"] \in Tasks
         /\ \A n \in 1 .. MaxBackups : [NoTask EXCEPT !.kind = "create", !.bak = n] \in Tasks
         /\ [NoTask EXCEPT !.kind = "backup", !.name = name, !.base = base] \in Tasks
<1>1. \A kind \in Kinds : [NoTask EXCEPT !.kind = kind] \in Tasks
  BY NoTaskTyped DEF Tasks
<1>2. \A t \in Tasks :
        /\ [t EXCEPT !.base = base] \in Tasks
        /\ [t EXCEPT !.name = name] \in Tasks
        /\ \A n \in 1 .. MaxBackups : [t EXCEPT !.bak = n] \in Tasks
  BY DEF Tasks
<1>3. "save" \in Kinds /\ "create" \in Kinds /\ "backup" \in Kinds
  BY DEF Kinds
<1> QED
  BY <1>1, <1>2, <1>3

\* The records an operation starts with.
LEMMA StartTyped ==
  ASSUME TypeOK
  PROVE  /\ [NoTask EXCEPT !.kind = "save", !.base = dir[Vault]] \in Tasks
         /\ [NoTask EXCEPT !.kind = "create"] \in Tasks
         /\ \A n \in 1 .. MaxBackups : [NoTask EXCEPT !.kind = "create", !.bak = n] \in Tasks
         /\ [NoTask EXCEPT !.kind = "backup", !.name = Out, !.base = dir[Vault]] \in Tasks
<1>1. dir[Vault] \in Files \cup {0}
  BY TypeParts, NamesApart DEF Dirs
<1> QED
  BY <1>1, NamesApart, NoTaskTyped, RecordsTyped

LEMMA TypeKept == TypeOK /\ TaskFits /\ [Next]_vars => TypeOK'
<1> SUFFICES ASSUME TypeOK, TaskFits, [Next]_vars PROVE TypeOK'
  OBVIOUS
<1>1. CASE UNCHANGED vars
  BY <1>1, TypeParts, TypeNext DEF vars
<1>2. ASSUME NEW p \in Processes, StartSave(p) \/ StartCreate(p) \/ StartForcedInit(p) \/ StartBackup(p)
      PROVE  TypeOK'
  BY <1>2, StartTyped, BeginType DEF StartSave, StartCreate, StartForcedInit, StartBackup
<1>3. ASSUME NEW p \in Processes, RenameAway(p)
      PROVE  TypeOK'
  <2>1. dir' \in Dirs
    BY <1>3, TypeParts, NamesApart DEF RenameAway, Dirs
  <2>2. pc' \in [Processes -> Points]
    BY <1>3, TypeParts DEF RenameAway, Points
  <2>3. \A q \in Processes, name \in Names :
          lock'[name] = q <=> pc'[q] \in Locked /\ task'[q].name = name
    BY <1>3, TypeParts DEF RenameAway, Locked
  <2> QED
    BY <1>3, <2>1, <2>2, <2>3, TypeParts, TypeNext DEF RenameAway
<1>4. ASSUME NEW p \in Processes, TakeLock(p)
      PROVE  TypeOK'
  <2>1. Target(p) \in Names /\ pc[p] = "ready" /\ lock[Target(p)] = Nobody
    BY <1>4, TypeParts DEF TakeLock, Target, Tasks
  <2>2. pc' \in [Processes -> Points] /\ lock' \in [Names -> Processes \cup {Nobody}]
    BY <1>4, TypeParts DEF TakeLock, Points
  <2>3. \A q \in Processes, name \in Names :
          lock'[name] = q <=> pc'[q] \in Locked /\ task'[q].name = name
    BY <1>4, <2>1, TypeParts DEF TakeLock, Locked, Target
  <2> QED
    BY <1>4, <2>2, <2>3, TypeParts, TypeNext DEF TakeLock
<1>5. ASSUME NEW p \in Processes, NEW left \in SUBSET Files, Return(p, left), sound' = sound,
             dir' = dir, surviving' \in {surviving, {dir}}, holds' = holds, made' = made,
             reported' \subseteq Files \X BOOLEAN, faults' \in 0 .. MaxFaults
      PROVE  TypeOK'
  BY <1>5, ReturnType, TypeParts, TypeNext
<1>6. ASSUME NEW p \in Processes, Refuse(p) \/ WriteFails(p) \/ Die(p)
      PROVE  TypeOK'
  <2>1. Left(p) \in SUBSET Files /\ temps \in SUBSET Files
    BY TypeParts DEF Left
  <2> QED
    BY <1>5, <1>6, <2>1, TypeParts DEF Refuse, WriteFails, Die
<1>7. ASSUME NEW p \in Processes, WriteTemp(p)
      PROVE  TypeOK'
  <2>1. /\ made' \in 1 .. MaxFiles /\ made' \in Files /\ pc[p] = "locked"
        /\ task[p].base # 0 => task[p].base \in Files
    BY <1>7, TypeParts DEF WriteTemp, Files, Tasks
  <2>2. holds' \in [Files -> SUBSET Files]
    BY <1>7, <2>1, TypeParts DEF WriteTemp
  <2>3. pc' \in [Processes -> Points] /\ task' \in [Processes -> Tasks]
    BY <1>7, <2>1, TypeParts DEF WriteTemp, Points, Tasks
  <2>4. \A q \in Processes : task'[q].name = task[q].name
    BY <1>7, TypeParts DEF WriteTemp, Tasks
  <2>5. \A q \in Processes : pc'[q] \in Locked <=> pc[q] \in Locked
    BY <1>7, <2>1, TypeParts DEF WriteTemp, Locked
  <2> QED
    BY <1>7, <2>1, <2>2, <2>3, <2>4, <2>5, TypeParts, TypeNext DEF WriteTemp
<1>8. ASSUME NEW p \in Processes, SyncTemp(p) \/ Publish(p)
      PROVE  TypeOK'
  <2>1. pc[p] \in Written /\ (pc[p] \in Locked /\ Target(p) \in Names)
    BY <1>8, TypeParts DEF SyncTemp, Publish, Written, Locked, Target, Tasks
  <2>2. pc' \in [Processes -> Points] /\ \A q \in Processes : pc'[q] \in Locked <=> pc[q] \in Locked
    BY <1>8, <2>1, TypeParts DEF SyncTemp, Publish, Locked, Points
  <2>3. Mine(p) \in Files \cup {0}
    BY TypeParts DEF Mine, Tasks
  <2>4. dir' \in Dirs
    BY <1>8, <2>1, <2>3, TypeParts DEF SyncTemp, Publish, Dirs
  <2>5. dir' \in surviving' /\ surviving' \subseteq Dirs
    BY <1>8, <2>4, TypeParts DEF SyncTemp, Publish, FsyncDir
  <2>6. temps' \subseteq Files /\ sound' \subseteq Files
    BY <1>8, <2>1, <2>3, TypeParts DEF SyncTemp, Publish, TaskFits, Fits
  <2>7. \A q \in Processes, name \in Names :
          lock'[name] = q <=> pc'[q] \in Locked /\ task'[q].name = name
    BY <1>8, <2>2, TypeParts DEF SyncTemp, Publish
  <2> QED
    BY <1>8, <2>2, <2>4, <2>5, <2>6, <2>7, TypeParts, TypeNext DEF SyncTemp, Publish
<1>9. ASSUME NEW p \in Processes, Finish(p)
      PROVE  TypeOK'
  <2>1. temps \ {Mine(p)} \in SUBSET Files /\ surviving' \in {surviving, {dir}}
    BY <1>9, TypeParts DEF Finish, FsyncDir
  <2>2. Mine(p) \in Files
    BY <1>9, TypeParts DEF Finish, Mine, Tasks, TaskFits, Fits, Written
  <2>3. reported' \subseteq Files \X BOOLEAN
    BY <1>9, <2>2, TypeParts DEF Finish, Report
  <2> QED
    BY <1>5, <1>9, <2>1, <2>3, TypeParts DEF Finish
<1>10. ASSUME NEW name \in {Vault, Out}, External(name)
       PROVE  TypeOK'
  <2>1. made' \in 1 .. MaxFiles /\ made' \in Files
    BY <1>10, TypeParts DEF External, Files
  <2>2. dir' \in Dirs
    BY <1>10, <2>1, NamesApart, TypeParts DEF External, Dirs
  <2>3. dir' \in surviving' /\ surviving' \subseteq Dirs
    BY <1>10, <2>2, TypeParts DEF External
  <2>4. sound' \subseteq Files /\ made' \in 0 .. MaxFiles
    BY <1>10, <2>1, TypeParts DEF External
  <2> QED
    BY <1>10, <2>2, <2>3, <2>4, TypeParts, TypeNext DEF External
<1>11. CASE PowerLoss
  <2>1. pc' \in [Processes -> Points] /\ task' \in [Processes -> Tasks]
        /\ lock' \in [Names -> Processes \cup {Nobody}]
        /\ \A q \in Processes, name \in Names :
             lock'[name] = q <=> pc'[q] \in Locked /\ task'[q].name = name
    BY <1>11, NoTaskTyped DEF PowerLoss, Points, Locked
  <2> QED
    BY <1>11, <2>1, TypeParts, TypeNext DEF PowerLoss
<1> QED
  BY <1>1, <1>2, <1>3, <1>4, <1>6, <1>7, <1>8, <1>9, <1>10, <1>11 DEF Next

\* What the records an operation starts with say.
LEMMA RecordFields ==
  ASSUME NEW name, NEW base
  PROVE  /\ LET t == [NoTask EXCEPT !.kind = "save", !.base = base] IN
              t.kind = "save" /\ t.name = Vault /\ t.base = base /\ t.file = 0
         /\ LET t == [NoTask EXCEPT !.kind = "create"] IN
              t.kind = "create" /\ t.name = Vault /\ t.base = 0 /\ t.file = 0
         /\ \A n : LET t == [NoTask EXCEPT !.kind = "create", !.bak = n] IN
              t.kind = "create" /\ t.name = Vault /\ t.base = 0 /\ t.file = 0 /\ t.bak = n
         /\ LET t == [NoTask EXCEPT !.kind = "backup", !.name = name, !.base = base] IN
              t.kind = "backup" /\ t.name = name /\ t.base = base /\ t.file = 0
BY DEF NoTask

\* What a step does to a process's place and task.
LEMMA Starts ==
  ASSUME TypeOK, NEW p \in Processes,
         StartSave(p) \/ StartCreate(p) \/ StartForcedInit(p) \/ StartBackup(p)
  PROVE  /\ UNCHANGED <<dir, surviving, temps, sound, holds, made, lock, reported, faults>>
         /\ pc[p] = "idle" /\ \A q \in Processes \ {p} : pc'[q] = pc[q] /\ task'[q] = task[q]
         /\ task'[p].file = 0 /\ task'[p].base \in {0, dir[Vault]}
         /\ pc'[p] = "renaming" => p \in Forcing /\ task'[p].kind = "create"
                                   /\ task'[p].bak \in 1 .. MaxBackups /\ ~Exists(Bak(task'[p].bak))
         /\ pc'[p] \in {"ready", "renaming"}
         /\ \/ task'[p].kind = "save" /\ task'[p].name = Vault /\ task'[p].base # 0
            \/ task'[p].kind = "create" /\ task'[p].name = Vault /\ task'[p].base = 0
            \/ task'[p].kind = "backup" /\ task'[p].name = Out
<1>1. ASSUME NEW point, NEW t, Begin(p, point, t)
      PROVE  /\ UNCHANGED <<dir, surviving, temps, sound, holds, made, lock, reported, faults>>
             /\ pc[p] = "idle" /\ \A q \in Processes \ {p} : pc'[q] = pc[q] /\ task'[q] = task[q]
             /\ pc'[p] = point /\ task'[p] = t
  BY <1>1, TypeParts DEF Begin
<1>2. CASE StartSave(p)
  <2> DEFINE t == [NoTask EXCEPT !.kind = "save", !.base = dir[Vault]]
  <2>1. Begin(p, "ready", t) /\ dir[Vault] # 0
    BY <1>2 DEF StartSave, Exists
  <2>2. t.kind = "save" /\ t.name = Vault /\ t.base = dir[Vault] /\ t.file = 0
    BY RecordFields
  <2> HIDE DEF t
  <2> QED
    BY <1>1, <2>1, <2>2
<1>3. CASE StartCreate(p)
  <2> DEFINE t == [NoTask EXCEPT !.kind = "create"]
  <2>1. Begin(p, "ready", t)
    BY <1>3 DEF StartCreate, Exists
  <2>2. t.kind = "create" /\ t.name = Vault /\ t.base = 0 /\ t.file = 0
    BY RecordFields
  <2> HIDE DEF t
  <2> QED
    BY <1>1, <2>1, <2>2
<1>4. CASE StartForcedInit(p)
  <2>1. PICK n \in 1 .. MaxBackups :
          ~Exists(Bak(n)) /\ Begin(p, "renaming", [NoTask EXCEPT !.kind = "create", !.bak = n])
    BY <1>4 DEF StartForcedInit
  <2>2. p \in Forcing
    BY <1>4 DEF StartForcedInit
  <2> QED
    <3> DEFINE t == [NoTask EXCEPT !.kind = "create", !.bak = n]
    <3>1. t.kind = "create" /\ t.name = Vault /\ t.base = 0 /\ t.file = 0 /\ t.bak = n
      BY RecordFields
    <3>2. Begin(p, "renaming", t)
      BY <2>1
    <3> HIDE DEF t
    <3> QED
      BY <1>1, <2>1, <2>2, <3>1, <3>2
<1>5. CASE StartBackup(p)
  <2> DEFINE t == [NoTask EXCEPT !.kind = "backup", !.name = Out, !.base = dir[Vault]]
  <2>1. Begin(p, "ready", t)
    BY <1>5 DEF StartBackup, Exists
  <2>2. t.kind = "backup" /\ t.name = Out /\ t.base = dir[Vault] /\ t.file = 0
    BY RecordFields
  <2> HIDE DEF t
  <2> QED
    BY <1>1, <2>1, <2>2
<1> QED
  BY <1>2, <1>3, <1>4, <1>5

LEMMA Returned ==
  ASSUME TypeOK, NEW p \in Processes, NEW left, Return(p, left)
  PROVE  /\ pc'[p] = "idle" /\ task'[p] = NoTask
         /\ \A q \in Processes \ {p} : pc'[q] = pc[q] /\ task'[q] = task[q]
BY TypeParts DEF Return

\* The report of a commit: nothing but the present directory survives a synced one.
NewReport(p) ==
  /\ Commits(p)
  /\ \E synced \in SyncOutcomes :
       /\ reported' = reported \cup {<<Mine(p), synced>>}
       /\ synced => surviving' = {dir}

\* The steps that return leave the files, and the directory as it is.
LEMMA Ends ==
  ASSUME TypeOK, NEW p \in Processes, Refuse(p) \/ WriteFails(p) \/ Die(p) \/ Finish(p)
  PROVE  /\ UNCHANGED <<dir, sound, holds, made>>
         /\ pc'[p] = "idle" /\ task'[p] = NoTask
         /\ \A q \in Processes \ {p} : pc'[q] = pc[q] /\ task'[q] = task[q]
         /\ surviving' \in {surviving, {dir}} /\ surviving' \subseteq surviving
         /\ reported' # reported => Finish(p) /\ NewReport(p)
<1>1. CASE Refuse(p) \/ WriteFails(p) \/ Die(p)
  BY <1>1, Returned DEF Refuse, WriteFails, Die
<1>2. CASE Finish(p)
  <2>1. PICK synced \in SyncOutcomes : surviving' = FsyncDir(synced) /\ Report(p, synced)
    BY <1>2 DEF Finish
  <2>2. UNCHANGED <<dir, sound, holds, made>> /\ Return(p, temps \ {Mine(p)})
    BY <1>2 DEF Finish
  <2>3. surviving' \in {surviving, {dir}} /\ surviving' \subseteq surviving
    BY <2>1, TypeParts DEF FsyncDir
  <2>4. reported' # reported => NewReport(p)
    BY <2>1 DEF Commits, Report, NewReport, FsyncDir
  <2> QED
    BY <1>2, <2>2, <2>3, <2>4, Returned
<1> QED
  BY <1>1, <1>2

LEMMA FilesKept ==
  ASSUME TypeOK, TaskFits, FilesMade, [Next]_vars
  PROVE  FilesMade'
<1>1. CASE UNCHANGED vars
  BY <1>1 DEF vars, FilesMade, Mine
<1>2. ASSUME NEW p \in Processes, StartSave(p) \/ StartCreate(p) \/ StartForcedInit(p) \/ StartBackup(p)
      PROVE  FilesMade'
  BY <1>2, Starts, TypeParts, NamesApart DEF FilesMade, Mine
<1>3. ASSUME NEW p \in Processes, RenameAway(p)
      PROVE  FilesMade'
  BY <1>3, TypeParts, NamesApart DEF RenameAway, FilesMade, Mine, Dirs
<1>4. ASSUME NEW p \in Processes, TakeLock(p) \/ SyncTemp(p)
      PROVE  FilesMade'
  BY <1>4, TypeParts DEF TakeLock, SyncTemp, FsyncDir, FilesMade, Mine
<1>5. ASSUME NEW p \in Processes, Refuse(p) \/ WriteFails(p) \/ Die(p) \/ Finish(p)
      PROVE  FilesMade'
  BY <1>5, Ends, NoTaskTyped, TypeParts DEF FilesMade, Mine
<1>6. ASSUME NEW p \in Processes, WriteTemp(p)
      PROVE  FilesMade'
  <2>1. /\ made' = made + 1 /\ UNCHANGED <<dir, surviving, reported>>
        /\ \A q \in Processes : task'[q].base = task[q].base /\ task'[q].file \in {task[q].file, made'}
        /\ \A f \in Files : f # made' => holds'[f] = holds[f]
    BY <1>6, TypeParts DEF WriteTemp, Tasks
  <2>2. made \in Nat /\ surviving \subseteq [Names -> Files \cup {0}] /\ reported \subseteq Files \X BOOLEAN
        /\ Files \subseteq Nat /\ \A q \in Processes : task[q].base \in Nat /\ task[q].file \in Nat
    BY TypeParts DEF Dirs, Files, Tasks
  <2>3. \A d \in surviving' : \A name \in Names : d[name] <= made'
    BY <2>1, <2>2 DEF FilesMade, Files
  <2>4. \A q \in Processes : task'[q].base <= made' /\ task'[q].file <= made'
    BY <2>1, <2>2 DEF FilesMade, Mine
  <2>5. \A f \in Files : f > made' => holds'[f] = {}
    BY <2>1, <2>2 DEF FilesMade
  <2> QED
    BY <2>3, <2>4, <2>5 DEF FilesMade, Mine
<1>7. ASSUME NEW p \in Processes, Publish(p)
      PROVE  FilesMade'
  BY <1>7, TypeParts DEF Publish, FilesMade, Mine, Dirs
<1>8. ASSUME NEW name \in {Vault, Out}, External(name)
      PROVE  FilesMade'
  <2>1. /\ made' = made + 1 /\ UNCHANGED <<reported, task, holds>>
        /\ \A d \in surviving' : d \in surviving \/ d = [dir EXCEPT ![name] = made']
    BY <1>8, TypeParts DEF External
  <2>2. made \in Nat /\ surviving \subseteq [Names -> Files \cup {0}] /\ reported \subseteq Files \X BOOLEAN
        /\ Files \subseteq Nat /\ dir \in surviving
        /\ \A q \in Processes : task[q].base \in Nat /\ task[q].file \in Nat
    BY TypeParts DEF Dirs, Files, Tasks
  <2>3. \A d \in surviving' : \A n \in Names : d[n] <= made'
    <3>1. \A d \in surviving : \A n \in Names : d[n] \in Nat /\ d[n] <= made
      BY <2>2 DEF FilesMade, Files
    <3>2. dir \in [Names -> Files \cup {0}] /\ \A n \in Names : dir[n] \in Nat /\ dir[n] <= made
      BY <2>2, <3>1
    <3>3. ASSUME NEW d \in surviving', NEW n \in Names PROVE d[n] <= made'
      <4>1. CASE d \in surviving
        BY <2>1, <2>2, <3>1, <4>1
      <4>2. CASE d = [dir EXCEPT ![name] = made']
        <5>1. d[n] \in {dir[n], made'}
          BY <2>2, <4>2
        <5> QED
          BY <2>1, <2>2, <3>2, <5>1
      <4> QED
        BY <2>1, <4>1, <4>2
    <3> QED
      BY <3>3
  <2> QED
    BY <2>1, <2>2, <2>3 DEF FilesMade, Mine
<1>9. CASE PowerLoss
  BY <1>9, TypeParts, NoTaskTyped DEF PowerLoss, FilesMade, Mine
<1> QED
  BY <1>1, <1>2, <1>3, <1>4, <1>5, <1>6, <1>7, <1>8, <1>9 DEF Next

\* A process that is left alone keeps its fit: files are only ever added to `sound`, and
\* what a made file holds does not change.
LEMMA FitsLeft ==
  ASSUME NEW p \in Processes, Fits(p), pc'[p] = pc[p], task'[p] = task[p], sound \subseteq sound',
         holds' = holds
  PROVE  Fits(p)'
  BY DEF Fits, Mine, Commits

LEMMA FitsDone ==
  ASSUME NEW p \in Processes, pc'[p] = "idle", task'[p] = NoTask
  PROVE  Fits(p)'
  BY NoTaskTyped DEF Fits, Mine, Commits, Written

LEMMA FitsKept ==
  ASSUME TypeOK, TaskFits, FilesMade, [Next]_vars
  PROVE  TaskFits'
<1>1. CASE UNCHANGED vars
  BY <1>1, FitsLeft DEF vars, TaskFits
<1>2. ASSUME NEW p \in Processes, StartSave(p) \/ StartCreate(p) \/ StartForcedInit(p) \/ StartBackup(p)
      PROVE  TaskFits'
  <2>1. Fits(p)'
    BY <1>2, Starts DEF Fits, Written
  <2> QED
    BY <1>2, <2>1, Starts, FitsLeft DEF TaskFits
<1>3. ASSUME NEW p \in Processes, RenameAway(p) \/ TakeLock(p)
      PROVE  TaskFits'
  <2>1. /\ UNCHANGED <<task, sound, holds>> /\ pc'[p] \in {"ready", "locked"} /\ pc[p] # "idle"
        /\ \A q \in Processes \ {p} : pc'[q] = pc[q]
    BY <1>3, TypeParts DEF RenameAway, TakeLock
  <2>2. Fits(p)'
    BY <2>1 DEF TaskFits, Fits, Written
  <2> QED
    BY <2>1, <2>2, FitsLeft DEF TaskFits
<1>4. ASSUME NEW p \in Processes, SyncTemp(p) \/ Publish(p)
      PROVE  TaskFits'
  <2>1. /\ UNCHANGED <<task, holds>> /\ pc'[p] \in {"synced", "published"} /\ pc[p] \in Written
        /\ \A q \in Processes \ {p} : pc'[q] = pc[q]
        /\ sound \subseteq sound'
    BY <1>4, TypeParts DEF SyncTemp, Publish, Written
  <2>2. Mine(p) \in sound'
    BY <1>4, TypeParts DEF TaskFits, SyncTemp, Publish, Fits
  <2>3. Fits(p)'
    BY <2>1, <2>2 DEF TaskFits, Fits, Written, Mine, Commits
  <2> QED
    BY <2>1, <2>3, FitsLeft DEF TaskFits
<1>5. ASSUME NEW p \in Processes, Refuse(p) \/ WriteFails(p) \/ Die(p) \/ Finish(p)
      PROVE  TaskFits'
  BY <1>5, Ends, FitsDone, FitsLeft DEF TaskFits
<1>6. ASSUME NEW p \in Processes, WriteTemp(p)
      PROVE  TaskFits'
  <2>1. /\ made' = made + 1 /\ made' \in Files /\ sound' = sound
        /\ pc[p] = "locked" /\ pc' = [pc EXCEPT ![p] = "written"]
        /\ task' = [task EXCEPT ![p].file = made']
        /\ \A f \in Files : f # made' => holds'[f] = holds[f]
        /\ holds'[made'] = (IF task[p].base = 0 THEN {} ELSE holds[task[p].base])
                           \cup (IF task[p].kind = "backup" THEN {} ELSE {made'})
    BY <1>6, TypeParts DEF WriteTemp, Files
  <2>2. /\ made \in Nat
        /\ \A q \in Processes : task[q].base \in 0 .. made /\ task[q].file \in 0 .. made
    BY TypeParts DEF FilesMade, Mine, Files, Tasks
  <2>3. \A q \in Processes : task[q].base # 0 => holds'[task[q].base] = holds[task[q].base]
    BY <2>1, <2>2 DEF Files
  <2>4. \A q \in Processes : task[q].file # 0 => holds'[task[q].file] = holds[task[q].file]
    BY <2>1, <2>2 DEF Files
  <2>5. ASSUME NEW q \in Processes \ {p} PROVE Fits(q)'
    <3>1. pc'[q] = pc[q] /\ task'[q] = task[q]
      BY <2>1, TypeParts
    <3> QED
      BY <2>1, <2>3, <2>4, <3>1 DEF TaskFits, Fits, Mine, Commits
  <2>6. Fits(p)'
    <3>1. /\ pc'[p] = "written" /\ task'[p].file = made' /\ task'[p].kind = task[p].kind
          /\ task'[p].name = task[p].name /\ task'[p].base = task[p].base
      BY <2>1, TypeParts DEF Tasks
    <3>2. made' # 0
      BY <2>1 DEF Files
    <3> QED
      BY <2>1, <2>2, <2>3, <3>1, <3>2 DEF TaskFits, Fits, Mine, Commits
  <2> QED
    BY <2>5, <2>6 DEF TaskFits
<1>7. ASSUME NEW name \in {Vault, Out}, External(name)
      PROVE  TaskFits'
  BY <1>7, FitsLeft DEF External, TaskFits
<1>8. CASE PowerLoss
  BY <1>8, FitsDone DEF PowerLoss, TaskFits
<1> QED
  BY <1>1, <1>2, <1>3, <1>4, <1>5, <1>6, <1>7, <1>8 DEF Next

\* How the directory changes: a file gets a name.
LEMMA NewName ==
  ASSUME TypeOK, TaskFits, [Next]_vars, ~PowerLoss, dir' # dir
  PROVE  \/ \E p \in Processes : RenameAway(p)
         \/ \E p \in Processes :
              /\ Publish(p) /\ Target(p) \in {Vault, Out} /\ dir' = [dir EXCEPT ![Target(p)] = Mine(p)]
              /\ Commits(p) => Target(p) = Vault
              /\ ~Commits(p) => Target(p) = Out
         \/ \E name \in {Vault, Out} :
              External(name) /\ dir' = [dir EXCEPT ![name] = made'] /\ dir[name] = 0
<1>1. ASSUME NEW p \in Processes, Publish(p)
      PROVE  /\ Target(p) \in {Vault, Out} /\ dir' = [dir EXCEPT ![Target(p)] = Mine(p)]
             /\ Commits(p) => Target(p) = Vault
             /\ ~Commits(p) => Target(p) = Out
  <2>1. task[p].kind \in Kinds /\ task[p].kind # "none"
    BY <1>1, TypeParts DEF Publish, Tasks, TaskFits, Fits
  <2> QED
    BY <1>1, <2>1 DEF Publish, Target, Commits, TaskFits, Fits, Kinds
<1>2. ASSUME NEW p \in Processes, StartSave(p) \/ StartCreate(p) \/ StartForcedInit(p) \/ StartBackup(p)
      PROVE  dir' = dir
  BY <1>2, Starts
<1>3. ASSUME NEW p \in Processes, Refuse(p) \/ WriteFails(p) \/ Die(p) \/ Finish(p)
      PROVE  dir' = dir
  BY <1>3, Ends
<1>4. ASSUME NEW p \in Processes, TakeLock(p) \/ WriteTemp(p) \/ SyncTemp(p)
      PROVE  dir' = dir
  BY <1>4 DEF TakeLock, WriteTemp, SyncTemp
<1>5. ASSUME NEW name \in {Vault, Out}, External(name)
      PROVE  dir' = [dir EXCEPT ![name] = made'] /\ dir[name] = 0
  BY <1>5 DEF External, Exists
<1> QED
  BY <1>1, <1>2, <1>3, <1>4, <1>5 DEF Next, vars

\* A name's lock has one holder.
LEMMA OneHolder ==
  ASSUME TypeOK, NEW p \in Processes, NEW q \in Processes, pc[p] \in Locked, pc[q] \in Locked,
         task[p].name = task[q].name
  PROVE  p = q
  BY TypeParts DEF Tasks

\* The steps after which a process is where it was, or new at that place.
LEMMA PlaceKept ==
  ASSUME TypeOK, [Next]_vars, NEW p \in Processes, pc'[p] \in Written
  PROVE  /\ ~PowerLoss /\ task'[p].kind = task[p].kind /\ task'[p].name = task[p].name
         /\ task'[p].base = task[p].base
         /\ \/ WriteTemp(p) /\ pc'[p] = "written"
            \/ SyncTemp(p) /\ pc'[p] = "synced" /\ task'[p] = task[p]
            \/ Publish(p) /\ pc'[p] = "published" /\ task'[p] = task[p]
            \/ pc'[p] = pc[p] /\ task'[p] = task[p]
<1>1. CASE UNCHANGED vars
  <2>1. pc'[p] \in Written /\ UNCHANGED <<pc, task>> /\ ~PowerLoss
    BY <1>1, TypeParts DEF vars, Written, PowerLoss
  <2> QED
    BY <2>1
<1>2. ASSUME NEW q \in Processes, StartSave(q) \/ StartCreate(q) \/ StartForcedInit(q) \/ StartBackup(q)
      PROVE  q # p /\ pc'[p] = pc[p] /\ task'[p] = task[p]
  BY <1>2, Starts DEF Written
<1>3. ASSUME NEW q \in Processes, Refuse(q) \/ WriteFails(q) \/ Die(q) \/ Finish(q)
      PROVE  q # p /\ pc'[p] = pc[p] /\ task'[p] = task[p]
  BY <1>3, Ends DEF Written
<1>4. ASSUME NEW q \in Processes, RenameAway(q) \/ TakeLock(q)
      PROVE  q # p /\ pc'[p] = pc[p] /\ task'[p] = task[p]
  BY <1>4, TypeParts DEF RenameAway, TakeLock, Written
<1>5. ASSUME NEW q \in Processes, WriteTemp(q)
      PROVE  IF q = p
               THEN /\ pc'[p] = "written" /\ task'[p].kind = task[p].kind
                    /\ task'[p].name = task[p].name /\ task'[p].base = task[p].base
               ELSE pc'[p] = pc[p] /\ task'[p] = task[p]
  BY <1>5, TypeParts DEF WriteTemp, Tasks
<1>6. ASSUME NEW q \in Processes, SyncTemp(q) \/ Publish(q)
      PROVE  /\ task'[p] = task[p]
             /\ q # p => pc'[p] = pc[p]
             /\ q = p => (SyncTemp(p) /\ pc'[p] = "synced") \/ (Publish(p) /\ pc'[p] = "published")
  BY <1>6, TypeParts DEF SyncTemp, Publish
<1>7. ASSUME NEW name \in {Vault, Out}, External(name)
      PROVE  pc'[p] = pc[p] /\ task'[p] = task[p]
  BY <1>7 DEF External
<1>8. ~PowerLoss
  BY DEF PowerLoss, Written
<1> QED
  BY <1>1, <1>2, <1>3, <1>4, <1>5, <1>6, <1>7, <1>8 DEF Next

\* What a file that has a name holds does not change.
LEMMA HoldsKept ==
  ASSUME TypeOK, FilesMade, [Next]_vars, NEW f \in Files, f <= made
  PROVE  holds'[f] = holds[f]
<1>1. ASSUME NEW p \in Processes, WriteTemp(p) PROVE holds'[f] = holds[f]
  <2>1. made \in Nat /\ holds \in [Files -> SUBSET Files] /\ f # made + 1
    BY TypeParts DEF Files
  <2> QED
    BY <1>1, <2>1 DEF WriteTemp
<1>2. ASSUME NEW p \in Processes, StartSave(p) \/ StartCreate(p) \/ StartForcedInit(p) \/ StartBackup(p)
      PROVE  holds' = holds
  BY <1>2, Starts
<1>3. ASSUME NEW p \in Processes, Refuse(p) \/ WriteFails(p) \/ Die(p) \/ Finish(p)
      PROVE  holds' = holds
  BY <1>3, Ends
<1>4. ASSUME NEW p \in Processes, RenameAway(p) \/ TakeLock(p) \/ SyncTemp(p) \/ Publish(p)
      PROVE  holds' = holds
  BY <1>4 DEF RenameAway, TakeLock, SyncTemp, Publish
<1>5. ASSUME NEW name \in {Vault, Out}, External(name) PROVE holds' = holds
  BY <1>5 DEF External
<1>6. CASE PowerLoss
  BY <1>6 DEF PowerLoss
<1> QED
  BY <1>1, <1>2, <1>3, <1>4, <1>5, <1>6 DEF Next, vars

LEMMA SeesKept ==
  ASSUME TypeOK, TaskFits, FilesMade, SaveSees, [Next]_vars
  PROVE  SaveSees'
<1> SUFFICES ASSUME NEW p \in Processes, pc'[p] \in {"written", "synced"}, task'[p].kind = "save"
             PROVE  dir'[Vault] \in {task'[p].base, 0} \/ holds'[dir'[Vault]] = {}
  BY DEF SaveSees
<1>1. /\ ~PowerLoss /\ task[p].kind = "save" /\ task'[p].base = task[p].base
      /\ \/ WriteTemp(p)
         \/ SyncTemp(p) /\ pc[p] = "written"
         \/ pc'[p] = pc[p]
  BY PlaceKept DEF Written, SyncTemp
<1>2. /\ pc[p] \in Locked /\ task[p].name = Vault
      /\ dir[Vault] \in {task[p].base, 0} \/ holds[dir[Vault]] = {}
  <2>1. CASE WriteTemp(p)
    BY <1>1, <2>1 DEF WriteTemp, MayProceed, TaskFits, Fits, Target, Locked
  <2>2. CASE ~WriteTemp(p)
    BY <1>1, <2>2 DEF SaveSees, TaskFits, Fits, Locked
  <2> QED
    BY <2>1, <2>2
<1>3. dir[Vault] \in Files \cup {0} /\ dir[Vault] <= made
  BY TypeParts, NamesApart DEF Dirs, FilesMade
<1>4. CASE dir' = dir
  BY <1>1, <1>2, <1>3, <1>4, HoldsKept
<1>5. ASSUME NEW q \in Processes, RenameAway(q)
      PROVE  dir'[Vault] = 0
  BY <1>5, TypeParts, NamesApart DEF RenameAway, Dirs
<1>6. ASSUME NEW q \in Processes, Publish(q), dir' = [dir EXCEPT ![Target(q)] = Mine(q)],
             Commits(q) => Target(q) = Vault, ~Commits(q) => Target(q) = Out
      PROVE  dir'[Vault] = dir[Vault]
  <2>1. q # p /\ pc[q] \in Locked
    BY <1>1, <1>6, TypeParts DEF Publish, WriteTemp, Locked
  <2>2. Target(q) # Vault
    BY <1>2, <2>1, OneHolder DEF Target
  <2> QED
    BY <1>6, <2>2, TypeParts DEF Dirs
<1>7. ASSUME NEW name \in {Vault, Out}, External(name), dir' = [dir EXCEPT ![name] = made'],
             dir[name] = 0
      PROVE  dir'[Vault] = dir[Vault] \/ holds'[dir'[Vault]] = {}
  <2>1. made \in Nat /\ made' = made + 1 /\ made' \in Files /\ holds' = holds
    BY <1>7, TypeParts DEF External, Files
  <2>2. holds[made'] = {}
    BY <2>1 DEF FilesMade
  <2> QED
    BY <1>7, <2>1, <2>2, TypeParts, NamesApart DEF Dirs
<1>8. dir'[Vault] = dir[Vault] \/ dir'[Vault] = 0 \/ holds'[dir'[Vault]] = {}
  BY <1>1, <1>4, <1>5, <1>6, <1>7, NewName
<1> QED
  BY <1>1, <1>2, <1>3, <1>8, HoldsKept

LEMMA BakKept ==
  ASSUME TypeOK, TaskFits, BakFree, OneForces, [Next]_vars
  PROVE  BakFree'
<1> SUFFICES ASSUME NEW p \in Processes, pc'[p] = "renaming"
             PROVE  p \in Forcing /\ task'[p].bak \in 1 .. MaxBackups /\ dir'[Bak(task'[p].bak)] = 0
  BY DEF BakFree, Exists
<1>1. CASE UNCHANGED vars
  BY <1>1 DEF vars, BakFree, Exists
<1>2. ASSUME NEW q \in Processes, StartSave(q) \/ StartCreate(q) \/ StartForcedInit(q) \/ StartBackup(q)
      PROVE  p \in Forcing /\ task'[p].bak \in 1 .. MaxBackups /\ dir'[Bak(task'[p].bak)] = 0
  BY <1>2, Starts DEF BakFree, Exists
<1>3. ASSUME NEW q \in Processes, Refuse(q) \/ WriteFails(q) \/ Die(q) \/ Finish(q)
      PROVE  q # p /\ pc'[p] = pc[p] /\ task'[p] = task[p] /\ dir' = dir
  BY <1>3, Ends
<1>4. ASSUME NEW q \in Processes, RenameAway(q)
      PROVE  FALSE
  BY <1>4, TypeParts DEF RenameAway, BakFree, OneForces
<1>5. ASSUME NEW q \in Processes, TakeLock(q) \/ WriteTemp(q) \/ SyncTemp(q)
      PROVE  q # p /\ pc'[p] = pc[p] /\ task'[p] = task[p] /\ dir' = dir
  BY <1>5, TypeParts DEF TakeLock, WriteTemp, SyncTemp
<1>6. ASSUME NEW q \in Processes, Publish(q)
      PROVE  pc'[p] = pc[p] /\ task'[p] = task[p]
  BY <1>6, TypeParts DEF Publish
<1>7. ASSUME NEW name \in {Vault, Out}, External(name)
      PROVE  pc'[p] = pc[p] /\ task'[p] = task[p]
  BY <1>7 DEF External
<1>8. ~PowerLoss
  BY DEF PowerLoss
<1>9. ASSUME NEW name \in {Vault, Out}, NEW f, dir' = [dir EXCEPT ![name] = f]
      PROVE  \A n \in 1 .. MaxBackups : dir'[Bak(n)] = dir[Bak(n)]
  BY <1>9, TypeParts, NamesApart DEF Dirs
<1>10. ASSUME pc'[p] = pc[p], task'[p] = task[p], \A q \in Processes : ~RenameAway(q)
       PROVE  p \in Forcing /\ task'[p].bak \in 1 .. MaxBackups /\ dir'[Bak(task'[p].bak)] = 0
  <2>1. p \in Forcing /\ task[p].bak \in 1 .. MaxBackups /\ dir[Bak(task[p].bak)] = 0
    BY <1>10 DEF BakFree, Exists
  <2>2. \A n \in 1 .. MaxBackups : dir'[Bak(n)] = dir[Bak(n)]
    BY <1>8, <1>9, <1>10, NewName
  <2> QED
    BY <1>10, <2>1, <2>2
<1> QED
  BY <1>1, <1>2, <1>3, <1>4, <1>5, <1>6, <1>7, <1>8, <1>10 DEF Next

\* A step other than a power loss takes no name from a file but to give it another one,
\* or to put a save in its place.
LEMMA NamesKept ==
  ASSUME TypeOK, TaskFits, BakFree, [Next]_vars, ~PowerLoss,
         NEW name \in Names \ {Out}, dir[name] # 0
  PROVE  \/ \E other \in Names \ {Out} : dir'[other] = dir[name]
         \/ \E p \in Processes :
              /\ Publish(p) /\ task[p].kind = "save" /\ name = Vault
              /\ dir' = [dir EXCEPT ![Vault] = Mine(p)]
<1>1. CASE dir' = dir
  BY <1>1
<1>2. ASSUME NEW p \in Processes, RenameAway(p)
      PROVE  \E other \in Names \ {Out} : dir'[other] = dir[name]
  <2>1. /\ Bak(task[p].bak) \in Names \ {Out, Vault} /\ dir[Bak(task[p].bak)] = 0
        /\ dir' = [dir EXCEPT ![Bak(task[p].bak)] = dir[Vault], ![Vault] = 0]
    BY <1>2, NamesApart DEF RenameAway, BakFree, Exists
  <2> QED
    BY <2>1, TypeParts, NamesApart DEF Dirs
<1>3. ASSUME NEW p \in Processes, Publish(p), dir' = [dir EXCEPT ![Target(p)] = Mine(p)],
             Commits(p) => Target(p) = Vault, ~Commits(p) => Target(p) = Out
      PROVE  \/ dir'[name] = dir[name]
             \/ /\ task[p].kind = "save" /\ name = Vault
                /\ dir' = [dir EXCEPT ![Vault] = Mine(p)]
  <2>1. CASE Target(p) # name
    BY <1>3, <2>1, TypeParts DEF Dirs
  <2>2. CASE Target(p) = name
    BY <1>3, <2>2 DEF Publish, Links, Exists, Commits
  <2> QED
    BY <2>1, <2>2
<1>4. ASSUME NEW n \in {Vault, Out}, dir' = [dir EXCEPT ![n] = made'], dir[n] = 0
      PROVE  dir'[name] = dir[name]
  BY <1>4, TypeParts DEF Dirs
<1> QED
  BY <1>1, <1>2, <1>3, <1>4, NewName

LEMMA KeptPublished ==
  ASSUME TypeOK, TaskFits, BakFree, PublishedKept, [Next]_vars
  PROVE  PublishedKept'
<1> SUFFICES ASSUME NEW p \in Processes, pc'[p] = "published", Commits(p)'
             PROVE  \E name \in Names \ {Out} : dir'[name] = Mine(p)'
  BY DEF PublishedKept
<1>1. /\ ~PowerLoss /\ Commits(p) /\ Mine(p)' = Mine(p)
      /\ Publish(p) \/ pc[p] = "published"
  BY PlaceKept DEF Written, Commits, Mine
<1>2. CASE Publish(p)
  <2>1. Target(p) = Vault /\ dir' = [dir EXCEPT ![Target(p)] = Mine(p)]
    <3>1. task[p].kind \in Kinds /\ task[p].kind # "none"
      BY <1>2, TypeParts DEF Publish, Tasks, TaskFits, Fits
    <3> QED
      BY <1>1, <1>2, <3>1 DEF Publish, Target, Commits, TaskFits, Fits, Kinds
  <2> QED
    BY <1>1, <2>1, TypeParts, NamesApart DEF Dirs
<1>3. CASE pc[p] = "published"
  <2>1. PICK name \in Names \ {Out} : dir[name] = Mine(p)
    BY <1>1, <1>3 DEF PublishedKept
  <2>2. dir[name] # 0
    BY <1>3, <2>1 DEF TaskFits, Fits, Written
  <2>3. ASSUME NEW q \in Processes, Publish(q), task[q].kind = "save" PROVE FALSE
    <3>1. task[q].name = Vault /\ pc[q] = "synced"
      BY <2>3 DEF Publish, TaskFits, Fits
    <3>2. task[p].name = Vault
      BY <1>1, <1>3, TypeParts DEF TaskFits, Fits, Commits, Tasks, Kinds
    <3>3. p # q /\ pc[p] \in Locked /\ pc[q] \in Locked
      BY <1>3, <3>1 DEF Locked
    <3> QED
      BY <3>1, <3>2, <3>3, OneHolder
  <2> QED
    BY <1>1, <2>1, <2>2, <2>3, NamesKept
<1> QED
  BY <1>1, <1>2, <1>3

Covered(d, c) == \E name \in Names \ {Out} : d[name] # 0 /\ c \in holds[d[name]]

LEMMA CoverKept ==
  ASSUME TypeOK, TaskFits, FilesMade, SaveSees, BakFree, [Next]_vars, ~PowerLoss,
         NEW c, Covered(dir, c)
  PROVE  Covered(dir, c)'
<1>1. PICK name \in Names \ {Out} : dir[name] # 0 /\ c \in holds[dir[name]]
  BY DEF Covered
<1>2. dir[name] \in Files /\ dir[name] <= made /\ holds'[dir[name]] = holds[dir[name]]
  BY <1>1, TypeParts, HoldsKept DEF Dirs, FilesMade
<1>3. ASSUME NEW other \in Names \ {Out}, dir'[other] = dir[name]
      PROVE  Covered(dir, c)'
  BY <1>1, <1>2, <1>3 DEF Covered
<1>4. ASSUME NEW p \in Processes, Publish(p), task[p].kind = "save", name = Vault,
             dir' = [dir EXCEPT ![Vault] = Mine(p)]
      PROVE  Covered(dir, c)'
  <2>1. task[p].base = dir[Vault] /\ holds' = holds
    BY <1>1, <1>4 DEF SaveSees, Publish
  <2>2. Mine(p) # 0 /\ holds[dir[Vault]] \subseteq holds[Mine(p)]
    BY <1>1, <1>4, <2>1 DEF TaskFits, Fits, Written, Commits, Publish
  <2>3. dir'[Vault] = Mine(p)
    BY <1>4, TypeParts, NamesApart DEF Dirs
  <2> QED
    BY <1>1, <1>4, <2>1, <2>2, <2>3, NamesApart DEF Covered
<1> QED
  BY <1>1, <1>3, <1>4, NamesKept

\* A directory that may survive the next step may survive now, or is the new one.
LEMMA Survivors ==
  ASSUME TypeOK, [Next]_vars
  PROVE  /\ surviving' \subseteq surviving \cup {dir'}
         /\ PowerLoss => dir' \in surviving /\ reported' = reported /\ holds' = holds
         /\ reported' # reported => \E p \in Processes : Finish(p) /\ NewReport(p)
<1>1. ASSUME NEW p \in Processes, StartSave(p) \/ StartCreate(p) \/ StartForcedInit(p) \/ StartBackup(p)
      PROVE  surviving' = surviving /\ reported' = reported
  BY <1>1, Starts
<1>2. ASSUME NEW p \in Processes, Refuse(p) \/ WriteFails(p) \/ Die(p) \/ Finish(p)
      PROVE  /\ surviving' \subseteq surviving
             /\ reported' # reported => Finish(p) /\ NewReport(p)
  BY <1>2, Ends
<1>3. ASSUME NEW p \in Processes, RenameAway(p) \/ TakeLock(p) \/ WriteTemp(p) \/ SyncTemp(p) \/ Publish(p)
      PROVE  surviving' \subseteq surviving \cup {dir'} /\ reported' = reported
  BY <1>3, TypeParts DEF RenameAway, TakeLock, WriteTemp, SyncTemp, Publish, FsyncDir
<1>4. ASSUME NEW name \in {Vault, Out}, External(name)
      PROVE  surviving' \subseteq surviving \cup {dir'} /\ reported' = reported
  BY <1>4 DEF External
<1>5. PowerLoss => /\ surviving' = {dir'} /\ dir' \in surviving
                   /\ reported' = reported /\ holds' = holds
  BY DEF PowerLoss
<1>6. CASE UNCHANGED vars
  BY <1>5, <1>6 DEF vars
<1>7. CASE Next
  BY <1>1, <1>2, <1>3, <1>4, <1>5, <1>7 DEF Next
<1> QED
  BY <1>6, <1>7

LEMMA PromiseKept ==
  ASSUME TypeOK, TaskFits, FilesMade, SaveSees, BakFree, PublishedKept,
         PromisedSurvives, [Next]_vars
  PROVE  PromisedSurvives'
<1> SUFFICES ASSUME NEW report \in reported', report[2], NEW d \in surviving'
             PROVE  \E name \in Names \ {Out} : d[name] # 0 /\ report[1] \in holds'[d[name]]
  BY DEF PromisedSurvives, Survives
<1> DEFINE c == report[1]
<1>1. CASE report \in reported /\ d \in surviving
  <2>1. PICK name \in Names \ {Out} : d[name] # 0 /\ c \in holds[d[name]]
    BY <1>1 DEF PromisedSurvives, Survives
  <2>2. d[name] \in Files /\ d[name] <= made
    BY <1>1, <2>1, TypeParts DEF Dirs, FilesMade
  <2> QED
    BY <2>1, <2>2, HoldsKept
<1>2. CASE report \in reported /\ d \notin surviving
  <2>1. d = dir' /\ ~PowerLoss
    BY <1>2, Survivors
  <2>2. Covered(dir, c)
    BY <1>2, TypeParts DEF PromisedSurvives, Survives, Covered
  <2> QED
    BY <2>1, <2>2, CoverKept DEF Covered
<1>3. CASE report \notin reported
  <2>1. PICK p \in Processes : Finish(p) /\ NewReport(p)
    BY <1>3, Survivors
  <2>2. PICK synced \in SyncOutcomes :
          reported' = reported \cup {<<Mine(p), synced>>} /\ (synced => surviving' = {dir})
    BY <2>1 DEF NewReport
  <2>3. c = Mine(p) /\ surviving' = {dir}
    BY <1>3, <2>2
  <2>4. holds' = holds /\ pc[p] = "published" /\ Commits(p)
    BY <2>1 DEF Finish, NewReport
  <2>5. PICK name \in Names \ {Out} : dir[name] = Mine(p)
    BY <2>4 DEF PublishedKept
  <2>6. Mine(p) # 0 /\ Mine(p) \in holds[Mine(p)]
    BY <2>4 DEF TaskFits, Fits, Written
  <2> QED
    BY <2>3, <2>4, <2>5, <2>6
<1> QED
  BY <1>1, <1>2, <1>3

LEMMA SoundKept ==
  ASSUME TypeOK, TaskFits, NoTornFile, [Next]_vars
  PROVE  NoTornFile'
<1>1. sound \subseteq sound'
  <2>1. ASSUME NEW p \in Processes, StartSave(p) \/ StartCreate(p) \/ StartForcedInit(p) \/ StartBackup(p)
        PROVE  sound' = sound
    BY <2>1, Starts
  <2>2. ASSUME NEW p \in Processes, Refuse(p) \/ WriteFails(p) \/ Die(p) \/ Finish(p)
        PROVE  sound' = sound
    BY <2>2, Ends
  <2> QED
    BY <2>1, <2>2 DEF Next, vars, RenameAway, TakeLock, WriteTemp, SyncTemp, Publish, External, PowerLoss
<1>2. ASSUME ~PowerLoss, dir' # dir, NEW name \in Names, dir'[name] # 0
      PROVE  dir'[name] \in sound'
  <2>1. \A n \in Names : dir[n] # 0 => dir[n] \in sound'
    BY <1>1, TypeParts DEF NoTornFile
  <2>2. ASSUME NEW p \in Processes, RenameAway(p)
        PROVE  dir'[name] \in {dir[name], dir[Vault], 0}
    BY <2>2, TypeParts DEF RenameAway, Dirs
  <2>3. ASSUME NEW p \in Processes, Publish(p), dir' = [dir EXCEPT ![Target(p)] = Mine(p)]
        PROVE  dir'[name] = dir[name] \/ dir'[name] \in sound'
    BY <1>1, <2>3, TypeParts DEF Publish, TaskFits, Fits, Dirs
  <2>4. ASSUME NEW n \in {Vault, Out}, External(n), dir' = [dir EXCEPT ![n] = made']
        PROVE  dir'[name] = dir[name] \/ dir'[name] \in sound'
    BY <2>4, TypeParts DEF External, Dirs
  <2> QED
    BY <1>2, <2>1, <2>2, <2>3, <2>4, NewName, NamesApart
<1> QED
  <2> SUFFICES ASSUME NEW d \in surviving', NEW name \in Names, d[name] # 0
               PROVE  d[name] \in sound'
    BY DEF NoTornFile
  <2>1. CASE d \in surviving
    BY <1>1, <2>1 DEF NoTornFile
  <2>2. CASE d \notin surviving
    <3>1. d = dir' /\ ~PowerLoss /\ dir' # dir
      BY <2>2, Survivors, TypeParts
    <3> QED
      BY <1>2, <3>1
  <2> QED
    BY <2>1, <2>2

-----------------------------------------------------------------------------
(* Theorems *)

\* The invariant that holds for any processes and any path.
FilesInv == TypeOK /\ TaskFits /\ FilesMade /\ SaveSees /\ NoTornFile

LEMMA InitFiles == Init => FilesInv /\ BakFree /\ PublishedKept /\ PromisedSurvives
<1> SUFFICES ASSUME Init PROVE FilesInv /\ BakFree /\ PublishedKept /\ PromisedSurvives
  OBVIOUS
<1>1. /\ dir = [name \in Names |-> 0] /\ surviving = {dir}
      /\ temps = {} /\ sound = {} /\ holds = [f \in Files |-> {}] /\ made = 0
      /\ lock = [name \in Names |-> Nobody]
      /\ pc = [p \in Processes |-> "idle"] /\ task = [p \in Processes |-> NoTask]
      /\ reported = {} /\ faults = 0
  BY DEF Init
<1>2. TypeOK
  <2>1. dir \in Dirs /\ holds \in [Files -> SUBSET Files]
    BY <1>1 DEF Dirs
  <2>2. /\ lock \in [Names -> Processes \cup {Nobody}]
        /\ pc \in [Processes -> Points] /\ task \in [Processes -> Tasks]
        /\ \A p \in Processes, name \in Names :
             lock[name] = p <=> pc[p] \in Locked /\ task[p].name = name
    BY <1>1, NoTaskTyped DEF Points, Locked
  <2> QED
    BY <1>1, <2>1, <2>2 DEF TypeOK, Dirs, Tasks
<1>3. TaskFits
  BY <1>1, NoTaskTyped DEF TaskFits, Fits, Written, Mine, Commits
<1>4. FilesMade /\ SaveSees /\ NoTornFile
  BY <1>1, NoTaskTyped DEF FilesMade, SaveSees, NoTornFile, Mine
<1>5. BakFree /\ PublishedKept /\ PromisedSurvives
  BY <1>1 DEF BakFree, PublishedKept, PromisedSurvives
<1> QED
  BY <1>2, <1>3, <1>4, <1>5 DEF FilesInv

LEMMA NextFiles == FilesInv /\ [Next]_vars => FilesInv'
  BY TypeKept, FitsKept, FilesKept, SeesKept, SoundKept DEF FilesInv

\* The invariant of the files holds in every reachable state.
THEOREM FilesAlways == Spec => []FilesInv
  BY InitFiles, NextFiles, PTL DEF Spec

\* Types, and that a lock is held exactly by the process that is inside its steps.
THEOREM FilesTyped == Spec => []TypeOK
  BY FilesAlways, PTL DEF FilesInv

\* For any number of processes, forced inits, faults and files, whether or not a
\* directory is really synced: no name ever points to a file that a power loss leaves torn.
THEOREM NeverTorn == Spec => []NoTornFile
  BY FilesAlways, PTL DEF FilesInv

LEMMA NextPromise ==
  ASSUME OneForces
  PROVE  FilesInv /\ BakFree /\ PublishedKept /\ PromisedSurvives /\ [Next]_vars
           => (BakFree /\ PublishedKept /\ PromisedSurvives)'
  BY PromiseKept, KeptPublished, BakKept DEF FilesInv

\* Whichever directory syncs take place and whichever report no error without one, and
\* with at most one process that may force an init: a commit reported after a sync that
\* took place survives every later power loss.
THEOREM SavedForGood ==
  ASSUME OneForces
  PROVE  Spec => []PromisedSurvives
<1>1. Spec => [](BakFree /\ PublishedKept /\ PromisedSurvives)
  BY InitFiles, NextPromise, FilesAlways, PTL DEF Spec
<1> QED
  BY <1>1, PTL

LEMMA BakAlways ==
  ASSUME OneForces
  PROVE  Spec => []BakFree
<1>1. FilesInv /\ BakFree /\ [Next]_vars => BakFree'
  BY BakKept DEF FilesInv
<1> QED
  BY <1>1, InitFiles, FilesAlways, PTL DEF Spec

\* With one process that may force an init: a file at a name gives way only to a save of
\* the process that read it, whatever other programs put there meanwhile.
THEOREM ReplacedBySavesOnly ==
  ASSUME OneForces
  PROVE  Spec => OnlySavesReplace
<1>1. FilesInv /\ BakFree /\ [Next]_vars =>
        [\A name \in Names :
           Exists(name) /\ dir'[name] \notin {0, dir[name]} =>
             \/ PowerLoss
             \/ \E p \in Processes :
                  /\ pc[p] = "synced" /\ task[p].kind = "save" /\ dir'[name] = Mine(p)
                  /\ dir[name] = task[p].base \/ holds[dir[name]] = {}]_vars
  <2> SUFFICES ASSUME FilesInv, BakFree, [Next]_vars, ~PowerLoss, NEW name \in Names,
                      Exists(name), dir'[name] \notin {0, dir[name]}
               PROVE  \E p \in Processes :
                        /\ pc[p] = "synced" /\ task[p].kind = "save" /\ dir'[name] = Mine(p)
                        /\ dir[name] = task[p].base \/ holds[dir[name]] = {}
    OBVIOUS
  <2>1. TypeOK /\ TaskFits /\ SaveSees
    BY DEF FilesInv
  <2>2. ASSUME NEW p \in Processes, RenameAway(p)
        PROVE  FALSE
    <3>1. /\ dir[Bak(task[p].bak)] = 0
          /\ dir' = [dir EXCEPT ![Bak(task[p].bak)] = dir[Vault], ![Vault] = 0]
      BY <2>2 DEF RenameAway, BakFree, Exists
    <3> QED
      BY <2>1, <3>1, TypeParts DEF Exists, Dirs
  <2>3. ASSUME NEW n \in {Vault, Out}, dir' = [dir EXCEPT ![n] = made'], dir[n] = 0
        PROVE  FALSE
    BY <2>1, <2>3, TypeParts DEF Exists, Dirs
  <2>4. ASSUME NEW p \in Processes, Publish(p), dir' = [dir EXCEPT ![Target(p)] = Mine(p)],
               Commits(p) => Target(p) = Vault, ~Commits(p) => Target(p) = Out
        PROVE  /\ pc[p] = "synced" /\ task[p].kind = "save" /\ dir'[name] = Mine(p)
               /\ dir[name] = task[p].base \/ holds[dir[name]] = {}
    <3>1. name = Target(p) /\ dir'[name] = Mine(p)
      BY <2>1, <2>4, TypeParts DEF Dirs
    <3>2. pc[p] = "synced" /\ task[p].kind = "save" /\ name = Vault
      BY <2>4, <3>1 DEF Publish, Links, Commits
    <3> QED
      BY <2>1, <3>1, <3>2 DEF SaveSees, Exists
  <2>5. dir' # dir
    OBVIOUS
  <2> QED
    BY <2>1, <2>2, <2>3, <2>4, <2>5, NewName
<1> QED
  BY <1>1, FilesAlways, BakAlways, PTL DEF Spec, OnlySavesReplace

\* And then the old vault of a forced init is renamed, not deleted, as the command says.
THEOREM OneForcedInitDeletesNothing ==
  ASSUME OneForces
  PROVE  Spec => RenamedNotDeleted
<1>1. FilesInv /\ BakFree /\ [Next]_vars =>
        [\A p \in Processes :
           RenameAway(p) => \A name \in Names : Exists(name) =>
                              \E other \in Names : dir'[other] = dir[name]]_vars
  <2> SUFFICES ASSUME FilesInv, BakFree, NEW p \in Processes, RenameAway(p),
                      NEW name \in Names, Exists(name)
               PROVE  \E other \in Names : dir'[other] = dir[name]
    OBVIOUS
  <2>1. /\ Bak(task[p].bak) \in Names \ {Vault} /\ dir[Bak(task[p].bak)] = 0
        /\ dir' = [dir EXCEPT ![Bak(task[p].bak)] = dir[Vault], ![Vault] = 0]
    BY NamesApart DEF RenameAway, BakFree, Exists
  <2> QED
    BY <2>1, TypeParts, NamesApart DEF FilesInv, Exists, Dirs
<1> QED
  BY <1>1, FilesAlways, BakAlways, PTL DEF Spec, RenamedNotDeleted
=============================================================================
