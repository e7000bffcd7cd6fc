----------------------------- MODULE VaultFiles -----------------------------
(***************************************************************************)
(* The files of a vault directory and what a power loss leaves of them.    *)
(*                                                                         *)
(* Saves replace the vault by renaming a synced temporary file over it;    *)
(* creation, migration and backup publish one by a hard link, which fails  *)
(* if the name is taken (src/src/vault/atomic_write.rs).  `init --force`   *)
(* renames the old vault away before it takes any lock                     *)
(* (src/src/cli/mod.rs).  Files are numbered as they are made; what a file *)
(* holds is the set of commits it descends from.                           *)
(*                                                                         *)
(* The file system: a name points to a whole file, a rename is one step,   *)
(* and a power loss undoes the most recent directory changes that were not *)
(* synced, none of the earlier ones.  A file that was not synced comes     *)
(* back torn.                                                              *)
(***************************************************************************)
EXTENDS Naturals, FiniteSets

CONSTANTS
  Processes,   \* latchkey processes
  Forcing,     \* those that may run `init --force`
  Nobody,      \* holder of a free lock
  Foreign,     \* kinds of names at which other programs put files
  SyncOutcomes,\* what an fsync_dir that reports no error may have done: TRUE, synced
  MaxFiles,    \* bound: files made
  MaxBackups,  \* bound: n of the last name bak.n
  MaxFaults    \* bound: write errors, deaths and power losses

ASSUME ForcingAssumption == Forcing \subseteq Processes
ASSUME ForeignAssumption == Foreign \subseteq {"vault", "out"}
ASSUME SyncAssumption == SyncOutcomes \subseteq BOOLEAN /\ SyncOutcomes # {}
ASSUME NobodyAssumption == Nobody \notin Processes
ASSUME BoundsAssumption == MaxFiles \in Nat /\ MaxBackups \in Nat /\ MaxFaults \in Nat

Vault  == <<"vault", 0>>
Out    == <<"out", 0>>           \* where `backup` writes
Bak(n) == <<"bak", n>>           \* where `init --force` moves the old vault
Baks   == {Bak(n) : n \in 1 .. MaxBackups}
Names  == {Vault, Out} \cup Baks
Files  == 1 .. MaxFiles

VARIABLES
  dir,        \* the file at each name as processes see it, 0 when there is none
  surviving,  \* the directories a power loss may leave
  temps,      \* files that still have a temporary name
  sound,      \* files whose contents are synced
  holds,      \* the commits each file descends from, itself included
  made,       \* number of files made so far
  lock,       \* holder of the lock file beside each name
  pc,         \* where each process is
  task,       \* what it is doing: kind, name, the file it started from, its file, its bak.n
  reported,   \* commits whose operation returned without an error, each with whether
              \* the directory was really synced before it did
  faults

vars == <<dir, surviving, temps, sound, holds, made, lock, pc, task, reported, faults>>

NoTask == [kind |-> "none", name |-> Vault, base |-> 0, file |-> 0, bak |-> 0]
Kinds  == {"none", "save", "create", "backup"}
Points == {"idle", "renaming", "ready", "locked", "written", "synced", "published"}
Locked == {"locked", "written", "synced", "published"}

Exists(name) == dir[name] # 0

Init ==
  /\ dir = [name \in Names |-> 0] /\ surviving = {dir}
  /\ temps = {} /\ sound = {} /\ holds = [f \in Files |-> {}] /\ made = 0
  /\ lock = [name \in Names |-> Nobody]
  /\ pc = [p \in Processes |-> "idle"] /\ task = [p \in Processes |-> NoTask]
  /\ reported = {} /\ faults = 0

-----------------------------------------------------------------------------
(* Commands, up to their lock *)

Begin(p, point, t) ==
  /\ pc[p] = "idle"
  /\ pc' = [pc EXCEPT ![p] = point]
  /\ task' = [task EXCEPT ![p] = t]
  /\ UNCHANGED <<dir, surviving, temps, sound, holds, made, lock, reported, faults>>

\* A session reads the vault, and its save will want to find that commit there.
StartSave(p) ==
  /\ Exists(Vault)
  /\ Begin(p, "ready", [NoTask EXCEPT !.kind = "save", !.base = dir[Vault]])

\* `init` and `migrate` of a vault that does not exist.
StartCreate(p) ==
  /\ ~Exists(Vault)
  /\ Begin(p, "ready", [NoTask EXCEPT !.kind = "create"])

\* `init --force` picks the first free bak.n ...
StartForcedInit(p) ==
  /\ p \in Forcing /\ Exists(Vault)
  /\ \E n \in 1 .. MaxBackups :
       /\ ~Exists(Bak(n)) /\ \A m \in 1 .. (n - 1) : Exists(Bak(m))
       /\ Begin(p, "renaming", [NoTask EXCEPT !.kind = "create", !.bak = n])

\* ... and renames the vault to it: neither step takes the vault's lock.
RenameAway(p) ==
  /\ pc[p] = "renaming" /\ Exists(Vault)
  /\ dir' = [dir EXCEPT ![Bak(task[p].bak)] = dir[Vault], ![Vault] = 0]
  /\ surviving' = surviving \cup {dir'}
  /\ pc' = [pc EXCEPT ![p] = "ready"]
  /\ UNCHANGED <<temps, sound, holds, made, lock, task, reported, faults>>

\* `backup` reads the vault without its lock, as one whole file.
StartBackup(p) ==
  /\ Exists(Vault) /\ ~Exists(Out)
  /\ Begin(p, "ready", [NoTask EXCEPT !.kind = "backup", !.name = Out, !.base = dir[Vault]])

-----------------------------------------------------------------------------
(* Publishing a file *)

Target(p) == task[p].name
Mine(p)   == task[p].file
Links(p)  == task[p].kind # "save"    \* atomic_create_locked, else atomic_write_locked

\* The process returns: its locks go, and with atomic_create_locked its temp file.
Return(p, left) ==
  /\ pc' = [pc EXCEPT ![p] = "idle"]
  /\ task' = [task EXCEPT ![p] = NoTask]
  /\ lock' = [name \in Names |-> IF lock[name] = p THEN Nobody ELSE lock[name]]
  /\ temps' = left

\* Mutant: every operation takes the vault's lock, a backup too.
TakeVaultLock(p) ==
  /\ pc[p] = "ready" /\ lock[Vault] = Nobody
  /\ lock' = [lock EXCEPT ![Vault] = p]
  /\ pc' = [pc EXCEPT ![p] = "locked"]
  /\ UNCHANGED <<dir, surviving, temps, sound, holds, made, task, reported, faults>>

TakeLock(p) ==
  /\ pc[p] = "ready" /\ lock[Target(p)] = Nobody
  /\ lock' = [lock EXCEPT ![Target(p)] = p]
  /\ pc' = [pc EXCEPT ![p] = "locked"]
  /\ UNCHANGED <<dir, surviving, temps, sound, holds, made, task, reported, faults>>

\* What the file at the name must be for the operation to go on: the commit the
\* session knows, nothing when it creates one.  A backup leaves it to the link.
MayProceed(p) == task[p].kind = "backup" \/ dir[Target(p)] = task[p].base

\* A temp file under a name of its own is written.
WriteTemp(p) ==
  /\ pc[p] = "locked" /\ MayProceed(p) /\ made < MaxFiles
  /\ made' = made + 1
  /\ temps' = temps \cup {made'}
  /\ holds' = [holds EXCEPT ![made'] =
                 (IF task[p].base = 0 THEN {} ELSE holds[task[p].base])
                 \cup (IF task[p].kind = "backup" THEN {} ELSE {made'})]
  /\ task' = [task EXCEPT ![p].file = made']
  /\ pc' = [pc EXCEPT ![p] = "written"]
  /\ UNCHANGED <<dir, surviving, sound, lock, reported, faults>>

\* fsync_dir, synced: nothing older than the present directory survives.  It reports
\* no error but has synced nothing when the directory cannot be opened or synced
\* (PermissionDenied, InvalidInput, errors 1, 13 and 21: always on Windows), and both
\* callers skip it for a path without a directory part.
FsyncDir(synced) == IF synced THEN {dir} ELSE surviving

\* Mutant: the temp file is renamed before its contents are on disk.
SyncTempLater(p) ==
  /\ pc[p] = "written"
  /\ \E synced \in SyncOutcomes : surviving' = IF Links(p) THEN surviving ELSE FsyncDir(synced)
  /\ pc' = [pc EXCEPT ![p] = "synced"]
  /\ UNCHANGED <<dir, temps, sound, holds, made, lock, task, reported, faults>>

\* fsync of the file and, before a rename, of the directory.
SyncTemp(p) ==
  /\ pc[p] = "written"
  /\ sound' = sound \cup {Mine(p)}
  /\ \E synced \in SyncOutcomes : surviving' = IF Links(p) THEN surviving ELSE FsyncDir(synced)
  /\ pc' = [pc EXCEPT ![p] = "synced"]
  /\ UNCHANGED <<dir, temps, holds, made, lock, task, reported, faults>>

\* Mutant: a creation renames its file to the name, as a save does.
PublishByRename(p) ==
  /\ pc[p] = "synced"
  /\ dir' = [dir EXCEPT ![Target(p)] = Mine(p)]
  /\ surviving' = surviving \cup {dir'}
  /\ temps' = temps \ {Mine(p)}
  /\ pc' = [pc EXCEPT ![p] = "published"]
  /\ UNCHANGED <<sound, holds, made, lock, task, reported, faults>>

\* rename(temp, target) takes the temp name away, hard_link keeps it.
Publish(p) ==
  /\ pc[p] = "synced" /\ (Links(p) => ~Exists(Target(p)))
  /\ dir' = [dir EXCEPT ![Target(p)] = Mine(p)]
  /\ surviving' = surviving \cup {dir'}
  /\ temps' = IF Links(p) THEN temps ELSE temps \ {Mine(p)}
  /\ pc' = [pc EXCEPT ![p] = "published"]
  /\ UNCHANGED <<sound, holds, made, lock, task, reported, faults>>

\* What the operation reports when it returns: the commit it made.
Report(p, synced) ==
  reported' = reported \cup (IF task[p].kind = "backup" THEN {} ELSE {<<Mine(p), synced>>})

\* Mutant: the directory is synced before the rename, not after it.
FinishUnsynced(p) ==
  /\ pc[p] = "published"
  /\ \E synced \in SyncOutcomes : Report(p, synced)
  /\ Return(p, temps \ {Mine(p)})
  /\ UNCHANGED <<dir, surviving, sound, holds, made, faults>>

\* fsync_dir is called and the operation returns without an error.
Finish(p) ==
  /\ pc[p] = "published"
  /\ \E synced \in SyncOutcomes : surviving' = FsyncDir(synced) /\ Report(p, synced)
  /\ Return(p, temps \ {Mine(p)})
  /\ UNCHANGED <<dir, sound, holds, made, faults>>

\* The temp file a failing or dying operation leaves behind.
Left(p) == IF Links(p) THEN temps \ {Mine(p)} ELSE temps

\* The vault is not there to be renamed, the lock is held, the file is not the
\* one the session knows, or the name to create is taken.
Refuse(p) ==
  /\ \/ pc[p] = "renaming" /\ ~Exists(Vault)
     \/ pc[p] = "ready" /\ lock[Target(p)] # Nobody
     \/ pc[p] = "locked" /\ ~MayProceed(p)
     \/ pc[p] = "synced" /\ Links(p) /\ Exists(Target(p))
  /\ Return(p, Left(p))
  /\ UNCHANGED <<dir, surviving, sound, holds, made, reported, faults>>

\* An error of the file system at any call, the sync after the rename included.
WriteFails(p) ==
  /\ pc[p] \in {"renaming", "ready"} \cup Locked /\ faults < MaxFaults
  /\ faults' = faults + 1
  /\ Return(p, Left(p))
  /\ UNCHANGED <<dir, surviving, sound, holds, made, reported>>

\* The process dies: the OS drops its lock, nobody removes its temp file.
Die(p) ==
  /\ pc[p] # "idle" /\ faults < MaxFaults
  /\ faults' = faults + 1
  /\ Return(p, temps)
  /\ UNCHANGED <<dir, surviving, sound, holds, made, reported>>

-----------------------------------------------------------------------------
(* The world outside *)

\* Another program puts a file where latchkey is about to create one.
External(name) ==
  /\ name[1] \in Foreign /\ ~Exists(name) /\ made < MaxFiles
  /\ made' = made + 1
  /\ dir' = [dir EXCEPT ![name] = made']
  /\ surviving' = surviving \cup {dir'}
  /\ sound' = sound \cup {made'}
  /\ UNCHANGED <<temps, holds, lock, pc, task, reported, faults>>

\* Power is lost: one of the directories that survive comes back.
PowerLoss ==
  /\ faults < MaxFaults /\ faults' = faults + 1
  /\ dir' \in surviving /\ surviving' = {dir'}
  /\ lock' = [name \in Names |-> Nobody]
  /\ pc' = [p \in Processes |-> "idle"] /\ task' = [p \in Processes |-> NoTask]
  /\ UNCHANGED <<temps, sound, holds, made, reported>>

Next ==
  \/ \E p \in Processes : StartSave(p) \/ StartCreate(p) \/ StartForcedInit(p) \/ StartBackup(p)
  \/ \E p \in Processes : RenameAway(p) \/ TakeLock(p) \/ Refuse(p)
  \/ \E p \in Processes : WriteTemp(p) \/ SyncTemp(p) \/ Publish(p) \/ Finish(p)
  \/ \E p \in Processes : WriteFails(p) \/ Die(p)
  \/ \E name \in {Vault, Out} : External(name)
  \/ PowerLoss

Spec == Init /\ [][Next]_vars

-----------------------------------------------------------------------------
(* Properties *)

TypeOK ==
  /\ dir \in [Names -> Files \cup {0}]
  /\ dir \in surviving /\ surviving \subseteq [Names -> Files \cup {0}]
  /\ temps \subseteq Files /\ sound \subseteq Files /\ reported \subseteq Files \X BOOLEAN
  /\ holds \in [Files -> SUBSET Files]
  /\ made \in 0 .. MaxFiles /\ faults \in 0 .. MaxFaults
  /\ lock \in [Names -> Processes \cup {Nobody}]
  /\ pc \in [Processes -> Points]
  /\ task \in [Processes -> [kind: Kinds, name: Names, base: Files \cup {0},
                             file: Files \cup {0}, bak: 0 .. MaxBackups]]
  /\ \A p \in Processes, name \in Names :
       lock[name] = p <=> pc[p] \in Locked /\ task[p].name = name

\* Whenever power is lost, every name of the directory has a complete file: a temp
\* file is synced before it gets the name (atomic_write_locked,
\* atomic_create_locked), and nothing is ever written under a final name.
NoTornFile == \A d \in surviving : \A name \in Names : d[name] # 0 => d[name] \in sound

\* The commit is in the directory a power loss leaves, whichever it is: in the vault
\* or in a renamed old vault, itself or within a later commit.
Survives(c) ==
  \A d \in surviving : \E name \in Names \ {Out} : d[name] # 0 /\ c \in holds[d[name]]

\* A commit that was reported after a directory sync that took place is there for
\* ever, whenever power is lost.  Later saves, synced or not, refused saves, failed
\* writes, a forced init that stops half way do not change that.
PromisedSurvives == \A r \in reported : r[2] => Survives(r[1])

\* VAULT_FORMAT section 8 (normative): every write ends with an fsync of the
\* containing directory, so every commit that was reported is there for ever.
\* Violated: an operation reports success too when nothing was synced.
ReportedSurvives == \A r \in reported : Survives(r[1])

\* While power is on, the file at a name gives way only to a save of the process
\* that read it (or that lost it to a forced init, when a foreign file came
\* instead): whatever appeared at the name after the look, a creation or a backup
\* does not replace it (atomic_create_locked), nor does a save a newer commit.
OnlySavesReplace ==
  [][\A name \in Names :
       Exists(name) /\ dir'[name] \notin {0, dir[name]} =>
         \/ PowerLoss
         \/ \E p \in Processes :
              /\ pc[p] = "synced" /\ task[p].kind = "save" /\ dir'[name] = Mine(p)
              /\ dir[name] = task[p].base \/ holds[dir[name]] = {}]_vars

\* cmd_init: "use --force to replace it (the old file is renamed, not deleted)".
\* Violated by two forced inits that picked the same bak.n: the second rename
\* deletes the vault that the first one moved there.
RenamedNotDeleted ==
  [][\A p \in Processes :
       RenameAway(p) => \A name \in Names : Exists(name) =>
                          \E other \in Names : dir'[other] = dir[name]]_vars
=============================================================================
