--------------------------- MODULE VaultSessions ---------------------------
(***************************************************************************)
(* One encrypted vault file and the processes that open it.                *)
(*                                                                         *)
(* A session (struct Vault, src/src/vault/vault_impl.rs) keeps the whole   *)
(* index, a cache of decrypted records, its keys and the MAC tag of the    *)
(* commit it last read or wrote.  An operation changes the session first,  *)
(* then takes the write lock, checks that the file is still that commit,   *)
(* rebuilds the complete file (re-encrypting cached records and            *)
(* tombstones, copying every other frame) and renames it over the old one. *)
(* Any step can fail, and any process can die between two steps.           *)
(*                                                                         *)
(* Abstractions.  A MAC tag is the number of the commit it authenticates;  *)
(* a random key or salt is named by who drew it and after which commit,    *)
(* so two draws that ever reach the file are never equal.  The slot of an  *)
(* item is its position: every v2 file stores slot = position (save        *)
(* renumbers them so) and entries are only ever appended.  Title and user  *)
(* name are one value, a decrypted record is one value.                    *)
(***************************************************************************)
EXTENDS Naturals, Sequences, FiniteSets

CONSTANTS
  Sessions,           \* processes (CLI commands, TUIs) that may open the vault
  Titles,             \* index metadata of an item: title and user name
  Secrets,            \* decrypted item records
  Passwords,          \* master passwords
  Blank,              \* the empty record sealed into a tombstone's frame
  NotOpen,            \* cache slot of an item the session has not decrypted
  NoKey,              \* key of a file or a session that does not exist
  Nobody,             \* holder of a free write lock
  RotationLimit,      \* ROTATION_LIMIT: DEK encryptions allowed, 2^24 in the code
  RetryAfterFailure,  \* TRUE: a caller of the library goes on with the session
                      \* after an error; FALSE: the CLI exits, the TUI only locks
  Operations,         \* the operations of the instance; creation is always one
  MaxTag,             \* bound: operations start while fewer commits exist
  MaxId,              \* bound: item ids handed out
  MaxBatch,           \* bound: entries one import adds
  MaxFaults           \* bound: file system errors and deaths inside an operation

ASSUME RotationLimitAssumption == RotationLimit \in Nat
ASSUME BoundsAssumption ==
  /\ MaxTag \in Nat
  /\ MaxId \in Nat
  /\ MaxBatch \in Nat
  /\ MaxFaults \in Nat
ASSUME OperationsAssumption ==
  Operations \subseteq {"add", "update", "delete", "import", "rotate", "password", "backup"}
ASSUME RetryAssumption == RetryAfterFailure \in BOOLEAN
ASSUME NobodyAssumption == Nobody \notin Sessions
ASSUME NoRecordAssumption ==
  /\ Blank \notin Secrets
  /\ NotOpen \notin Secrets \cup {Blank}

VARIABLES
  disk,     \* the vault file, Absent (tag 0) when there is none
  backup,   \* the copy `latchkey backup` made last
  lock,     \* holder of the exclusive OS lock on the sibling .lock file
  pc,       \* where each session is
  mem,      \* struct Vault of each session
  pending,  \* the operation each session is executing
  draft,    \* the complete file the lock holder built in a temp file
  clock,    \* number of commits published so far (names the next tag)
  faults    \* file system errors and deaths so far

vars == <<disk, backup, lock, pc, mem, pending, draft, clock, faults>>

-----------------------------------------------------------------------------
(* Data *)

Keys    == (Sessions \X Nat) \cup {NoKey}
Keks    == [pw: Passwords \cup {NoKey}, salt: Keys]
Entry   == [id: Nat, live: BOOLEAN, title: Titles]
Frame   == [id: Nat, dek: Keys, val: Secrets \cup {Blank}, stamp: Nat]
Kinds   == {"none", "create", "add", "update", "delete", "import", "rotate", "password"}

(* kdf: the KEK a reader derives from the header's salt and parameters;    *)
(* wrap: the KEK the wrapped DEK is sealed under.  parent and op are       *)
(* history: the commit this one replaced and the operation that wrote it.  *)
File == [tag: Nat, parent: Nat, op: Kinds, dek: Keys, kdf: Keks, wrap: Keks,
         ctr: Nat, index: Seq(Entry), frames: Seq(Frame)]

(* unsaved is history too: the slots whose records a failed import has     *)
(* replaced since the session's last save.                                 *)
Memory == [tag: Nat, dek: Keys, kek: Keks, entries: Seq(Entry),
           cache: Seq(Secrets \cup {Blank, NotOpen}), nextId: Nat, unsaved: SUBSET Nat]

NoKek     == [pw |-> NoKey, salt |-> NoKey]
Absent    == [tag |-> 0, parent |-> 0, op |-> "none", dek |-> NoKey, kdf |-> NoKek,
              wrap |-> NoKek, ctr |-> 0, index |-> <<>>, frames |-> <<>>]
NoSession == [tag |-> 0, dek |-> NoKey, kek |-> NoKek, entries |-> <<>>,
              cache |-> <<>>, nextId |-> 1, unsaved |-> {}]
NoOp      == [kind |-> "none", onFail |-> NoSession]

\* The control points of a session.  "locked", "built" and "renamed" hold the lock.
Critical == {"locked", "built", "renamed"}
Busy     == Critical \cup {"ready"}
Points   == Busy \cup {"closed", "idle", "failed"}

LiveSlots(m) == {i \in DOMAIN m.entries : m.entries[i].live}

\* Mutant: deleted items do not count.
NextIdOfLive(index) ==
  CHOOSE n \in {1} \cup {index[i].id + 1 : i \in DOMAIN index} :
    /\ \A i \in DOMAIN index : index[i].live => index[i].id < n
    /\ n = 1 \/ \E i \in DOMAIN index : index[i].live /\ index[i].id + 1 = n

\* item_id is one past the highest id of the index, tombstones included.
NextIdOf(index) ==
  CHOOSE n \in {1} \cup {index[i].id + 1 : i \in DOMAIN index} :
    \A i \in DOMAIN index : index[i].id < n

\* A random DEK or salt drawn by s: never on disk before the next commit of s.
Draw(s) == <<s, clock>>

\* authenticate_snapshot and the identity check of authenticate_current.
Authentic(m, dek) == disk.tag # 0 /\ disk.dek = dek /\ m.tag = disk.tag

-----------------------------------------------------------------------------
(* Changes an operation makes to the session before it saves *)

\* The record of slot i as open_item leaves it in the cache.
Opened(m, i) == [m EXCEPT !.cache[i] = IF @ = NotOpen THEN disk.frames[i].val ELSE @]

\* open_item finds the frame at the item's slot and decrypts it.
CanOpen(m, i) ==
  \/ m.cache[i] # NotOpen
  \/ /\ i \in DOMAIN disk.frames
     /\ disk.frames[i].id = m.entries[i].id
     /\ disk.frames[i].dek = m.dek

\* Mutant: the record of a new item is not kept until the save.
WithAddedUncached(m, items) ==
  [m EXCEPT !.entries = m.entries \o [j \in DOMAIN items |->
                [id |-> m.nextId + (j - 1), live |-> TRUE, title |-> items[j][1]]],
            !.nextId  = m.nextId + Len(items)]

\* add_item, once per <<title, record>> of items.
WithAdded(m, items) ==
  [m EXCEPT !.entries = m.entries \o [j \in DOMAIN items |->
                [id |-> m.nextId + (j - 1), live |-> TRUE, title |-> items[j][1]]],
            !.cache   = m.cache \o [j \in DOMAIN items |-> items[j][2]],
            !.nextId  = m.nextId + Len(items)]

\* commit_entry: the title and the record of slot i are replaced.
Edited(m, i, t, v) == [m EXCEPT !.entries[i].title = t, !.cache[i] = v]

\* commit_tombstone: slot i is a tombstone and its record is dropped.
Tombstoned(m, i) == [m EXCEPT !.entries[i].live = FALSE, !.cache[i] = NotOpen]

\* Replaced cached records, slot by slot.
WithRecords(m, new) ==
  [m EXCEPT !.cache = [i \in DOMAIN @ |-> IF i \in DOMAIN new THEN new[i] ELSE @[i]]]

\* The session a failed import leaves, and the one a save leaves.
LeftBehind(m, slots) == [m EXCEPT !.unsaved = @ \cup slots]
Saved(m, tag)        == [m EXCEPT !.tag = tag, !.unsaved = {}]

\* Mutant: rotate re-encrypts only what the session has already opened.
AllOpenedLazily(m) == m

\* rotate installs every live record of the snapshot in the cache.
AllOpened(m) ==
  [m EXCEPT !.cache = [i \in DOMAIN @ |-> IF m.entries[i].live THEN disk.frames[i].val ELSE @[i]]]

-----------------------------------------------------------------------------
(* Building the complete file (save_with_header_locked) *)

Kind(s) == pending[s].kind

\* The DEK the file on disk must authenticate under.
DiskDek(s) == IF Kind(s) = "rotate" THEN pending[s].onFail.dek ELSE mem[s].dek

\* Mutant: the file is authenticated, but its commit identity is not compared.
StillCurrentByMac(s) ==
  IF disk.tag = 0 THEN mem[s].tag = 0 ELSE disk.dek = DiskDek(s)

\* The file is the commit this session last read or wrote; none when it creates one.
StillCurrent(s) ==
  IF disk.tag = 0 THEN mem[s].tag = 0 ELSE Authentic(mem[s], DiskDek(s))

Resealed(m, i) == m.cache[i] # NotOpen \/ ~m.entries[i].live

\* Mutant: tombstones are not counted as encryptions.
EncryptCountOfCached(m) == 1 + Cardinality({i \in DOMAIN m.entries : m.cache[i] # NotOpen})

\* One encryption for the index and one for each cached record and tombstone.
EncryptCount(m) == 1 + Cardinality({i \in DOMAIN m.entries : Resealed(m, i)})

\* create and rotate start from a new header, the others from the one on disk.
NextCtr(s) == (IF Kind(s) \in {"create", "rotate"} THEN 0 ELSE disk.ctr) + EncryptCount(mem[s])

\* Mutant: change_password keeps the salt of the file.
HeaderKdfKept(s) == IF Kind(s) \in {"create", "rotate"} THEN mem[s].kek ELSE disk.kdf

\* change_password, create and rotate write their own salt, the others keep the file's.
HeaderKdf(s) == IF Kind(s) \in {"create", "rotate", "password"} THEN mem[s].kek ELSE disk.kdf

OnDisk(id) == \E j \in DOMAIN disk.index : disk.index[j].id = id
OldSlot(id) == CHOOSE j \in DOMAIN disk.index : disk.index[j].id = id

Sealed(s, i, val) ==
  [id |-> mem[s].entries[i].id, dek |-> mem[s].dek, val |-> val, stamp |-> clock + 1]

\* Mutant: the old frame is taken from the slot of the entry, cached or not.
FrameCopiedFirst(s, i) ==
  IF mem[s].entries[i].live /\ i \in DOMAIN disk.frames THEN disk.frames[i]
  ELSE Sealed(s, i, IF mem[s].cache[i] # NotOpen THEN mem[s].cache[i] ELSE Blank)

\* Mutant: a tombstone's frame is copied instead of blanked.
FrameKeepingTombstone(s, i) ==
  IF mem[s].cache[i] # NotOpen THEN Sealed(s, i, mem[s].cache[i])
  ELSE disk.frames[OldSlot(mem[s].entries[i].id)]

\* A cached record is encrypted again, a tombstone is blanked, the rest is copied.
NewFrame(s, i) ==
  IF mem[s].cache[i] # NotOpen THEN Sealed(s, i, mem[s].cache[i])
  ELSE IF ~mem[s].entries[i].live THEN Sealed(s, i, Blank)
  ELSE disk.frames[OldSlot(mem[s].entries[i].id)]

\* Every live item the session has not opened has an old frame to copy.
Copyable(s) ==
  \A i \in DOMAIN mem[s].entries : Resealed(mem[s], i) \/ OnDisk(mem[s].entries[i].id)

NewFile(s) ==
  [tag    |-> clock + 1,
   parent |-> mem[s].tag,
   op     |-> Kind(s),
   dek    |-> mem[s].dek,
   kdf    |-> HeaderKdf(s),
   wrap   |-> mem[s].kek,
   ctr    |-> NextCtr(s),
   index  |-> mem[s].entries,
   frames |-> [i \in DOMAIN mem[s].entries |-> NewFrame(s, i)]]

\* The encryptions a built file cost: its index and the frames sealed for it.
FreshlySealed(f) == 1 + Cardinality({i \in DOMAIN f.frames : f.frames[i].stamp = f.tag})
-----------------------------------------------------------------------------
(* Starting and ending a session *)

Init ==
  /\ disk = Absent /\ backup = Absent /\ draft = Absent
  /\ lock = Nobody
  /\ pc = [s \in Sessions |-> "closed"]
  /\ mem = [s \in Sessions |-> NoSession]
  /\ pending = [s \in Sessions |-> NoOp]
  /\ clock = 0 /\ faults = 0

\* Start an operation: the session becomes `after`, and `onFail` if it fails.
Prepare(s, from, kind, after, onFail) ==
  /\ pc[s] = from /\ clock < MaxTag
  /\ kind \in Operations \cup {"create"}
  /\ pc' = [pc EXCEPT ![s] = "ready"]
  /\ mem' = [mem EXCEPT ![s] = after]
  /\ pending' = [pending EXCEPT ![s] = [kind |-> kind, onFail |-> onFail]]
  /\ UNCHANGED <<disk, backup, lock, draft, clock, faults>>

\* Vault::create up to its save: fresh keys, an empty index, no commit identity.
Create(s) ==
  \E pw \in Passwords :
    Prepare(s, "closed", "create",
            [NoSession EXCEPT !.dek = Draw(s), !.kek = [pw |-> pw, salt |-> Draw(s)]],
            NoSession)

\* Vault::open: one read without the lock.  The KEK derived from the header
\* must be the one the DEK is wrapped under; the MAC, the index and the frame
\* count are checked.  A failed open leaves nothing behind.
Open(s) ==
  /\ pc[s] = "closed" /\ disk.tag # 0
  /\ disk.kdf.pw \in Passwords /\ disk.kdf = disk.wrap
  /\ Len(disk.frames) = Len(disk.index)
  /\ pc' = [pc EXCEPT ![s] = "idle"]
  /\ mem' = [mem EXCEPT ![s] =
       [tag |-> disk.tag, dek |-> disk.dek, kek |-> disk.kdf, entries |-> disk.index,
        cache |-> [i \in DOMAIN disk.index |-> NotOpen], nextId |-> NextIdOf(disk.index),
        unsaved |-> {}]]
  /\ UNCHANGED <<disk, backup, lock, pending, draft, clock, faults>>

\* The process exits or the TUI locks between two operations.
Close(s) ==
  /\ pc[s] \in {"idle", "failed"}
  /\ pc' = [pc EXCEPT ![s] = "closed"]
  /\ mem' = [mem EXCEPT ![s] = NoSession]
  /\ pending' = [pending EXCEPT ![s] = NoOp]
  /\ UNCHANGED <<disk, backup, lock, draft, clock, faults>>

-----------------------------------------------------------------------------
(* Operations of an open session, up to their save *)

\* open_item: re-read and authenticate the file, then decrypt the item once.
OpenItem(s) ==
  /\ pc[s] = "idle" /\ Authentic(mem[s], mem[s].dek)
  /\ \E i \in LiveSlots(mem[s]) :
       /\ CanOpen(mem[s], i)
       /\ mem' = [mem EXCEPT ![s] = Opened(mem[s], i)]
  /\ UNCHANGED <<disk, backup, lock, pc, pending, draft, clock, faults>>

\* add_entry: no rollback, a failed save leaves the entry and the id in the session.
AddEntry(s) ==
  \E t \in Titles, v \in Secrets :
    LET after == WithAdded(mem[s], <<<<t, v>>>>)
    IN  /\ mem[s].nextId <= MaxId
        /\ Prepare(s, "idle", "add", after, after)

\* update_entry: open the record, change something, and on failure restore
\* the title and the record as it was on disk.
UpdateEntry(s) ==
  /\ Authentic(mem[s], mem[s].dek)
  /\ \E i \in LiveSlots(mem[s]), t \in Titles, v \in Secrets :
       LET before == Opened(mem[s], i)
       IN  /\ CanOpen(mem[s], i)
           /\ <<t, v>> # <<before.entries[i].title, before.cache[i]>>
           /\ Prepare(s, "idle", "update", Edited(before, i, t, v), before)

\* delete_entry (commit_tombstone): both the state and the cached record come back.
DeleteEntry(s) ==
  \E i \in LiveSlots(mem[s]) :
    Prepare(s, "idle", "delete", Tombstoned(mem[s], i), mem[s])

\* apply_import (commit_import): new entries and replaced records in one save,
\* no rollback: after an error too the session has them.  The records to replace
\* are opened first.
Import(s) ==
  \E n \in 0 .. MaxBatch :
  \E items \in [1 .. n -> Titles \X Secrets] :
  \E updated \in SUBSET LiveSlots(mem[s]) :
  \E new \in [updated -> Secrets] :
    LET after == WithAdded(WithRecords(mem[s], new), items)
    IN  /\ mem[s].nextId + n <= MaxId + 1
        /\ updated # {} => Authentic(mem[s], mem[s].dek)
        /\ \A i \in updated : CanOpen(mem[s], i)
        /\ Prepare(s, "idle", "import", after, LeftBehind(after, updated))

\* Vault::rotate: every live record of one authenticated snapshot is opened, then
\* the DEK, the salt and the KEK are drawn anew, for the same or a new password.
Rotate(s) ==
  /\ Authentic(mem[s], mem[s].dek)
  /\ Len(disk.frames) = Len(mem[s].entries)
  /\ \A i \in LiveSlots(mem[s]) : disk.frames[i].id = mem[s].entries[i].id
                               /\ disk.frames[i].dek = mem[s].dek
  /\ \E pw \in Passwords :
       Prepare(s, "idle", "rotate",
               [AllOpened(mem[s]) EXCEPT !.dek = Draw(s), !.kek = [pw |-> pw, salt |-> Draw(s)]],
               AllOpened(mem[s]))

\* change_password: a new salt and KEK, the same DEK.
ChangePassword(s) ==
  \E pw \in Passwords :
    Prepare(s, "idle", "password",
            [mem[s] EXCEPT !.kek = [pw |-> pw, salt |-> Draw(s)]], mem[s])

-----------------------------------------------------------------------------
(* Executing the save *)

\* Mutant: a failed deletion or edit is not rolled back.
AfterFailureKept(s) == mem[s]

\* The session an error leaves behind.
AfterFailure(s) == pending[s].onFail

\* The operation returns an error; whoever holds the lock here drops it.
Fail(s) ==
  /\ pc' = [pc EXCEPT ![s] = IF Kind(s) = "create" THEN "closed"
                             ELSE IF RetryAfterFailure THEN "idle" ELSE "failed"]
  /\ mem' = [mem EXCEPT ![s] = AfterFailure(s)]
  /\ pending' = [pending EXCEPT ![s] = NoOp]
  /\ lock' = IF lock = s THEN Nobody ELSE lock
  /\ draft' = IF lock = s THEN Absent ELSE draft

\* acquire_write_lock never waits.
TakeLock(s) ==
  /\ pc[s] = "ready" /\ lock = Nobody
  /\ pc' = [pc EXCEPT ![s] = "locked"]
  /\ lock' = s
  /\ UNCHANGED <<disk, backup, mem, pending, draft, clock, faults>>

LockBusy(s) ==
  /\ pc[s] = "ready" /\ lock # Nobody
  /\ Fail(s)
  /\ UNCHANGED <<disk, backup, clock, faults>>

\* The update or rotation finds another commit on disk before it takes the lock.
StaleBeforeLock(s) ==
  /\ pc[s] = "idle" /\ ~Authentic(mem[s], mem[s].dek) /\ ~RetryAfterFailure
  /\ pc' = [pc EXCEPT ![s] = "failed"]
  /\ UNCHANGED <<disk, backup, lock, mem, pending, draft, clock, faults>>

\* Every check of save_with_header_locked passed: encrypt into a temp file.
\* draft.tag # 0 also stands for its fsync and the directory's.
Build(s) ==
  /\ pc[s] = "locked"
  /\ StillCurrent(s) /\ NextCtr(s) <= RotationLimit /\ Copyable(s)
  /\ pc' = [pc EXCEPT ![s] = "built"]
  /\ draft' = NewFile(s)
  /\ UNCHANGED <<disk, backup, lock, mem, pending, clock, faults>>

\* Stale, foreign or missing file, exhausted counter, or an item that is nowhere.
Refuse(s) ==
  /\ pc[s] = "locked"
  /\ ~(StillCurrent(s) /\ NextCtr(s) <= RotationLimit /\ Copyable(s))
  /\ Fail(s)
  /\ UNCHANGED <<disk, backup, clock, faults>>

\* The rename of atomic_write_locked, the hard link of atomic_create_locked.
Publish(s) ==
  /\ pc[s] = "built"
  /\ pc' = [pc EXCEPT ![s] = "renamed"]
  /\ disk' = draft
  /\ clock' = draft.tag
  /\ UNCHANGED <<backup, lock, mem, pending, draft, faults>>

\* The directory is synced: the session adopts the commit and drops the lock.
Adopt(s) ==
  /\ pc[s] = "renamed"
  /\ pc' = [pc EXCEPT ![s] = "idle"]
  /\ mem' = [mem EXCEPT ![s] = Saved(@, draft.tag)]
  /\ pending' = [pending EXCEPT ![s] = NoOp]
  /\ lock' = Nobody
  /\ draft' = Absent
  /\ UNCHANGED <<disk, backup, clock, faults>>

\* The temp file cannot be written, synced or renamed, or the directory cannot be
\* synced after the rename: an error is returned although the commit is on disk.
WriteFails(s) ==
  /\ pc[s] \in {"built", "renamed"} /\ faults < MaxFaults
  /\ Fail(s)
  /\ faults' = faults + 1
  /\ UNCHANGED <<disk, backup, clock>>

\* Mutant: the lock is a file that outlives its process.
CrashKeepingLock(s) ==
  /\ pc[s] \in Busy /\ faults < MaxFaults
  /\ pc' = [pc EXCEPT ![s] = "closed"]
  /\ mem' = [mem EXCEPT ![s] = NoSession]
  /\ pending' = [pending EXCEPT ![s] = NoOp]
  /\ faults' = faults + 1
  /\ UNCHANGED <<disk, backup, lock, draft, clock>>

\* The process dies inside an operation; the OS releases its lock.
Crash(s) ==
  /\ pc[s] \in Busy /\ faults < MaxFaults
  /\ pc' = [pc EXCEPT ![s] = "closed"]
  /\ mem' = [mem EXCEPT ![s] = NoSession]
  /\ pending' = [pending EXCEPT ![s] = NoOp]
  /\ lock' = IF lock = s THEN Nobody ELSE lock
  /\ draft' = IF lock = s THEN Absent ELSE draft
  /\ faults' = faults + 1
  /\ UNCHANGED <<disk, backup, clock>>

-----------------------------------------------------------------------------
(* The file handled outside a session *)

\* cmd_backup: the bytes of the file as they are, no password, no vault lock.
Backup ==
  /\ "backup" \in Operations /\ disk.tag # 0
  /\ backup' = disk
  /\ UNCHANGED <<disk, lock, pc, mem, pending, draft, clock, faults>>

\* The user copies the backup over the vault while nobody is saving.
Restore ==
  /\ backup.tag # 0 /\ lock = Nobody
  /\ disk' = backup
  /\ UNCHANGED <<backup, lock, pc, mem, pending, draft, clock, faults>>

-----------------------------------------------------------------------------
Operation(s) == AddEntry(s) \/ UpdateEntry(s) \/ DeleteEntry(s) \/ Import(s)
                \/ Rotate(s) \/ ChangePassword(s)

\* The steps a running process takes by itself once an operation has started.
Proceed(s) == TakeLock(s) \/ LockBusy(s) \/ Build(s) \/ Refuse(s) \/ Publish(s) \/ Adopt(s)

Next ==
  \/ \E s \in Sessions : Create(s) \/ Open(s) \/ Close(s) \/ OpenItem(s) \/ StaleBeforeLock(s)
  \/ \E s \in Sessions : Operation(s)
  \/ \E s \in Sessions : Proceed(s)
  \/ \E s \in Sessions : WriteFails(s) \/ Crash(s)
  \/ Backup
  \/ Restore

Spec == Init /\ [][Next]_vars

-----------------------------------------------------------------------------
(* Properties *)

Increasing(index) == \A i, j \in DOMAIN index : i < j => index[i].id < index[j].id

\* One frame per index entry, ids growing with the slots.
GoodFile(f) == f \in File /\ Len(f.frames) = Len(f.index) /\ Increasing(f.index)

\* One cache slot per entry, ids growing with the slots and below the next id.
GoodMemory(m) ==
  /\ m \in Memory /\ Len(m.cache) = Len(m.entries)
  /\ Increasing(m.entries)
  /\ \A i \in DOMAIN m.entries : m.entries[i].id < m.nextId

\* Every variable has its type, every file and every session its shape, the
\* session an error would leave behind included.
TypeOK ==
  /\ GoodFile(disk) /\ GoodFile(backup) /\ GoodFile(draft)
  /\ lock \in Sessions \cup {Nobody}
  /\ pc \in [Sessions -> Points]
  /\ DOMAIN mem = Sessions /\ \A s \in Sessions : GoodMemory(mem[s])
  /\ pending \in [Sessions -> [kind: Kinds, onFail: Memory]]
  /\ \A s \in Sessions : GoodMemory(pending[s].onFail)
  /\ clock \in Nat /\ faults \in Nat

\* Only the holder of the write lock is inside a save, and the file it has built
\* still replaces what is on disk: nobody publishes between its check of the
\* commit on disk and its rename.
SaveUnderLock ==
  /\ \A s \in Sessions : lock = s <=> pc[s] \in Critical
  /\ \A s \in Sessions :
       pc[s] = "built" => draft.parent = disk.tag /\ draft.tag = clock + 1
  /\ disk.tag <= clock /\ backup.tag <= clock

\* A commit replaces the very commit its session had read: what another
\* process published in between is never overwritten (save_with_header_locked
\* authenticates the file and compares its tag under the lock).
NoLostUpdate == [][disk'.tag > clock => disk'.parent = disk.tag]_vars

\* The file can always be opened with the password its header names, and every
\* live item decrypts to a record of its own: index and frames agree slot by
\* slot, no frame is left under a retired DEK (rotate), and the salt in the
\* header is the one the DEK is wrapped under (save mixes the header on disk
\* with the KEK in memory).
DiskReadable ==
  disk.tag # 0 =>
    /\ disk.kdf = disk.wrap /\ disk.kdf.pw \in Passwords
    /\ Len(disk.frames) = Len(disk.index)
    /\ \A i \in DOMAIN disk.index :
         /\ disk.frames[i].id = disk.index[i].id
         /\ disk.frames[i].dek = disk.dek
         /\ disk.index[i].live => disk.frames[i].val \in Secrets

\* A deleted item's secret is not in the file: a tombstone's frame is blank.
DeletedSecretsGone ==
  \A i \in DOMAIN disk.index : ~disk.index[i].live => disk.frames[i].val = Blank

\* A commit keeps every slot of the index with its item, never brings a deleted
\* item back to life, and gives new items ids above every id in the file:
\* whatever the session had cached, imported or rolled back before it.
IndexOnlyGrows ==
  [][disk'.tag > clock =>
       /\ Len(disk.index) <= Len(disk'.index)
       /\ \A i \in DOMAIN disk'.index :
            IF i \in DOMAIN disk.index
            THEN /\ disk'.index[i].id = disk.index[i].id
                 /\ disk'.index[i].live => disk.index[i].live
            ELSE \A j \in DOMAIN disk.index : disk'.index[i].id > disk.index[j].id]_vars

\* A session that may still save, and whose commit is the one on disk, agrees
\* with it: same index, same next id, same keys, and every cached record is
\* what its frame holds.  This is what makes the rebuilt file right, and what
\* a failed operation must restore.
SessionMirrorsDisk ==
  \A s \in Sessions :
    pc[s] = "idle" /\ mem[s].tag = disk.tag =>
      /\ mem[s].entries = disk.index
      /\ mem[s].nextId = NextIdOf(disk.index)
      /\ mem[s].dek = disk.dek /\ mem[s].kek = disk.wrap
      /\ \A i \in DOMAIN mem[s].cache : mem[s].cache[i] \in {NotOpen, disk.frames[i].val}

\* A caller may go on after an error: whatever operation failed, at whatever step,
\* the session has the keys and the entries of the commit it last saw, and of every
\* record it holds the one in that commit (commit_entry, commit_tombstone, rotate and
\* change_password put it back) - but for what an import was to replace: commit_import
\* leaves it in the session, for the next save.  Entries a failed add or import left
\* behind lie beyond the file's index.
RollbackRestoresSession ==
  \A s \in Sessions :
    pc[s] = "idle" /\ mem[s].tag = disk.tag =>
      /\ mem[s].dek = disk.dek /\ mem[s].kek = disk.wrap
      /\ \A i \in DOMAIN disk.index :
           /\ mem[s].entries[i] = disk.index[i]
           /\ i \in mem[s].unsaved \/ mem[s].cache[i] \in {NotOpen, disk.frames[i].val}

\* For a caller whose one operation is the import.  commit_import: "On failure the
\* session keeps its prior state (except records cached by the pre-validating
\* `open_item` calls, which mirror the committed disk bytes)".
\* Violated: the new entries and the replaced records stay.
FailedImportUndone ==
  \A s \in Sessions :
    pc[s] = "idle" /\ mem[s].tag = disk.tag =>
      /\ mem[s].entries = disk.index /\ mem[s].nextId = NextIdOf(disk.index)
      /\ \A i \in DOMAIN disk.index : mem[s].cache[i] \in {NotOpen, disk.frames[i].val}

\* A commit raises enc_counter by exactly the encryptions it made under its
\* DEK, from zero under a new DEK, and never beyond ROTATION_LIMIT.
CounterAdvances ==
  [][disk'.tag > clock =>
       /\ disk'.ctr = (IF disk'.dek = disk.dek THEN disk.ctr ELSE 0) + FreshlySealed(disk')
       /\ disk'.ctr <= RotationLimit]_vars
=============================================================================
