-------------------------- MODULE VaultStoreProofs --------------------------
(***************************************************************************)
(* What a commit does to the items: a session agrees with the commit it    *)
(* knows, a save changes what its operation changed and nothing else, and  *)
(* so the vault file, read back with its keys, is an ItemStore; the        *)
(* counter of its header counts each encryption once.  For any number of   *)
(* processes, items and failures.                                          *)
(*                                                                         *)
(* SessionsFit says that what a session holds makes a readable file.  Here *)
(* it is compared with what the file of its commit holds.                  *)
(***************************************************************************)
EXTENDS VaultSessionsProofs, VaultRefinesStore, FiniteSetTheorems

-----------------------------------------------------------------------------
(* Who moves *)

\* The steps of one process.
Acts(s) == \/ Create(s) \/ Open(s) \/ Close(s) \/ OpenItem(s) \/ StaleBeforeLock(s)
           \/ Operation(s) \/ Proceed(s) \/ WriteFails(s) \/ Crash(s)

Stays(s) == pc'[s] = pc[s] /\ mem'[s] = mem[s] /\ pending'[s] = pending[s]

LEMMA ActsOnItself ==
  ASSUME TypeOK, NEW s \in Sessions, NEW t \in Sessions, s # t, Acts(t)
  PROVE  Stays(s)
<1>1. CASE Create(t) \/ Operation(t)
  <2>1. ASSUME NEW from, NEW kind, NEW after, NEW onFail, Prepare(t, from, kind, after, onFail)
        PROVE  Stays(s)
    BY <2>1 DEF Prepare, Stays, TypeOK
  <2> QED
    BY <1>1, <2>1 DEF Create, Operation, AddEntry, UpdateEntry, DeleteEntry, Import, Rotate,
                      ChangePassword
<1>2. CASE Open(t) \/ Close(t) \/ OpenItem(t) \/ StaleBeforeLock(t)
  BY <1>2 DEF Open, Close, OpenItem, StaleBeforeLock, Stays, TypeOK
<1>3. CASE Proceed(t) \/ WriteFails(t) \/ Crash(t)
  BY <1>3 DEF Proceed, TakeLock, LockBusy, Build, Refuse, Publish, Adopt, WriteFails, Crash,
              Fail, Stays, TypeOK
<1> QED
  BY <1>1, <1>2, <1>3 DEF Acts

LEMMA Moves ==
  ASSUME [Next]_vars
  PROVE  (\E s \in Sessions : Acts(s)) \/ Backup \/ Restore \/ UNCHANGED vars
  BY DEF Next, Acts

LEMMA StaysOrActs ==
  ASSUME TypeOK, [Next]_vars, NEW s \in Sessions
  PROVE  Stays(s) \/ Acts(s)
<1>1. CASE \E t \in Sessions : Acts(t)
  BY <1>1, ActsOnItself
<1>2. CASE Backup \/ Restore \/ UNCHANGED vars
  BY <1>2 DEF Backup, Restore, vars, Stays
<1> QED
  BY <1>1, <1>2, Moves

\* Only a rename puts another file on disk, the user's copies apart.
LEMMA FilesOfActs ==
  ASSUME NEW s \in Sessions, Acts(s)
  PROVE  /\ backup' = backup
         /\ Publish(s) \/ (disk' = disk /\ clock' = clock)
<1>1. CASE Create(s) \/ Operation(s)
  BY <1>1 DEF Create, Operation, AddEntry, UpdateEntry, DeleteEntry, Import, Rotate,
              ChangePassword, Prepare
<1>2. CASE Open(s) \/ Close(s) \/ OpenItem(s) \/ StaleBeforeLock(s)
  BY <1>2 DEF Open, Close, OpenItem, StaleBeforeLock
<1>3. CASE Proceed(s) \/ WriteFails(s) \/ Crash(s)
  BY <1>3 DEF Proceed, TakeLock, LockBusy, Build, Refuse, Publish, Adopt, WriteFails, Crash
<1> QED
  BY <1>1, <1>2, <1>3 DEF Acts

\* A session's commit is never given to another file.
LEMMA CommitKept ==
  ASSUME TypeOK, SaveUnderLock, [Next]_vars, NEW m, m.tag \in Nat, m.tag <= clock,
         NEW f \in {disk', backup'}, SameCommit(m, f)
  PROVE  f \in {disk, backup}
<1>1. CASE \E s \in Sessions : Publish(s)
  <2>1. clock \in Nat /\ disk'.tag = clock + 1 /\ backup' = backup
    BY <1>1 DEF TypeOK, SaveUnderLock, Publish
  <2> QED
    BY <2>1 DEF SameCommit
<1>2. CASE ~\E s \in Sessions : Publish(s)
  BY <1>2, FilesOfActs, Moves DEF Backup, Restore, vars
<1> QED
  BY <1>1, <1>2

\* Until the rename nobody touches what a save was built from; then it is on disk.
LEMMA SaveMoves ==
  ASSUME TypeOK, SaveUnderLock, [Next]_vars, NEW s \in Sessions, pc'[s] \in {"built", "renamed"}
  PROVE  \/ Build(s) /\ pc'[s] = "built"
         \/ Publish(s) /\ pc'[s] = "renamed"
         \/ Stays(s) /\ UNCHANGED <<disk, draft, clock>>
<1>1. CASE Acts(s)
  <2>1. CASE Create(s) \/ Operation(s)
    <3>1. pc'[s] = "ready"
      BY <2>1 DEF Create, Operation, AddEntry, UpdateEntry, DeleteEntry, Import, Rotate,
                  ChangePassword, Prepare, TypeOK
    <3> QED
      BY <3>1
  <2>2. CASE Open(s) \/ Close(s) \/ OpenItem(s) \/ StaleBeforeLock(s)
    BY <2>2 DEF Open, Close, OpenItem, StaleBeforeLock, TypeOK
  <2>3. CASE Proceed(s) \/ WriteFails(s) \/ Crash(s)
    BY <2>3 DEF Proceed, TakeLock, LockBusy, Build, Refuse, Publish, Adopt, WriteFails, Crash,
                Fail, TypeOK
  <2> QED
    BY <1>1, <2>1, <2>2, <2>3 DEF Acts
<1>2. CASE ~Acts(s)
  <2>1. Stays(s) /\ pc[s] \in {"built", "renamed"}
    BY <1>2, StaysOrActs DEF Stays
  <2>2. lock = s /\ lock # Nobody
    BY <2>1, NobodyAssumption DEF SaveUnderLock, Critical
  <2>3. ASSUME NEW t \in Sessions, Acts(t) PROVE UNCHANGED <<disk, draft, clock>>
    <3>1. t # s /\ pc[t] \notin Critical
      BY <1>2, <2>1, <2>3, OneBuilder DEF Critical
    <3>2. CASE Create(t) \/ Operation(t)
      BY <3>2 DEF Create, Operation, AddEntry, UpdateEntry, DeleteEntry, Import, Rotate,
                  ChangePassword, Prepare
    <3>3. CASE Open(t) \/ Close(t) \/ OpenItem(t) \/ StaleBeforeLock(t)
      BY <3>3 DEF Open, Close, OpenItem, StaleBeforeLock
    <3>4. CASE Proceed(t) \/ WriteFails(t) \/ Crash(t)
      BY <2>2, <3>1, <3>4 DEF Proceed, TakeLock, LockBusy, Build, Refuse, Publish, Adopt,
                              WriteFails, Crash, Fail, Critical
    <3> QED
      BY <2>3, <3>2, <3>3, <3>4 DEF Acts
  <2>4. CASE Backup \/ Restore \/ UNCHANGED vars
    BY <2>1, <2>2, <2>4 DEF Backup, Restore, vars
  <2> QED
    BY <2>1, <2>3, <2>4, Moves
<1> QED
  BY <1>1, <1>2

-----------------------------------------------------------------------------
(* The invariant *)

\* Slot j is as the commit has it, and was opened at most, or holds what a failed
\* import has left there.
Untouched(m, f, j) ==
  /\ m.entries[j] = f.index[j]
  /\ j \in m.unsaved \/ m.cache[j] \in {NotOpen, f.frames[j].val}
Agrees(m, f) == \A j \in DOMAIN f.index : Untouched(m, f, j)
UntouchedBut(i, m, f) == \A j \in DOMAIN f.index \ {i} : Untouched(m, f, j)

\* Between two operations.  Only a caller that went on after a failed add or import has
\* more entries than its commit, and only one that went on after an import other records.
RestAgrees(m) ==
  /\ ~RetryAfterFailure => m.unsaved = {}
  /\ \A f \in {disk, backup} : SameCommit(m, f) =>
       /\ Agrees(m, f)
       /\ ~RetryAfterFailure => Len(m.entries) = Len(f.index)

\* What an operation has changed in the session since its commit f, and what it has not.
Changed(kind, m, f) ==
  /\ kind \in {"rotate", "password", "update", "delete"} => Len(m.entries) = Len(f.index)
  /\ kind \in {"rotate", "password", "add"} => Agrees(m, f)
  /\ kind = "add" => Len(m.entries) = Len(f.index) + 1 /\ m.entries[Len(m.entries)].live
  /\ kind = "update" => \E i \in LiveSlots(m) : UntouchedBut(i, m, f)
  /\ kind = "delete" =>
       \E i \in DOMAIN f.index : f.index[i].live /\ ~m.entries[i].live /\ UntouchedBut(i, m, f)
  /\ kind = "import" =>
       /\ \A j \in DOMAIN f.index : m.entries[j] = f.index[j]
       /\ \A j \in DOMAIN m.entries \ DOMAIN f.index : m.entries[j].live

Saves == {"create", "add", "update", "delete", "import", "rotate", "password"}

\* Inside an operation: what it will commit, or what an error goes back to.
OpAgrees(kind, m, before) ==
  /\ kind \in Saves
  /\ kind # "create" =>
       IF RetryAfterFailure THEN RestAgrees(before)
       ELSE /\ m.unsaved = {}
            /\ \A f \in {disk, backup} : SameCommit(m, f) => Changed(kind, m, f)

Agreement(s) ==
  /\ pc[s] = "idle" => RestAgrees(mem[s])
  /\ pc[s] \in Busy => OpAgrees(Kind(s), mem[s], pending[s].onFail)

\* Each frame of the built file holds the cached record, nothing for a deleted item, or
\* what the same slot holds on disk.
BuiltFrom(s) ==
  /\ draft.op = Kind(s)
  /\ \A i \in DOMAIN mem[s].entries :
       /\ mem[s].cache[i] # NotOpen => draft.frames[i].val = mem[s].cache[i]
       /\ ~Resealed(mem[s], i) => i \in DOMAIN disk.index /\ draft.frames[i] = disk.frames[i]

\* What the session will take for the records of the new commit is in it.
Holds(s) == \A i \in DOMAIN mem[s].entries : mem[s].cache[i] \in {NotOpen, draft.frames[i].val}

SessionAgrees(s) ==
  /\ Agreement(s)
  /\ pc[s] = "built" => BuiltFrom(s)
  /\ pc[s] = "renamed" => Holds(s)

SessionsAgree == \A s \in Sessions : SessionAgrees(s)

-----------------------------------------------------------------------------
(* It is kept by what does not concern the session *)

LEMMA RestKept ==
  ASSUME TypeOK, SaveUnderLock, [Next]_vars, NEW m, m.tag \in Nat, m.tag <= clock,
         RestAgrees(m)
  PROVE  RestAgrees(m)'
  BY CommitKept DEF RestAgrees, SameCommit, Agrees, Untouched

LEMMA OpKept ==
  ASSUME TypeOK, SaveUnderLock, [Next]_vars, NEW m, GoodMemory(m), m.tag <= clock,
         NEW before, GoodMemory(before), before.tag <= clock,
         NEW kind, OpAgrees(kind, m, before)
  PROVE  OpAgrees(kind, m, before)'
<1>1. m.tag \in Nat /\ before.tag \in Nat
  BY MemoryParts
<1>2. RestAgrees(before) => RestAgrees(before)'
  BY <1>1, RestKept
<1>3. ASSUME NEW f \in {disk', backup'}, SameCommit(m, f),
             \A g \in {disk, backup} : SameCommit(m, g) => Changed(kind, m, g)
      PROVE  Changed(kind, m, f)
  BY <1>1, <1>3, CommitKept
<1> QED
  BY <1>2, <1>3 DEF OpAgrees, SameCommit, Changed, Agrees, Untouched, UntouchedBut, LiveSlots

\* The tags a session may have.
LEMMA TagsPast ==
  ASSUME TypeOK, SaveUnderLock, SessionsFit, NEW s \in Sessions
  PROVE  /\ GoodMemory(mem[s]) /\ GoodMemory(pending[s].onFail)
         /\ pc[s] = "idle" => AtRest(mem[s]) /\ mem[s].tag <= clock
         /\ pc[s] \in Busy => mem[s].tag <= clock /\ pending[s].onFail.tag <= clock
<1>1. clock \in Nat
  BY DEF TypeOK
<1>2. pc[s] \in Busy => pending[s].onFail.tag <= clock
  BY <1>1 DEF SessionsFit, SessionFits, InOperation, KeysFit, AtRest, NoSession
<1> QED
  BY <1>2 DEF TypeOK, SessionsFit, SessionFits, InOperation, AtRest

LEMMA StaysAgree ==
  ASSUME TypeOK, SaveUnderLock, SessionsFit, SessionsAgree, [Next]_vars, NEW s \in Sessions,
         Stays(s)
  PROVE  Agreement(s)'
<1>1. Agreement(s)
  BY DEF SessionsAgree, SessionAgrees
<1>2. CASE pc[s] = "idle"
  <2>1. RestAgrees(mem[s])'
    <3>1. PICK m : m = mem[s]
      OBVIOUS
    <3>2. m.tag \in Nat /\ m.tag <= clock /\ RestAgrees(m) /\ mem'[s] = m
      BY <1>1, <1>2, <3>1, TagsPast, MemoryParts DEF Agreement, Stays
    <3>3. RestAgrees(m)'
      BY <3>2, RestKept
    <3> QED
      BY <3>2, <3>3 DEF RestAgrees
  <2> QED
    BY <1>2, <2>1 DEF Agreement, Stays, Busy, Critical
<1>3. CASE pc[s] \in Busy
  BY <1>1, <1>3, TagsPast, OpKept DEF Agreement, Stays, Kind, Busy, Critical
<1>4. CASE pc[s] # "idle" /\ pc[s] \notin Busy
  BY <1>4 DEF Stays, Agreement
<1> QED
  BY <1>2, <1>3, <1>4

\* An operation may start: what it makes of the session is judged by the files there are.
LEMMA PrepareAgrees ==
  ASSUME TypeOK, SaveUnderLock, SessionsFit, SessionsFit', TypeOK', [Next]_vars,
         NEW s \in Sessions, NEW from, NEW kind, NEW after, NEW onFail,
         Prepare(s, from, kind, after, onFail), OpAgrees(kind, after, onFail)
  PROVE  Agreement(s)'
<1>1. /\ pc'[s] = "ready" /\ mem'[s] = after
      /\ pending'[s] = [kind |-> kind, onFail |-> onFail]
      /\ UNCHANGED <<disk, backup, clock>>
  BY DEF Prepare, TypeOK
<1>2. OpAgrees(kind, after, onFail)'
  BY <1>1 DEF OpAgrees, RestAgrees, SameCommit, Changed, Agrees, Untouched, UntouchedBut, LiveSlots
<1> QED
  BY <1>1, <1>2 DEF Agreement, Kind

-----------------------------------------------------------------------------
(* The operations *)

\* The commit of a session that has just authenticated the file is that file.
LEMMA OneFile ==
  ASSUME SessionsFit, NEW m, m.tag = disk.tag, NEW f \in {disk, backup}, SameCommit(m, f)
  PROVE  f = disk
  BY DEF SessionsFit, SameCommit

\* No operation of its own forgets, or adds to, what a failed import has left.
LEMMA UnsavedKept ==
  ASSUME NEW m, GoodMemory(m), NEW i, NEW t, NEW v, NEW items, NEW new
  PROVE  /\ Opened(m, i).unsaved = m.unsaved /\ AllOpened(m).unsaved = m.unsaved
         /\ WithAdded(m, items).unsaved = m.unsaved /\ WithRecords(m, new).unsaved = m.unsaved
         /\ Edited(m, i, t, v).unsaved = m.unsaved /\ Tombstoned(m, i).unsaved = m.unsaved
  BY DEF GoodMemory, Memory, Opened, AllOpened, WithAdded, WithRecords, Edited, Tombstoned

\* The slots of the commit are slots of the session, and at rest the only ones.
LEMMA CommitSlots ==
  ASSUME TypeOK, NEW m, GoodMemory(m), AtRest(m), NEW f \in {disk, backup}, SameCommit(m, f)
  PROVE  /\ DOMAIN f.index \subseteq DOMAIN m.entries
         /\ Len(m.entries) = Len(f.index) => DOMAIN f.index = DOMAIN m.entries
<1>1. GoodFile(f) /\ Extends(m, f)
  BY DEF TypeOK, AtRest
<1>2. f.index \in Seq(Entry)
  BY <1>1 DEF GoodFile, File
<1> QED
  BY <1>1, <1>2, IndexWithin, MemoryParts, SeqShape

LEMMA OpenedAgrees ==
  ASSUME TypeOK, SessionsFit, NEW m, GoodMemory(m), AtRest(m), Authentic(m, m.dek),
         RestAgrees(m), NEW i \in LiveSlots(m)
  PROVE  RestAgrees(Opened(m, i))
<1> DEFINE n == Opened(m, i)
<1>1. i \in DOMAIN m.entries
  BY DEF LiveSlots
<1>2. /\ n.tag = m.tag /\ n.entries = m.entries /\ n.unsaved = m.unsaved
      /\ \A j \in DOMAIN m.entries : n.cache[j] \in {m.cache[j], disk.frames[j].val}
  <2>1. n.unsaved = m.unsaved
    BY UnsavedKept
  <2>2. /\ n.tag = m.tag /\ n.entries = m.entries
        /\ \A j \in DOMAIN m.entries : n.cache[j] \in {m.cache[j], disk.frames[j].val}
    BY <1>1, OpenedParts
  <2> QED
    BY <2>1, <2>2
<1> HIDE DEF n
<1>3. ASSUME NEW f \in {disk, backup}, SameCommit(n, f)
      PROVE  /\ Agrees(n, f)
             /\ ~RetryAfterFailure => Len(n.entries) = Len(f.index)
  <2>1. SameCommit(m, f) /\ f = disk
    BY <1>2, <1>3, OneFile DEF SameCommit, Authentic
  <2>2. DOMAIN f.index \subseteq DOMAIN m.entries
    BY <2>1, CommitSlots
  <2> QED
    BY <1>2, <2>1, <2>2 DEF RestAgrees, Agrees, Untouched
<1> QED
  BY <1>2, <1>3 DEF RestAgrees, n

LEMMA AllOpenedAgrees ==
  ASSUME TypeOK, SessionsFit, NEW m, GoodMemory(m), AtRest(m), Authentic(m, m.dek),
         RestAgrees(m)
  PROVE  RestAgrees(AllOpened(m))
<1> DEFINE n == AllOpened(m)
<1>1. /\ n.tag = m.tag /\ n.entries = m.entries /\ n.unsaved = m.unsaved
      /\ \A j \in DOMAIN m.entries : n.cache[j] \in {m.cache[j], disk.frames[j].val}
  BY AllOpenedParts, UnsavedKept
<1> HIDE DEF n
<1>2. ASSUME NEW f \in {disk, backup}, SameCommit(n, f)
      PROVE  /\ Agrees(n, f)
             /\ ~RetryAfterFailure => Len(n.entries) = Len(f.index)
  <2>1. SameCommit(m, f) /\ f = disk
    BY <1>1, <1>2, OneFile DEF SameCommit, Authentic
  <2>2. DOMAIN f.index \subseteq DOMAIN m.entries
    BY <2>1, CommitSlots
  <2> QED
    BY <1>1, <2>1, <2>2 DEF RestAgrees, Agrees, Untouched
<1> QED
  BY <1>1, <1>2 DEF RestAgrees, n

LEMMA AddedLength ==
  ASSUME NEW m, GoodMemory(m), NEW items \in Seq(Titles \X Secrets)
  PROVE  Len(WithAdded(m, items).entries) = Len(m.entries) + Len(items)
<1> DEFINE e == [j \in DOMAIN items |->
                   [id |-> m.nextId + (j - 1), live |-> TRUE, title |-> items[j][1]]]
<1>1. /\ Len(items) \in Nat /\ DOMAIN items = 1 .. Len(items)
      /\ \A j \in DOMAIN items : items[j][1] \in Titles
  <2>1. \A j \in DOMAIN items : items[j] \in Titles \X Secrets
    BY SeqShape
  <2> QED
    BY <2>1, SeqShape
<1>2. e \in Seq(Entry) /\ Len(e) = Len(items)
  <2>1. e \in [1 .. Len(items) -> Entry]
    BY <1>1, MemoryParts DEF Entry
  <2> QED
    BY <1>1, <2>1, SeqFrom
<1>3. WithAdded(m, items).entries = m.entries \o e
  BY DEF WithAdded, GoodMemory, Memory
<1>4. m.entries \in Seq(Entry)
  BY MemoryParts
<1> HIDE DEF e
<1>5. Len(m.entries \o e) = Len(m.entries) + Len(e)
  BY <1>2, <1>4, ConcatProperties, Zenon
<1> QED
  BY <1>2, <1>3, <1>5

LEMMA AddAgrees ==
  ASSUME TypeOK, NEW m, GoodMemory(m), AtRest(m), RestAgrees(m), NEW t \in Titles,
         NEW v \in Secrets
  PROVE  LET n == WithAdded(m, <<<<t, v>>>>)
         IN  OpAgrees("add", n, n)
<1> DEFINE items == <<<<t, v>>>>
           n == WithAdded(m, items)
<1>1. items \in Seq(Titles \X Secrets) /\ Len(items) = 1
  OBVIOUS
<1> HIDE DEF items
<1>2. /\ n.tag = m.tag /\ n.unsaved = m.unsaved
      /\ \A j \in DOMAIN m.entries : n.entries[j] = m.entries[j] /\ n.cache[j] = m.cache[j]
      /\ \A j \in DOMAIN n.entries \ DOMAIN m.entries : n.entries[j].live
  BY <1>1, WithAddedParts, UnsavedKept
<1>3. Len(n.entries) = Len(m.entries) + 1
  BY <1>1, AddedLength
<1>4. GoodMemory(n)
  BY <1>1, WithAddedGood
<1> HIDE DEF n
<1>5. Len(n.entries) \in DOMAIN n.entries \ DOMAIN m.entries
  BY <1>3, <1>4, MemoryParts
<1>6. ASSUME NEW f \in {disk, backup}, SameCommit(n, f)
      PROVE  /\ SameCommit(m, f) /\ Agrees(n, f)
             /\ ~RetryAfterFailure => Changed("add", n, f)
  <2>1. SameCommit(m, f)
    BY <1>2, <1>6 DEF SameCommit
  <2>2. DOMAIN f.index \subseteq DOMAIN m.entries
    BY <2>1, CommitSlots
  <2> QED
    BY <1>2, <1>3, <1>5, <2>1, <2>2 DEF RestAgrees, Agrees, Untouched, Changed
<1> QED
  BY <1>2, <1>6 DEF OpAgrees, Saves, RestAgrees, n, items

LEMMA UpdateAgrees ==
  ASSUME TypeOK, NEW m, GoodMemory(m), AtRest(m), RestAgrees(m), NEW i \in LiveSlots(m),
         NEW t \in Titles, NEW v \in Secrets
  PROVE  OpAgrees("update", Edited(m, i, t, v), m)
<1> DEFINE n == Edited(m, i, t, v)
<1>1. i \in DOMAIN m.entries /\ m.entries[i] \in Entry /\ m.entries[i].live
  BY MemoryParts, SeqShape DEF LiveSlots
<1>2. GoodMemory(n)
  BY <1>1, EntryEdited
<1>3. /\ n.tag = m.tag
      /\ n.entries = [m.entries EXCEPT ![i] = [m.entries[i] EXCEPT !.title = t]]
      /\ n.cache = [m.cache EXCEPT ![i] = v] /\ n.unsaved = m.unsaved
  BY DEF GoodMemory, Memory, Edited
<1> HIDE DEF n
<1>4. /\ DOMAIN n.entries = DOMAIN m.entries /\ i \in LiveSlots(n)
      /\ \A j \in DOMAIN m.entries \ {i} : /\ n.entries[j] = m.entries[j]
                                          /\ n.cache[j] = m.cache[j]
  BY <1>1, <1>3, MemoryParts DEF Entry, LiveSlots
<1>5. Len(n.entries) = Len(m.entries)
  BY <1>2, <1>4, MemoryParts
<1>6. ASSUME NEW f \in {disk, backup}, SameCommit(n, f), ~RetryAfterFailure
      PROVE  Changed("update", n, f)
  <2>1. SameCommit(m, f)
    BY <1>3, <1>6 DEF SameCommit
  <2>2. DOMAIN f.index \subseteq DOMAIN m.entries
    BY <2>1, CommitSlots
  <2>3. UntouchedBut(i, n, f) /\ Len(m.entries) = Len(f.index)
    BY <1>4, <1>6, <2>1, <2>2 DEF RestAgrees, Agrees, Untouched, UntouchedBut
  <2> QED
    BY <1>4, <1>5, <2>3 DEF Changed
<1>7. ~RetryAfterFailure => n.unsaved = {}
  BY <1>3 DEF RestAgrees
<1> QED
  BY <1>6, <1>7 DEF OpAgrees, Saves, n

LEMMA DeleteAgrees ==
  ASSUME TypeOK, NEW m, GoodMemory(m), AtRest(m), RestAgrees(m), NEW i \in LiveSlots(m)
  PROVE  OpAgrees("delete", Tombstoned(m, i), m)
<1> DEFINE n == Tombstoned(m, i)
<1>1. i \in DOMAIN m.entries /\ m.entries[i] \in Entry /\ m.entries[i].live
  BY MemoryParts, SeqShape DEF LiveSlots
<1>2. GoodMemory(n)
  BY <1>1, EntryRetired
<1>3. /\ n.tag = m.tag
      /\ n.entries = [m.entries EXCEPT ![i] = [m.entries[i] EXCEPT !.live = FALSE]]
      /\ n.cache = [m.cache EXCEPT ![i] = NotOpen] /\ n.unsaved = m.unsaved
  BY DEF GoodMemory, Memory, Tombstoned
<1> HIDE DEF n
<1>4. /\ DOMAIN n.entries = DOMAIN m.entries /\ ~n.entries[i].live /\ n.unsaved = m.unsaved
      /\ \A j \in DOMAIN m.entries \ {i} : /\ n.entries[j] = m.entries[j]
                                          /\ n.cache[j] = m.cache[j]
  BY <1>1, <1>3, MemoryParts DEF Entry
<1>5. Len(n.entries) = Len(m.entries)
  BY <1>2, <1>4, MemoryParts
<1>6. ASSUME NEW f \in {disk, backup}, SameCommit(n, f), ~RetryAfterFailure
      PROVE  Changed("delete", n, f)
  <2>1. SameCommit(m, f)
    BY <1>3, <1>6 DEF SameCommit
  <2>2. Len(m.entries) = Len(f.index) /\ Agrees(m, f)
    BY <1>6, <2>1 DEF RestAgrees
  <2>3. DOMAIN f.index = DOMAIN m.entries
    BY <2>1, <2>2, CommitSlots
  <2>4. UntouchedBut(i, n, f) /\ f.index[i].live
    BY <1>1, <1>4, <2>2, <2>3 DEF Agrees, Untouched, UntouchedBut
  <2> QED
    BY <1>1, <1>4, <1>5, <2>2, <2>3, <2>4 DEF Changed
<1>7. ~RetryAfterFailure => n.unsaved = {}
  BY <1>3 DEF RestAgrees
<1> QED
  BY <1>6, <1>7 DEF OpAgrees, Saves, n

\* A failed import leaves its records where the commit had others, and says where.
LEMMA ImportAgrees ==
  ASSUME TypeOK, NEW m, GoodMemory(m), AtRest(m), RestAgrees(m),
         NEW items \in Seq(Titles \X Secrets), NEW updated \in SUBSET LiveSlots(m),
         NEW new \in [updated -> Secrets]
  PROVE  LET n == WithAdded(WithRecords(m, new), items)
         IN  OpAgrees("import", n, LeftBehind(n, updated))
<1> DEFINE r == WithRecords(m, new)
           n == WithAdded(r, items)
           b == LeftBehind(n, updated)
<1>1. /\ GoodMemory(r) /\ r.tag = m.tag /\ r.entries = m.entries /\ r.unsaved = m.unsaved
      /\ \A j \in DOMAIN m.entries \ updated : r.cache[j] = m.cache[j]
  <2>1. GoodMemory(WithRecords(m, new))
    BY WithRecordsGood
  <2>2. /\ WithRecords(m, new).tag = m.tag /\ WithRecords(m, new).entries = m.entries
        /\ \A j \in DOMAIN m.entries \ updated : WithRecords(m, new).cache[j] = m.cache[j]
    BY WithRecordsParts
  <2>3. WithRecords(m, new).unsaved = m.unsaved
    BY UnsavedKept
  <2> QED
    BY <2>1, <2>2, <2>3
<1> HIDE DEF r
<1>2. /\ GoodMemory(n) /\ n.tag = m.tag /\ n.unsaved = m.unsaved
      /\ \A j \in DOMAIN m.entries : n.entries[j] = m.entries[j] /\ n.cache[j] = r.cache[j]
      /\ \A j \in DOMAIN n.entries \ DOMAIN m.entries : n.entries[j].live
  BY <1>1, WithAddedParts, WithAddedGood, UnsavedKept
<1> HIDE DEF n
<1>3. ASSUME NEW f \in {disk, backup}, SameCommit(n, f), ~RetryAfterFailure
      PROVE  Changed("import", n, f)
  <2>1. SameCommit(m, f)
    BY <1>2, <1>3 DEF SameCommit
  <2>2. Len(m.entries) = Len(f.index) /\ Agrees(m, f)
    BY <1>3, <2>1 DEF RestAgrees
  <2>3. DOMAIN f.index = DOMAIN m.entries
    BY <2>1, <2>2, CommitSlots
  <2> QED
    BY <1>2, <2>2, <2>3 DEF Agrees, Untouched, Changed
<1>4. CASE ~RetryAfterFailure
  <2>1. n.unsaved = {}
    BY <1>2, <1>4 DEF RestAgrees
  <2> QED
    BY <1>3, <1>4, <2>1 DEF OpAgrees, Saves, n, r
<1>5. CASE RetryAfterFailure
  <2>1. b.tag = m.tag /\ b.entries = n.entries /\ b.cache = n.cache
        /\ b.unsaved = m.unsaved \cup updated
    <3>1. updated \in SUBSET Nat
      BY MemoryParts DEF LiveSlots
    <3> QED
      BY <1>2, <3>1, LeftBehindParts
  <2> HIDE DEF b
  <2>2. ASSUME NEW f \in {disk, backup}, SameCommit(b, f) PROVE Agrees(b, f)
    <3>1. SameCommit(m, f)
      BY <2>1, <2>2 DEF SameCommit
    <3>2. DOMAIN f.index \subseteq DOMAIN m.entries /\ Agrees(m, f)
      BY <3>1, CommitSlots DEF RestAgrees
    <3> QED
      BY <1>1, <1>2, <2>1, <3>2 DEF Agrees, Untouched
  <2>3. RestAgrees(b)
    BY <1>5, <2>2 DEF RestAgrees
  <2> QED
    BY <1>5, <2>3 DEF OpAgrees, Saves, b, n, r
<1> QED
  BY <1>4, <1>5

\* A rotation and a new master password change keys only.
LEMMA RekeyAgrees ==
  ASSUME TypeOK, NEW m, GoodMemory(m), AtRest(m), RestAgrees(m), NEW n,
         n.tag = m.tag, n.entries = m.entries, n.cache = m.cache, n.unsaved = m.unsaved,
         NEW kind \in {"rotate", "password"}
  PROVE  OpAgrees(kind, n, m)
<1>1. ASSUME NEW f \in {disk, backup}, SameCommit(n, f), ~RetryAfterFailure
      PROVE  Changed(kind, n, f)
  BY <1>1 DEF RestAgrees, SameCommit, Agrees, Untouched, Changed
<1>2. kind \in Saves
  BY DEF Saves
<1>3. /\ ~RetryAfterFailure => n.unsaved = {}
      /\ \A f \in {disk, backup} : ~RetryAfterFailure /\ SameCommit(n, f) => Changed(kind, n, f)
  BY <1>1 DEF RestAgrees
<1> QED
  BY <1>2, <1>3, RetryAssumption DEF OpAgrees

LEMMA OperationAgrees ==
  ASSUME TypeOK, SaveUnderLock, SessionsFit, SessionsAgree,
         TypeOK', SessionsFit', [Next]_vars, NEW s \in Sessions, Create(s) \/ Operation(s)
  PROVE  Agreement(s)'
<1> DEFINE m == mem[s]
<1>1. GoodMemory(m) /\ GoodFile(disk)
  BY DEF TypeOK
<1>2. pc[s] = "idle" => AtRest(m) /\ RestAgrees(m)
  BY TagsPast DEF SessionsAgree, SessionAgrees, Agreement
<1>3. CASE Create(s)
  <2> DEFINE after(pw) == [NoSession EXCEPT !.dek = Draw(s), !.kek = [pw |-> pw, salt |-> Draw(s)]]
  <2>1. PICK pw \in Passwords : Prepare(s, "closed", "create", after(pw), NoSession)
    BY <1>3 DEF Create
  <2> HIDE DEF after
  <2>2. OpAgrees("create", after(pw), NoSession)
    BY DEF OpAgrees, Saves
  <2> QED
    BY <2>1, <2>2, PrepareAgrees
<1>4. CASE AddEntry(s)
  <2>1. PICK t \in Titles, v \in Secrets :
          Prepare(s, "idle", "add", WithAdded(m, <<<<t, v>>>>), WithAdded(m, <<<<t, v>>>>))
    BY <1>4 DEF AddEntry
  <2> DEFINE n == WithAdded(m, <<<<t, v>>>>)
  <2>2. OpAgrees("add", n, n)
    BY <1>1, <1>2, <2>1, AddAgrees DEF Prepare
  <2> HIDE DEF n
  <2> QED
    BY <2>1, <2>2, PrepareAgrees DEF n
<1>5. CASE UpdateEntry(s)
  <2>1. PICK i \in LiveSlots(m), t \in Titles, v \in Secrets :
          /\ CanOpen(m, i)
          /\ Prepare(s, "idle", "update", Edited(Opened(m, i), i, t, v), Opened(m, i))
    BY <1>5 DEF UpdateEntry
  <2> DEFINE b == Opened(m, i)
             n == Edited(b, i, t, v)
  <2>2. pc[s] = "idle" /\ Authentic(m, m.dek)
    BY <1>5, <2>1 DEF UpdateEntry, Prepare
  <2>3. GoodMemory(b) /\ AtRest(b) /\ RestAgrees(b)
    BY <1>1, <1>2, <2>1, <2>2, OpenedAtRest, OpenedAgrees
  <2>4. i \in LiveSlots(b)
    BY <1>1, OpenedParts DEF LiveSlots
  <2> HIDE DEF b
  <2>5. OpAgrees("update", n, b)
    BY <2>3, <2>4, UpdateAgrees
  <2> HIDE DEF n
  <2> QED
    BY <2>1, <2>5, PrepareAgrees DEF n, b
<1>6. CASE DeleteEntry(s)
  <2>1. PICK i \in LiveSlots(m) : Prepare(s, "idle", "delete", Tombstoned(m, i), m)
    BY <1>6 DEF DeleteEntry
  <2>2. OpAgrees("delete", Tombstoned(m, i), m)
    BY <1>1, <1>2, <2>1, DeleteAgrees DEF Prepare
  <2> QED
    BY <2>1, <2>2, PrepareAgrees
<1>7. CASE Import(s)
  <2> DEFINE After(new, items) == WithAdded(WithRecords(m, new), items)
  <2>1. PICK k \in 0 .. MaxBatch :
          \E items \in [1 .. k -> Titles \X Secrets] : \E updated \in SUBSET LiveSlots(m) :
          \E new \in [updated -> Secrets] :
            Prepare(s, "idle", "import", After(new, items), LeftBehind(After(new, items), updated))
    BY <1>7 DEF Import
  <2>2. PICK items \in [1 .. k -> Titles \X Secrets], updated \in SUBSET LiveSlots(m) :
          \E new \in [updated -> Secrets] :
            Prepare(s, "idle", "import", After(new, items), LeftBehind(After(new, items), updated))
    BY <2>1
  <2>3. PICK new \in [updated -> Secrets] :
          Prepare(s, "idle", "import", After(new, items), LeftBehind(After(new, items), updated))
    BY <2>2
  <2> DEFINE n == After(new, items)
             b == LeftBehind(n, updated)
  <2>4. items \in Seq(Titles \X Secrets)
    BY SeqFrom, BoundsAssumption
  <2>5. pc[s] = "idle"
    BY <2>3 DEF Prepare
  <2>6. OpAgrees("import", n, b)
    BY <1>1, <1>2, <2>4, <2>5, ImportAgrees
  <2> HIDE DEF n, b, After
  <2> QED
    BY <2>3, <2>6, PrepareAgrees DEF n, b
<1>8. CASE Rotate(s)
  <2> DEFINE b == AllOpened(m)
             n(pw) == [b EXCEPT !.dek = Draw(s), !.kek = [pw |-> pw, salt |-> Draw(s)]]
  <2>1. PICK pw \in Passwords : Prepare(s, "idle", "rotate", n(pw), b)
    BY <1>8 DEF Rotate
  <2>2. pc[s] = "idle" /\ Authentic(m, m.dek) /\ Len(disk.frames) = Len(m.entries)
    BY <1>8, <2>1 DEF Rotate, Prepare
  <2>3. GoodMemory(b) /\ AtRest(b) /\ RestAgrees(b)
    BY <1>1, <1>2, <2>2, AllOpenedAtRest, AllOpenedAgrees
  <2> HIDE DEF b
  <2>4. /\ n(pw).tag = b.tag /\ n(pw).entries = b.entries /\ n(pw).cache = b.cache
        /\ n(pw).unsaved = b.unsaved
    BY <2>3 DEF GoodMemory, Memory
  <2> HIDE DEF n
  <2>5. OpAgrees("rotate", n(pw), b)
    BY <2>3, <2>4, RekeyAgrees
  <2> QED
    BY <2>1, <2>5, PrepareAgrees
<1>9. CASE ChangePassword(s)
  <2> DEFINE n(pw) == [m EXCEPT !.kek = [pw |-> pw, salt |-> Draw(s)]]
  <2>1. PICK pw \in Passwords : Prepare(s, "idle", "password", n(pw), m)
    BY <1>9 DEF ChangePassword
  <2>2. AtRest(m) /\ RestAgrees(m)
    BY <1>2, <2>1 DEF Prepare
  <2>3. /\ n(pw).tag = m.tag /\ n(pw).entries = m.entries /\ n(pw).cache = m.cache
        /\ n(pw).unsaved = m.unsaved
    BY <1>1 DEF GoodMemory, Memory
  <2> HIDE DEF n
  <2>4. OpAgrees("password", n(pw), m)
    BY <1>1, <2>2, <2>3, RekeyAgrees
  <2> QED
    BY <2>1, <2>4, PrepareAgrees
<1> QED
  BY <1>3, <1>4, <1>5, <1>6, <1>7, <1>8, <1>9 DEF Operation

-----------------------------------------------------------------------------
(* Sessions and saves *)

LEMMA RestNow ==
  ASSUME NEW m, RestAgrees(m), UNCHANGED <<disk, backup>>
  PROVE  RestAgrees(m)'
  BY DEF RestAgrees, SameCommit, Agrees, Untouched

LEMMA SessionStepAgrees ==
  ASSUME TypeOK, SaveUnderLock, SessionsFit, SessionsAgree, NEW s \in Sessions,
         Open(s) \/ Close(s) \/ OpenItem(s) \/ StaleBeforeLock(s)
  PROVE  Agreement(s)'
<1>1. UNCHANGED <<disk, backup>>
  BY DEF Open, Close, OpenItem, StaleBeforeLock
<1>2. CASE Open(s)
  <2> DEFINE m == [tag |-> disk.tag, dek |-> disk.dek, kek |-> disk.kdf, entries |-> disk.index,
                   cache |-> [i \in DOMAIN disk.index |-> NotOpen],
                   nextId |-> NextIdOf(disk.index), unsaved |-> {}]
  <2>1. m.tag = disk.tag /\ m.entries = disk.index /\ m.unsaved = {}
        /\ \A j \in DOMAIN disk.index : m.cache[j] = NotOpen
    OBVIOUS
  <2>2. pc'[s] = "idle" /\ mem'[s] = m
    BY <1>2 DEF Open, TypeOK
  <2> HIDE DEF m
  <2>3. RestAgrees(m)
    BY <2>1, OneFile DEF RestAgrees, Agrees, Untouched
  <2>4. PICK n : n = m
    OBVIOUS
  <2>5. RestAgrees(n)'
    BY <1>1, <2>3, <2>4, RestNow
  <2> QED
    BY <2>2, <2>4, <2>5 DEF Agreement, Busy, Critical, RestAgrees
<1>3. CASE OpenItem(s)
  <2>1. PICK i \in LiveSlots(mem[s]) :
          CanOpen(mem[s], i) /\ mem' = [mem EXCEPT ![s] = Opened(mem[s], i)]
    BY <1>3 DEF OpenItem
  <2>2. pc[s] = "idle" /\ pc'[s] = "idle" /\ Authentic(mem[s], mem[s].dek)
    BY <1>3 DEF OpenItem
  <2>3. RestAgrees(Opened(mem[s], i))
    BY <2>2, TagsPast, OpenedAgrees DEF SessionsAgree, SessionAgrees, Agreement
  <2>4. PICK n : n = Opened(mem[s], i)
    OBVIOUS
  <2>5. RestAgrees(n)' /\ mem'[s] = n
    BY <1>1, <2>1, <2>3, <2>4, RestNow DEF TypeOK
  <2> QED
    BY <2>2, <2>5 DEF Agreement, Busy, Critical, RestAgrees
<1>4. CASE Close(s) \/ StaleBeforeLock(s)
  BY <1>4 DEF Close, StaleBeforeLock, Agreement, Busy, Critical, TypeOK
<1> QED
  BY <1>2, <1>3, <1>4

\* A failed operation leaves the session that agreed before it.
LEMMA FailAgrees ==
  ASSUME TypeOK, SessionsFit, SessionsAgree, NEW s \in Sessions, pc[s] \in Busy, Fail(s),
         UNCHANGED <<disk, backup>>
  PROVE  Agreement(s)'
<1>1. CASE Kind(s) = "create" \/ ~RetryAfterFailure
  BY <1>1 DEF Fail, Agreement, Busy, Critical, TypeOK
<1>2. CASE Kind(s) # "create" /\ RetryAfterFailure
  <2>1. PICK n : n = pending[s].onFail
    OBVIOUS
  <2>2. pc'[s] = "idle" /\ mem'[s] = n
    BY <1>2, <2>1 DEF Fail, AfterFailure, TypeOK
  <2>3. RestAgrees(n)
    BY <1>2, <2>1 DEF SessionsAgree, SessionAgrees, Agreement, OpAgrees
  <2>4. RestAgrees(n)'
    BY <2>3, RestNow
  <2> QED
    BY <2>2, <2>4 DEF Agreement, Busy, Critical, RestAgrees
<1> QED
  BY <1>1, <1>2

\* The save goes on: mem and the operation stay, and the file changes only by a rename.
LEMMA SavingAgrees ==
  ASSUME TypeOK, TypeOK', SaveUnderLock, SessionsFit, SessionsAgree, [Next]_vars,
         NEW s \in Sessions, TakeLock(s) \/ Build(s) \/ Publish(s)
  PROVE  Agreement(s)'
<1>1. /\ pc[s] \in Busy /\ pc'[s] \in Busy
      /\ mem'[s] = mem[s] /\ pending'[s] = pending[s]
  BY DEF TakeLock, Build, Publish, Busy, Critical, TypeOK
<1>2. OpAgrees(Kind(s), mem[s], pending[s].onFail)
  BY <1>1 DEF SessionsAgree, SessionAgrees, Agreement
<1>3. PICK kind, m, before : kind = Kind(s) /\ m = mem[s] /\ before = pending[s].onFail
  OBVIOUS
<1>4. OpAgrees(kind, m, before)'
  BY <1>1, <1>2, <1>3, TagsPast, OpKept
<1>5. pc'[s] # "idle" /\ Kind(s)' = kind /\ mem'[s] = m /\ pending'[s].onFail = before
  BY <1>1, <1>3 DEF Kind, Busy, Critical
<1>6. OpAgrees(Kind(s), mem[s], pending[s].onFail)'
  BY <1>4, <1>5 DEF OpAgrees, RestAgrees, SameCommit, Changed, Agrees, Untouched,
                    UntouchedBut, LiveSlots
<1> QED
  BY <1>5, <1>6 DEF Agreement

\* The session adopts the commit: what it holds is what it has just written.
LEMMA AdoptAgrees ==
  ASSUME TypeOK, SaveUnderLock, SessionsFit, SessionsAgree, NEW s \in Sessions, Adopt(s)
  PROVE  Agreement(s)'
<1>1. pc[s] = "renamed" /\ UNCHANGED <<disk, backup>>
  BY DEF Adopt
<1>2. /\ disk = draft /\ draft.index = mem[s].entries
      /\ Holds(s) /\ GoodMemory(mem[s])
  BY <1>1 DEF SessionsFit, SessionFits, Drafted, SessionsAgree, SessionAgrees, TypeOK
<1>3. PICK n : n = Saved(mem[s], draft.tag)
  OBVIOUS
<1>4. /\ n.tag = disk.tag /\ n.entries = mem[s].entries /\ n.cache = mem[s].cache
      /\ n.unsaved = {}
  BY <1>2, <1>3 DEF GoodMemory, Memory, Saved
<1>5. RestAgrees(n)
  BY <1>2, <1>4, OneFile DEF RestAgrees, Agrees, Untouched, Holds
<1>6. RestAgrees(n)' /\ pc'[s] = "idle" /\ mem'[s] = n
  BY <1>1, <1>3, <1>5, RestNow DEF Adopt, TypeOK
<1> QED
  BY <1>6 DEF Agreement, Busy, Critical, RestAgrees

LEMMA ProceedAgrees ==
  ASSUME TypeOK, TypeOK', SaveUnderLock, SessionsFit, SessionsAgree, [Next]_vars,
         NEW s \in Sessions, Proceed(s) \/ WriteFails(s) \/ Crash(s)
  PROVE  Agreement(s)'
<1>1. CASE TakeLock(s) \/ Build(s) \/ Publish(s)
  BY <1>1, SavingAgrees
<1>2. CASE Adopt(s)
  BY <1>2, AdoptAgrees
<1>3. CASE LockBusy(s) \/ Refuse(s) \/ WriteFails(s)
  <2>1. pc[s] \in Busy /\ Fail(s) /\ UNCHANGED <<disk, backup>>
    BY <1>3 DEF LockBusy, Refuse, WriteFails, Busy, Critical
  <2> QED
    BY <2>1, FailAgrees
<1>4. CASE Crash(s)
  BY <1>4 DEF Crash, Agreement, Busy, Critical, TypeOK
<1> QED
  BY <1>1, <1>2, <1>3, <1>4 DEF Proceed

LEMMA AgreementKept ==
  ASSUME TypeOK, TypeOK', SaveUnderLock, SessionsFit, SessionsFit', SessionsAgree,
         [Next]_vars, NEW s \in Sessions
  PROVE  Agreement(s)'
<1>1. CASE Stays(s)
  BY <1>1, StaysAgree
<1>2. CASE Create(s) \/ Operation(s)
  BY <1>2, OperationAgrees
<1>3. CASE Open(s) \/ Close(s) \/ OpenItem(s) \/ StaleBeforeLock(s)
  BY <1>3, SessionStepAgrees
<1>4. CASE Proceed(s) \/ WriteFails(s) \/ Crash(s)
  BY <1>4, ProceedAgrees
<1> QED
  BY <1>1, <1>2, <1>3, <1>4, StaysOrActs DEF Acts

-----------------------------------------------------------------------------
(* What a save writes *)

\* The file a session builds copies the frames it does not seal from their own slot.
LEMMA FramesBuilt ==
  ASSUME TypeOK, SessionsFit, NEW s \in Sessions, Build(s), NEW i \in DOMAIN mem[s].entries
  PROVE  LET frame == NewFile(s).frames[i]
         IN  /\ mem[s].cache[i] # NotOpen => frame.val = mem[s].cache[i]
             /\ ~Resealed(mem[s], i) => i \in DOMAIN disk.index /\ frame = disk.frames[i]
<1> DEFINE m == mem[s]
           before == pending[s].onFail
           f == NewFile(s)
<1>1. GoodMemory(m) /\ GoodFile(disk) /\ Copyable(s) /\ StillCurrent(s)
  BY DEF TypeOK, Build
<1>2. /\ KeysFit(Kind(s), m, before)
      /\ \A g \in {disk, backup} : SameCommit(m, g) => Extends(m, g)
  BY DEF SessionsFit, SessionFits, InOperation, Build, Busy, Critical
<1>3. f.frames[i] = NewFrame(s, i)
  BY DEF NewFile
<1> HIDE DEF f
<1>4. m.cache[i] # NotOpen => f.frames[i].val = m.cache[i]
  BY <1>3 DEF NewFrame, Sealed
<1>5. ASSUME ~Resealed(m, i) PROVE i \in DOMAIN disk.index /\ f.frames[i] = disk.frames[i]
  <2> DEFINE j == OldSlot(m.entries[i].id)
  <2>1. j \in DOMAIN disk.index /\ disk.index[j].id = m.entries[i].id
    BY <1>1, <1>5 DEF Copyable, OnDisk, OldSlot
  <2>2. m.entries # <<>> /\ Kind(s) # "create"
    BY <1>1, <1>2, MemoryParts, EmptySeq DEF KeysFit
  <2>3. m.tag = disk.tag /\ m.tag # 0
    BY <1>1, <1>2, <2>2 DEF KeysFit, AtRest, StillCurrent, Authentic
  <2>4. Extends(m, disk)
    BY <1>2, <2>3 DEF SameCommit
  <2>5. j \in DOMAIN m.entries /\ m.entries[j].id = m.entries[i].id
    BY <1>1, <2>1, <2>4, IndexWithin DEF Extends
  <2>6. j = i
    BY <1>1, <2>5, IdsDiffer
  <2> QED
    BY <1>3, <1>5, <2>1, <2>6 DEF NewFrame, Resealed
<1> QED
  BY <1>4, <1>5 DEF f

LEMMA BuildFollows ==
  ASSUME TypeOK, SessionsFit, NEW s \in Sessions, Build(s)
  PROVE  BuiltFrom(s)'
<1>1. draft' = NewFile(s) /\ UNCHANGED <<disk, mem, pending>>
  BY DEF Build
<1>2. NewFile(s).op = Kind(s)
  BY DEF NewFile
<1> QED
  BY <1>1, <1>2, FramesBuilt DEF BuiltFrom, Kind, Resealed

LEMMA PublishHolds ==
  ASSUME TypeOK, SessionsFit, SessionsAgree, NEW s \in Sessions, Publish(s)
  PROVE  Holds(s)'
<1>1. BuiltFrom(s) /\ UNCHANGED <<mem, draft>>
  BY DEF Publish, SessionsAgree, SessionAgrees
<1> QED
  BY <1>1 DEF BuiltFrom, Holds

LEMMA NextAgrees ==
  ASSUME TypeOK, TypeOK', SaveUnderLock, SessionsFit, SessionsFit', SessionsAgree,
         [Next]_vars
  PROVE  SessionsAgree'
<1> SUFFICES ASSUME NEW s \in Sessions PROVE SessionAgrees(s)'
  BY DEF SessionsAgree
<1>1. Agreement(s)'
  BY AgreementKept
<1>2. pc'[s] = "built" => BuiltFrom(s)'
  <2> SUFFICES ASSUME pc'[s] = "built" PROVE BuiltFrom(s)'
    OBVIOUS
  <2>1. CASE Build(s)
    BY <2>1, BuildFollows
  <2>2. CASE Stays(s) /\ UNCHANGED <<disk, draft, clock>>
    BY <2>2 DEF Stays, SessionsAgree, SessionAgrees, BuiltFrom, Kind, Resealed
  <2> QED
    BY <2>1, <2>2, SaveMoves
<1>3. pc'[s] = "renamed" => Holds(s)'
  <2> SUFFICES ASSUME pc'[s] = "renamed" PROVE Holds(s)'
    OBVIOUS
  <2>1. CASE Publish(s)
    BY <2>1, PublishHolds
  <2>2. CASE Stays(s) /\ UNCHANGED <<disk, draft, clock>>
    BY <2>2 DEF Stays, SessionsAgree, SessionAgrees, Holds
  <2> QED
    BY <2>1, <2>2, SaveMoves
<1> QED
  BY <1>1, <1>2, <1>3 DEF SessionAgrees

LEMMA InitAgrees == Init => SessionsAgree
BY DEF Init, SessionsAgree, SessionAgrees, Agreement, Busy, Critical

\* A session agrees with its commit at every point of every operation, and what
\* a save builds keeps every record that the operation does not change
\* (save_with_header_locked), but for those a failed import has left replaced.
THEOREM SessionsAlwaysAgree == Spec => []SessionsAgree
<1>1. Init => SessionsAgree
  BY InitAgrees
<1>2. /\ TypeOK /\ TypeOK' /\ SaveUnderLock /\ SessionsFit /\ SessionsFit' /\ SessionsAgree
      /\ [Next]_vars
      => SessionsAgree'
  BY NextAgrees
<1> QED
  BY <1>1, <1>2, TypeCorrect, SavesExcludeEachOther, SessionsAlwaysFit, PTL DEF Spec

\* Whatever operation failed, at whatever step, and however often the caller goes on,
\* the session has the keys and entries of its commit (the rollbacks of commit_entry,
\* commit_tombstone, rotate and change_password), and of every record it holds the one
\* in that commit: but for those a failed import was to replace since the last save.
THEOREM RollbackIsComplete == Spec => []RollbackRestoresSession
<1>1. TypeOK /\ SaveUnderLock /\ SessionsFit /\ SessionsAgree => RollbackRestoresSession
  <2> SUFFICES ASSUME TypeOK, SaveUnderLock, SessionsFit, SessionsAgree, NEW s \in Sessions,
                      pc[s] = "idle", mem[s].tag = disk.tag
               PROVE  /\ mem[s].dek = disk.dek /\ mem[s].kek = disk.wrap
                      /\ \A i \in DOMAIN disk.index :
                           /\ mem[s].entries[i] = disk.index[i]
                           /\ \/ i \in mem[s].unsaved
                              \/ mem[s].cache[i] \in {NotOpen, disk.frames[i].val}
    BY DEF RollbackRestoresSession
  <2>1. AtRest(mem[s]) /\ RestAgrees(mem[s])
    BY DEF SessionsFit, SessionFits, SessionsAgree, SessionAgrees, Agreement
  <2>2. SameCommit(mem[s], disk)
    BY <2>1 DEF AtRest, SameCommit
  <2> QED
    BY <2>1, <2>2 DEF AtRest, HasKeysOf, RestAgrees, Agrees, Untouched
<1> QED
  BY <1>1, TypeCorrect, SavesExcludeEachOther, SessionsAlwaysFit, SessionsAlwaysAgree, PTL

-----------------------------------------------------------------------------
(* The items of a file *)

\* What a reader gets for a slot of a readable file.
Content(f, i) == [title |-> f.index[i].title, record |-> f.frames[i].val]

\* A file every reader can open.
Sound(f) == GoodFile(f) /\ ReadableFile(f)

LEMMA SlotsOfFile ==
  ASSUME NEW f, GoodFile(f)
  PROVE  /\ f.index \in Seq(Entry) /\ Len(f.index) \in Nat
         /\ DOMAIN f.index = 1 .. Len(f.index) /\ DOMAIN f.frames = DOMAIN f.index
         /\ \A i \in DOMAIN f.index : /\ f.index[i] \in Entry
                                      /\ f.index[i].id \in Nat
                                      /\ f.index[i].live \in BOOLEAN
                                      /\ f.index[i].title \in Titles
<1>1. f.index \in Seq(Entry) /\ f.frames \in Seq(Frame) /\ Len(f.frames) = Len(f.index)
  BY DEF GoodFile, File
<1>2. \A i \in DOMAIN f.index : f.index[i] \in Entry
  BY <1>1, SeqShape
<1> QED
  BY <1>1, <1>2, SeqShape DEF Entry

\* An id names one slot of a file.
LEMMA OneSlot ==
  ASSUME NEW f, GoodFile(f), NEW i \in DOMAIN f.index, NEW j \in DOMAIN f.index,
         f.index[i].id = f.index[j].id
  PROVE  i = j
<1>1. i \in Nat /\ j \in Nat /\ f.index[i].id \in Nat /\ f.index[j].id \in Nat
  BY SlotsOfFile
<1>2. Increasing(f.index)
  BY DEF GoodFile
<1> QED
  BY <1>1, <1>2 DEF Increasing

LEMMA ItemAt ==
  ASSUME NEW f, Sound(f), NEW i \in DOMAIN f.index, f.index[i].live
  PROVE  /\ f.index[i].id \in DOMAIN ItemsOf(f)
         /\ ItemsOf(f)[f.index[i].id] = Content(f, i)
         /\ Content(f, i) \in [title: Titles, record: Secrets]
<1> DEFINE id == f.index[i].id
           c == CHOOSE j \in Slots(f, TRUE) : f.index[j].id = id
<1>1. i \in Slots(f, TRUE)
  BY DEF Slots
<1>2. id \in IdsAt(f, Slots(f, TRUE))
  BY <1>1 DEF IdsAt
<1>3. c \in DOMAIN f.index /\ f.index[c].id = id
  BY <1>1 DEF Slots
<1>4. c = i
  BY <1>3, OneSlot DEF Sound
<1>5. ReadBack(f, i) = Content(f, i)
  BY SlotsOfFile DEF Sound, ReadableFile, ReadBack, Content
<1>6. Content(f, i) \in [title: Titles, record: Secrets]
  BY SlotsOfFile DEF Sound, ReadableFile, Content
<1> QED
  BY <1>2, <1>4, <1>5, <1>6 DEF ItemsOf

\* Every item lies in a live slot.
LEMMA SlotOfItem ==
  ASSUME NEW f, GoodFile(f), NEW id
  PROVE  /\ id \in DOMAIN ItemsOf(f) =>
              \E i \in DOMAIN f.index : f.index[i].live /\ f.index[i].id = id
         /\ id \in RetiredOf(f) <=>
              \E i \in DOMAIN f.index : ~f.index[i].live /\ f.index[i].id = id
<1>1. \A i \in DOMAIN f.index : f.index[i].live \in BOOLEAN
  BY SlotsOfFile
<1> QED
  BY <1>1 DEF ItemsOf, RetiredOf, IdsAt, Slots

\* The items are the function from ids to contents.
LEMMA ItemsAre ==
  ASSUME NEW f, Sound(f), NEW F, F = [x \in DOMAIN F |-> F[x]],
         DOMAIN F = DOMAIN ItemsOf(f),
         \A i \in DOMAIN f.index : f.index[i].live => F[f.index[i].id] = Content(f, i)
  PROVE  ItemsOf(f) = F
<1>1. ASSUME NEW id \in DOMAIN F PROVE ItemsOf(f)[id] = F[id]
  <2>1. PICK i \in DOMAIN f.index : f.index[i].live /\ f.index[i].id = id
    BY <1>1, SlotOfItem DEF Sound
  <2> QED
    BY <2>1, ItemAt
<1>2. ItemsOf(f) = [x \in DOMAIN ItemsOf(f) |-> ItemsOf(f)[x]]
  BY DEF ItemsOf
<1> QED
  BY <1>1, <1>2

-----------------------------------------------------------------------------
(* Two commits *)

\* g keeps the slots of f, with their ids, and brings no deleted item back.
Succeeds(f, g) ==
  /\ Sound(f) /\ Sound(g)
  /\ DOMAIN f.index \subseteq DOMAIN g.index
  /\ \A j \in DOMAIN f.index : /\ g.index[j].id = f.index[j].id
                               /\ g.index[j].live => f.index[j].live

\* Slot j is the same in both.
SameSlot(f, g, j) ==
  g.index[j] = f.index[j] /\ (f.index[j].live => Content(g, j) = Content(f, j))

\* The ids of the slots that only g has are above those of f.
LEMMA NewIdsAbove ==
  ASSUME NEW f, NEW g, Succeeds(f, g), NEW i \in DOMAIN g.index \ DOMAIN f.index,
         NEW j \in DOMAIN f.index
  PROVE  g.index[i].id > f.index[j].id
<1>1. /\ GoodFile(f) /\ GoodFile(g) /\ j \in DOMAIN g.index
      /\ g.index[j].id = f.index[j].id
  BY DEF Succeeds, Sound
<1>2. i \in Nat /\ j \in Nat /\ j < i
  BY <1>1, SlotsOfFile
<1>3. g.index[j].id < g.index[i].id /\ g.index[j].id \in Nat /\ g.index[i].id \in Nat
  BY <1>1, <1>2, SlotsOfFile DEF GoodFile, Increasing
<1> QED
  BY <1>1, <1>3

\* An item of g is a live slot of f, or lies in a new one above all ids of f.
LEMMA ItemsSucceed ==
  ASSUME NEW f, NEW g, Succeeds(f, g), NEW id \in DOMAIN ItemsOf(g)
  PROVE  \E i \in DOMAIN g.index :
           /\ g.index[i].live /\ g.index[i].id = id
           /\ IF i \in DOMAIN f.index
              THEN f.index[i].live /\ f.index[i].id = id /\ id \in DOMAIN ItemsOf(f)
              ELSE /\ id \notin DOMAIN ItemsOf(f)
                   /\ \A old \in DOMAIN ItemsOf(f) \cup RetiredOf(f) : id > old
<1>1. Sound(f) /\ Sound(g) /\ GoodFile(f) /\ GoodFile(g)
  BY DEF Succeeds, Sound
<1>2. PICK i \in DOMAIN g.index : g.index[i].live /\ g.index[i].id = id
  BY <1>1, SlotOfItem
<1>3. CASE i \in DOMAIN f.index
  BY <1>1, <1>2, <1>3, ItemAt DEF Succeeds
<1>4. CASE i \notin DOMAIN f.index
  <2>1. \A old \in DOMAIN ItemsOf(f) \cup RetiredOf(f) :
          \E j \in DOMAIN f.index : f.index[j].id = old
    BY <1>1, SlotOfItem
  <2>2. \A j \in DOMAIN f.index : id > f.index[j].id /\ f.index[j].id \in Nat
    BY <1>1, <1>2, <1>4, NewIdsAbove, SlotsOfFile
  <2>3. \A old \in DOMAIN ItemsOf(f) \cup RetiredOf(f) : id > old /\ old \in Nat
    BY <2>1, <2>2
  <2>4. id \in Nat
    BY <1>1, <1>2, SlotsOfFile
  <2> QED
    BY <1>2, <1>4, <2>3, <2>4
<1> QED
  BY <1>3, <1>4

\* A live slot of f that g still has alive keeps its item.
LEMMA ItemKept ==
  ASSUME NEW f, NEW g, Succeeds(f, g), NEW j \in DOMAIN f.index, f.index[j].live,
         g.index[j].live
  PROVE  /\ f.index[j].id \in DOMAIN ItemsOf(g)
         /\ ItemsOf(g)[f.index[j].id] = Content(g, j)
         /\ ItemsOf(f)[f.index[j].id] = Content(f, j)
BY ItemAt DEF Succeeds

\* Only live slots are new and no slot dies: nothing retires.
LEMMA RetiredKept ==
  ASSUME NEW f, NEW g, Succeeds(f, g),
         \A j \in DOMAIN f.index : g.index[j].live = f.index[j].live,
         \A j \in DOMAIN g.index \ DOMAIN f.index : g.index[j].live
  PROVE  RetiredOf(g) = RetiredOf(f)
<1>1. GoodFile(f) /\ GoodFile(g)
  BY DEF Succeeds, Sound
<1>2. ASSUME NEW id PROVE id \in RetiredOf(g) <=> id \in RetiredOf(f)
  BY <1>1, SlotOfItem DEF Succeeds
<1> QED
  BY <1>2

\* All items of a readable file are whole.
LEMMA ItemsWhole ==
  ASSUME NEW f, Sound(f), NEW id \in DOMAIN ItemsOf(f)
  PROVE  ItemsOf(f)[id] \in [title: Titles, record: Secrets]
<1>1. PICK i \in DOMAIN f.index : f.index[i].live /\ f.index[i].id = id
  BY SlotOfItem DEF Sound
<1> QED
  BY <1>1, ItemAt

\* New items have ids above every id ever used in the file.
LEMMA NewItemsFresh ==
  ASSUME NEW f, NEW g, Succeeds(f, g)
  PROVE  \A new \in DOMAIN ItemsOf(g) \ DOMAIN ItemsOf(f),
            old \in DOMAIN ItemsOf(f) \cup RetiredOf(f) : new > old
BY ItemsSucceed

\* The items that two files have in the same live slot are the same.
LEMMA SameItem ==
  ASSUME NEW f, NEW g, Succeeds(f, g), NEW id \in DOMAIN ItemsOf(f),
         \A j \in DOMAIN f.index : f.index[j].id = id => SameSlot(f, g, j)
  PROVE  id \in DOMAIN ItemsOf(g) /\ ItemsOf(g)[id] = ItemsOf(f)[id]
<1>1. PICK j \in DOMAIN f.index : f.index[j].live /\ f.index[j].id = id
  BY SlotOfItem DEF Succeeds, Sound
<1>2. g.index[j].live /\ Content(g, j) = Content(f, j)
  BY <1>1 DEF SameSlot
<1> QED
  BY <1>1, <1>2, ItemKept

\* add_entry: one item more, in the slot after the last.
LEMMA OneInserted ==
  ASSUME NEW f, NEW g, Succeeds(f, g), Len(g.index) = Len(f.index) + 1,
         g.index[Len(g.index)].live, \A j \in DOMAIN f.index : SameSlot(f, g, j)
  PROVE  /\ Cardinality(DOMAIN ItemsOf(g) \ DOMAIN ItemsOf(f)) = 1
         /\ \A id \in DOMAIN ItemsOf(f) :
              id \in DOMAIN ItemsOf(g) /\ ItemsOf(g)[id] = ItemsOf(f)[id]
         /\ RetiredOf(g) = RetiredOf(f)
<1> DEFINE last == Len(g.index)
           id == g.index[last].id
<1>1. Sound(f) /\ Sound(g) /\ GoodFile(f) /\ GoodFile(g)
  BY DEF Succeeds, Sound
<1>2. last \in DOMAIN g.index \ DOMAIN f.index /\ DOMAIN g.index \ DOMAIN f.index = {last}
  BY <1>1, SlotsOfFile
<1>3. id \in DOMAIN ItemsOf(g)
  BY <1>1, <1>2, ItemAt
<1>4. id \notin DOMAIN ItemsOf(f)
  <2>1. \A j \in DOMAIN f.index : id # f.index[j].id
    BY <1>1, <1>2, NewIdsAbove, SlotsOfFile
  <2> QED
    BY <1>1, <2>1, SlotOfItem
<1>5. ASSUME NEW new \in DOMAIN ItemsOf(g) \ DOMAIN ItemsOf(f) PROVE new = id
  BY <1>2, ItemsSucceed
<1>6. DOMAIN ItemsOf(g) \ DOMAIN ItemsOf(f) = {id}
  BY <1>3, <1>4, <1>5
<1> HIDE DEF id
<1>7. Cardinality({id}) = 1
  BY FS_Singleton
<1>8. RetiredOf(g) = RetiredOf(f)
  BY <1>2, RetiredKept DEF SameSlot
<1> QED
  BY <1>6, <1>7, <1>8, SameItem

\* commit_entry: slot i gets new contents.
LEMMA OneReplaced ==
  ASSUME NEW f, NEW g, Succeeds(f, g), DOMAIN g.index = DOMAIN f.index,
         NEW i \in DOMAIN f.index, f.index[i].live, g.index[i].live,
         \A j \in DOMAIN f.index \ {i} : SameSlot(f, g, j)
  PROVE  /\ ItemsOf(g) = [ItemsOf(f) EXCEPT ![f.index[i].id] = Content(g, i)]
         /\ RetiredOf(g) = RetiredOf(f)
<1> DEFINE id == f.index[i].id
           F == [ItemsOf(f) EXCEPT ![id] = Content(g, i)]
<1>1. Sound(f) /\ Sound(g) /\ GoodFile(f) /\ GoodFile(g)
  BY DEF Succeeds, Sound
<1>2. id \in DOMAIN ItemsOf(f) /\ id \in DOMAIN ItemsOf(g) /\ g.index[i].id = id
  BY <1>1, ItemAt DEF Succeeds
<1>3. \A x \in DOMAIN ItemsOf(g) : x \in DOMAIN ItemsOf(f)
  BY ItemsSucceed
<1>4. ASSUME NEW x \in DOMAIN ItemsOf(f) PROVE x \in DOMAIN ItemsOf(g)
  <2>1. CASE x = id
    BY <1>2, <2>1
  <2>2. CASE x # id
    BY <2>2, SameItem
  <2> QED
    BY <2>1, <2>2
<1>5. DOMAIN F = DOMAIN ItemsOf(g) /\ F = [x \in DOMAIN F |-> F[x]]
  BY <1>3, <1>4
<1>6. ASSUME NEW j \in DOMAIN g.index, g.index[j].live PROVE F[g.index[j].id] = Content(g, j)
  <2>1. CASE j = i
    BY <1>2, <2>1
  <2>2. CASE j # i
    <3>1. SameSlot(f, g, j) /\ f.index[j].live /\ g.index[j].id = f.index[j].id
      BY <1>6, <2>2 DEF Succeeds
    <3>2. f.index[j].id # id /\ f.index[j].id \in DOMAIN ItemsOf(f)
          /\ ItemsOf(f)[f.index[j].id] = Content(f, j)
      BY <1>1, <1>6, <2>2, <3>1, OneSlot, ItemAt
    <3> QED
      BY <3>1, <3>2 DEF SameSlot
  <2> QED
    BY <2>1, <2>2
<1>7. ItemsOf(g) = F
  <2> HIDE DEF F
  <2> QED
    BY <1>1, <1>5, <1>6, ItemsAre
<1>8. RetiredOf(g) = RetiredOf(f)
  <2>1. g.index[i].live = f.index[i].live
    BY <1>1, SlotsOfFile
  <2>2. \A j \in DOMAIN f.index : g.index[j].live = f.index[j].live
    BY <2>1 DEF SameSlot
  <2> QED
    BY <2>2, RetiredKept
<1> QED
  BY <1>7, <1>8

\* commit_tombstone: the item of slot i retires.
LEMMA OneDeleted ==
  ASSUME NEW f, NEW g, Succeeds(f, g), DOMAIN g.index = DOMAIN f.index,
         NEW i \in DOMAIN f.index, f.index[i].live, ~g.index[i].live,
         \A j \in DOMAIN f.index \ {i} : SameSlot(f, g, j)
  PROVE  /\ f.index[i].id \in DOMAIN ItemsOf(f)
         /\ ItemsOf(g) = [x \in DOMAIN ItemsOf(f) \ {f.index[i].id} |-> ItemsOf(f)[x]]
         /\ RetiredOf(g) = RetiredOf(f) \cup {f.index[i].id}
<1> DEFINE id == f.index[i].id
           F == [x \in DOMAIN ItemsOf(f) \ {id} |-> ItemsOf(f)[x]]
<1>1. Sound(f) /\ Sound(g) /\ GoodFile(f) /\ GoodFile(g)
  BY DEF Succeeds, Sound
<1>2. id \in DOMAIN ItemsOf(f) /\ g.index[i].id = id
  BY <1>1, ItemAt DEF Succeeds
<1>3. ASSUME NEW x \in DOMAIN ItemsOf(g) PROVE x \in DOMAIN ItemsOf(f) \ {id}
  <2>1. PICK j \in DOMAIN g.index : /\ g.index[j].live /\ f.index[j].id = x
                                    /\ x \in DOMAIN ItemsOf(f)
    BY ItemsSucceed
  <2>2. j # i
    BY <2>1
  <2> QED
    BY <1>1, <2>1, <2>2, OneSlot
<1>4. ASSUME NEW x \in DOMAIN ItemsOf(f) \ {id} PROVE x \in DOMAIN ItemsOf(g)
  BY <1>4, SameItem
<1>5. DOMAIN F = DOMAIN ItemsOf(g) /\ F = [x \in DOMAIN F |-> F[x]]
  BY <1>3, <1>4
<1>6. ASSUME NEW j \in DOMAIN g.index, g.index[j].live PROVE F[g.index[j].id] = Content(g, j)
  <2>1. j # i
    BY <1>6
  <2>2. SameSlot(f, g, j) /\ f.index[j].live /\ g.index[j].id = f.index[j].id
    BY <1>6, <2>1 DEF Succeeds
  <2>3. f.index[j].id # id /\ f.index[j].id \in DOMAIN ItemsOf(f)
        /\ ItemsOf(f)[f.index[j].id] = Content(f, j)
    BY <1>1, <1>6, <2>1, <2>2, OneSlot, ItemAt
  <2> QED
    BY <2>2, <2>3 DEF SameSlot
<1>7. ItemsOf(g) = F
  <2> HIDE DEF F
  <2> QED
    BY <1>1, <1>5, <1>6, ItemsAre
<1>8. ASSUME NEW x PROVE x \in RetiredOf(g) <=> x \in RetiredOf(f) \cup {id}
  <2>1. \A j \in DOMAIN f.index \ {i} : g.index[j] = f.index[j]
    BY DEF SameSlot
  <2>2. x \in RetiredOf(f) <=> \E j \in DOMAIN f.index : ~f.index[j].live /\ f.index[j].id = x
    BY <1>1, SlotOfItem
  <2>3. x \in RetiredOf(g) <=> \E j \in DOMAIN g.index : ~g.index[j].live /\ g.index[j].id = x
    BY <1>1, SlotOfItem
  <2> HIDE DEF id
  <2> QED
    BY <1>2, <2>1, <2>2, <2>3
<1> QED
  BY <1>2, <1>7, <1>8

\* commit_import: new items, and other records for some of the old ones.
LEMMA SomeMerged ==
  ASSUME NEW f, NEW g, Succeeds(f, g),
         \A j \in DOMAIN f.index : g.index[j] = f.index[j],
         \A j \in DOMAIN g.index \ DOMAIN f.index : g.index[j].live
  PROVE  DOMAIN ItemsOf(f) \subseteq DOMAIN ItemsOf(g) /\ RetiredOf(g) = RetiredOf(f)
<1>1. ASSUME NEW id \in DOMAIN ItemsOf(f) PROVE id \in DOMAIN ItemsOf(g)
  <2>1. PICK j \in DOMAIN f.index : f.index[j].live /\ f.index[j].id = id
    BY SlotOfItem DEF Succeeds, Sound
  <2> QED
    BY <2>1, ItemKept
<1> QED
  BY <1>1, RetiredKept

\* rotate and change_password: every slot is the same.
LEMMA NoneChanged ==
  ASSUME NEW f, NEW g, Succeeds(f, g), DOMAIN g.index = DOMAIN f.index,
         \A j \in DOMAIN f.index : SameSlot(f, g, j)
  PROVE  ItemsOf(g) = ItemsOf(f) /\ RetiredOf(g) = RetiredOf(f)
<1>1. DOMAIN ItemsOf(g) = DOMAIN ItemsOf(f)
  BY ItemsSucceed, SameItem
<1>2. \A id \in DOMAIN ItemsOf(f) : ItemsOf(g)[id] = ItemsOf(f)[id]
  BY SameItem
<1>3. ItemsOf(g) = ItemsOf(f)
  BY <1>1, <1>2 DEF ItemsOf
<1> QED
  BY <1>3, RetiredKept DEF SameSlot

-----------------------------------------------------------------------------
(* Every step is a step of the store *)

\* What a rename puts on disk, compared with what was there.
LEMMA PublishedFile ==
  ASSUME TypeOK, SaveUnderLock, SessionsFit, SessionsAgree, ~RetryAfterFailure,
         NEW s \in Sessions, Publish(s), Kind(s) # "create"
  PROVE  /\ Succeeds(disk, draft) /\ draft.index = mem[s].entries
         /\ Changed(Kind(s), mem[s], disk)
         /\ \A j \in DOMAIN disk.index :
              Untouched(mem[s], disk, j) => SameSlot(disk, draft, j)
<1> DEFINE m == mem[s]
<1>1. /\ Drafted(s) /\ InOperation(s) /\ BuiltFrom(s) /\ draft.parent = disk.tag
      /\ OpAgrees(Kind(s), m, pending[s].onFail)
      /\ GoodMemory(m) /\ GoodFile(disk) /\ GoodFile(draft)
  BY DEF Publish, SessionsFit, SessionFits, SessionsAgree, SessionAgrees, Agreement,
         SaveUnderLock, TypeOK, Busy, Critical
<1>2. m.tag # 0 /\ m.tag = disk.tag
  BY <1>1 DEF InOperation, KeysFit, AtRest, Drafted
<1>3. SameCommit(m, disk) /\ disk.tag # 0
  BY <1>2 DEF SameCommit
<1>4. ReadableFile(disk) /\ ReadableFile(draft) /\ Extends(m, disk) /\ draft.index = m.entries
  BY <1>1, <1>3 DEF SessionsFit, FilesReadable, InOperation, Drafted
<1>5. Succeeds(disk, draft)
  BY <1>1, <1>4, IndexWithin DEF Succeeds, Sound, Extends
<1>6. Changed(Kind(s), m, disk) /\ m.unsaved = {}
  BY <1>1, <1>3 DEF OpAgrees
<1>7. ASSUME NEW j \in DOMAIN disk.index, Untouched(m, disk, j) PROVE SameSlot(disk, draft, j)
  <2>1. draft.index[j] = disk.index[j] /\ j \in DOMAIN m.entries
    BY <1>1, <1>4, <1>7, IndexWithin DEF Untouched
  <2>2. m.cache[j] # NotOpen => draft.frames[j].val = disk.frames[j].val
    BY <1>1, <1>6, <1>7, <2>1 DEF BuiltFrom, Untouched
  <2>3. disk.index[j].live /\ m.cache[j] = NotOpen => draft.frames[j].val = disk.frames[j].val
    BY <1>1, <1>4, <2>1 DEF BuiltFrom, Resealed
  <2> QED
    BY <2>1, <2>2, <2>3 DEF SameSlot, Content
<1> QED
  BY <1>4, <1>5, <1>6, <1>7

\* The items before the first commit are none, and a creation writes none.
LEMMA CreatedEmpty ==
  ASSUME TypeOK, SaveUnderLock, SessionsFit, NEW s \in Sessions, Publish(s), Kind(s) = "create"
  PROVE  disk.index = <<>> /\ draft.index = <<>>
<1>1. Drafted(s) /\ InOperation(s) /\ draft.parent = disk.tag
  BY DEF Publish, SessionsFit, SessionFits, SaveUnderLock, Busy, Critical
<1>2. mem[s].tag = 0 /\ mem[s].entries = <<>> /\ disk.tag = 0
  BY <1>1 DEF InOperation, KeysFit, Drafted
<1> QED
  BY <1>1, <1>2 DEF Drafted, SessionsFit, FilesReadable

LEMMA EmptyItems ==
  ASSUME NEW f, f.index = <<>>
  PROVE  ItemsOf(f) = Store!None /\ RetiredOf(f) = {}
<1>1. \A live : IdsAt(f, Slots(f, live)) = {}
  BY EmptySeq DEF IdsAt, Slots
<1> QED
  BY <1>1 DEF ItemsOf, RetiredOf, Store!None

LEMMA CommitsWhole ==
  ASSUME TypeOK, SaveUnderLock, SessionsFit, SessionsAgree, ~RetryAfterFailure,
         NEW s \in Sessions, Publish(s)
  PROVE  Store!Commit
<1> DEFINE m == mem[s]
           kind == Kind(s)
<1>1. /\ disk' = draft /\ backup' = backup /\ draft.op = kind
      /\ kind \in Saves /\ GoodFile(disk) /\ GoodFile(draft)
  BY DEF Publish, SessionsAgree, SessionAgrees, BuiltFrom, Agreement, OpAgrees, TypeOK,
         Busy, Critical
<1>2. /\ ItemsOf(disk)' = ItemsOf(draft) /\ RetiredOf(disk)' = RetiredOf(draft)
      /\ disk.op' = kind
      /\ [items |-> ItemsOf(backup), retired |-> RetiredOf(backup), cause |-> backup.op]'
         = [items |-> ItemsOf(backup), retired |-> RetiredOf(backup), cause |-> backup.op]
  BY <1>1 DEF ItemsOf, RetiredOf, IdsAt, Slots, ReadBack
<1>3. CASE kind = "create"
  <2>1. ItemsOf(draft) = ItemsOf(disk) /\ RetiredOf(draft) = RetiredOf(disk)
    BY <1>3, CreatedEmpty, EmptyItems
  <2> QED
    BY <1>2, <1>3, <2>1 DEF Store!Commit, Store!Rekey
<1>4. CASE kind # "create"
  <2>1. /\ Succeeds(disk, draft) /\ draft.index = m.entries
        /\ Changed(kind, m, disk)
        /\ \A j \in DOMAIN disk.index : Untouched(m, disk, j) => SameSlot(disk, draft, j)
    BY <1>4, PublishedFile
  <2>2. Sound(draft) /\ Sound(disk)
    BY <2>1 DEF Succeeds
  <2>3. \A id \in DOMAIN ItemsOf(draft) : ItemsOf(draft)[id] \in [title: Titles, record: Secrets]
    BY <2>2, ItemsWhole
  <2>4. \A new \in DOMAIN ItemsOf(draft) \ DOMAIN ItemsOf(disk),
           old \in DOMAIN ItemsOf(disk) \cup RetiredOf(disk) : new > old
    BY <2>1, NewItemsFresh
  <2>5. Len(draft.index) = Len(disk.index) => DOMAIN draft.index = DOMAIN disk.index
    BY <1>1, SlotsOfFile
  <2> HIDE DEF kind, m
  <2>6. CASE kind = "add"
    <3>1. /\ Len(draft.index) = Len(disk.index) + 1 /\ draft.index[Len(draft.index)].live
          /\ \A j \in DOMAIN disk.index : SameSlot(disk, draft, j)
      BY <2>1, <2>6 DEF Changed, Agrees
    <3>2. /\ Cardinality(DOMAIN ItemsOf(draft) \ DOMAIN ItemsOf(disk)) = 1
          /\ \A id \in DOMAIN ItemsOf(disk) :
               id \in DOMAIN ItemsOf(draft) /\ ItemsOf(draft)[id] = ItemsOf(disk)[id]
          /\ RetiredOf(draft) = RetiredOf(disk)
      BY <2>1, <3>1, OneInserted
    <3>3. Store!Fresh(DOMAIN ItemsOf(draft) \ DOMAIN ItemsOf(disk)) /\ Store!Readable
      BY <1>2, <2>3, <2>4 DEF Store!Fresh, Store!Used, Store!Readable
    <3>4. Store!Cardinality(DOMAIN ItemsOf(draft) \ DOMAIN ItemsOf(disk)) = 1
      BY <3>2 DEF Cardinality, Store!Cardinality
    <3>5. Store!Insert
      BY <1>2, <2>6, <3>2, <3>3, <3>4 DEF Store!Insert
    <3> QED
      BY <1>2, <3>5 DEF Store!Commit
  <2>7. CASE kind = "update"
    <3>1. PICK i \in LiveSlots(m) : UntouchedBut(i, m, disk)
      BY <2>1, <2>7 DEF Changed
    <3>2. /\ DOMAIN draft.index = DOMAIN disk.index /\ i \in DOMAIN disk.index
          /\ draft.index[i].live /\ disk.index[i].live
      BY <2>1, <2>5, <2>7, <3>1 DEF Changed, LiveSlots, Succeeds
    <3>3. \A j \in DOMAIN disk.index \ {i} : SameSlot(disk, draft, j)
      BY <2>1, <3>1 DEF UntouchedBut
    <3>4. /\ ItemsOf(draft) = [ItemsOf(disk) EXCEPT ![disk.index[i].id] = Content(draft, i)]
          /\ RetiredOf(draft) = RetiredOf(disk)
      BY <2>1, <3>2, <3>3, OneReplaced
    <3>5. /\ disk.index[i].id \in DOMAIN ItemsOf(disk)
          /\ Content(draft, i) \in [title: Titles, record: Secrets]
      BY <2>2, <3>2, ItemAt
    <3>6. Store!Replace
      BY <1>2, <2>7, <3>4, <3>5 DEF Store!Replace
    <3> QED
      BY <1>2, <3>6 DEF Store!Commit
  <2>8. CASE kind = "delete"
    <3>1. PICK i \in DOMAIN disk.index :
            disk.index[i].live /\ ~m.entries[i].live /\ UntouchedBut(i, m, disk)
      BY <2>1, <2>8 DEF Changed
    <3>2. DOMAIN draft.index = DOMAIN disk.index /\ ~draft.index[i].live
      BY <2>1, <2>5, <2>8, <3>1 DEF Changed
    <3>3. \A j \in DOMAIN disk.index \ {i} : SameSlot(disk, draft, j)
      BY <2>1, <3>1 DEF UntouchedBut
    <3>4. /\ disk.index[i].id \in DOMAIN ItemsOf(disk)
          /\ ItemsOf(draft) =
               [x \in DOMAIN ItemsOf(disk) \ {disk.index[i].id} |-> ItemsOf(disk)[x]]
          /\ RetiredOf(draft) = RetiredOf(disk) \cup {disk.index[i].id}
      BY <2>1, <3>1, <3>2, <3>3, OneDeleted
    <3>5. Store!Delete
      BY <1>2, <2>8, <3>4 DEF Store!Delete
    <3> QED
      BY <1>2, <3>5 DEF Store!Commit
  <2>9. CASE kind = "import"
    <3>1. /\ \A j \in DOMAIN disk.index : draft.index[j] = disk.index[j]
          /\ \A j \in DOMAIN draft.index \ DOMAIN disk.index : draft.index[j].live
      BY <2>1, <2>9 DEF Changed
    <3>2. DOMAIN ItemsOf(disk) \subseteq DOMAIN ItemsOf(draft)
          /\ RetiredOf(draft) = RetiredOf(disk)
      BY <2>1, <3>1, SomeMerged
    <3>3. Store!Merge
      BY <1>2, <2>3, <2>4, <2>9, <3>2
         DEF Store!Merge, Store!Fresh, Store!Used, Store!Readable
    <3> QED
      BY <1>2, <3>3 DEF Store!Commit
  <2>10. CASE kind \in {"rotate", "password"}
    <3>1. DOMAIN draft.index = DOMAIN disk.index
          /\ \A j \in DOMAIN disk.index : SameSlot(disk, draft, j)
      BY <2>1, <2>5, <2>10 DEF Changed, Agrees
    <3>2. ItemsOf(draft) = ItemsOf(disk) /\ RetiredOf(draft) = RetiredOf(disk)
      BY <2>1, <3>1, NoneChanged
    <3> QED
      BY <1>2, <2>10, <3>2 DEF Store!Commit, Store!Rekey
  <2> QED
    BY <1>1, <1>4, <2>6, <2>7, <2>8, <2>9, <2>10 DEF Saves, kind
<1> QED
  BY <1>3, <1>4

LEMMA StepOfStore ==
  ASSUME TypeOK, SaveUnderLock, SessionsFit, SessionsAgree, ~RetryAfterFailure, [Next]_vars
  PROVE  [Store!Next]_(Store!vars)
<1>1. CASE \E s \in Sessions : Publish(s)
  BY <1>1, CommitsWhole DEF Store!Next
<1>2. CASE Backup
  BY <1>2 DEF Backup, Store!Next, Store!Save, ItemsOf, RetiredOf, IdsAt, Slots, ReadBack
<1>3. CASE Restore
  BY <1>3 DEF Restore, Store!Next, Store!PutBack, ItemsOf, RetiredOf, IdsAt, Slots, ReadBack
<1>4. CASE UNCHANGED <<disk, backup>>
  BY <1>4 DEF Store!vars, ItemsOf, RetiredOf, IdsAt, Slots, ReadBack
<1> QED
  BY <1>1, <1>2, <1>3, <1>4, Moves, FilesOfActs DEF vars

LEMMA InitOfStore == Init => Store!Init
<1>1. Absent.index = <<>> /\ Absent.op = "none"
  BY DEF Absent
<1>2. ItemsOf(Absent) = Store!None /\ RetiredOf(Absent) = {}
  BY <1>1, EmptyItems
<1> QED
  BY <1>1, <1>2 DEF Init, Store!Init

\* The vault is an ItemStore: a commit is one whole operation on the current items,
\* whatever was cached, copied or rolled back before it, an error or a death changes
\* nothing or has committed, rotation loses nothing, and no id is used again.  For
\* callers that give the session up after an error, as the CLI and the TUI do.
THEOREM VaultIsAnItemStore ==
  ASSUME ~RetryAfterFailure
  PROVE  Spec => ImplementsItemStore
<1>1. Init => Store!Init
  BY InitOfStore
<1>2. TypeOK /\ SaveUnderLock /\ SessionsFit /\ SessionsAgree /\ [Next]_vars
      => [Store!Next]_(Store!vars)
  BY StepOfStore
<1> QED
  BY <1>1, <1>2, TypeCorrect, SavesExcludeEachOther, SessionsAlwaysFit, SessionsAlwaysAgree, PTL
     DEF Spec, ImplementsItemStore, Store!Spec

-----------------------------------------------------------------------------
(* The next id *)

NextIdFits(m) == m.nextId = NextIdOf(m.entries)
NextIdsFit == \A s \in Sessions : pc[s] \in Busy \cup {"idle"} => NextIdFits(mem[s])

\* The values next_item_id may have for an index.
NextIds(index) == {1} \cup {index[i].id + 1 : i \in DOMAIN index}

LEMMA NextIdFound ==
  ASSUME NEW index \in Seq(Entry), Increasing(index)
  PROVE  /\ NextIdOf(index) \in NextIds(index)
         /\ \A i \in DOMAIN index : index[i].id < NextIdOf(index)
<1>1. /\ Len(index) \in Nat /\ DOMAIN index = 1 .. Len(index)
      /\ \A i \in DOMAIN index : index[i] \in Entry
  BY SeqShape
<1>2. \A i \in DOMAIN index : index[i].id \in Nat
  BY <1>1 DEF Entry
<1>3. \E n \in NextIds(index) : \A i \in DOMAIN index : index[i].id < n
  <2>1. CASE Len(index) = 0
    BY <1>1, <2>1 DEF NextIds
  <2>2. CASE Len(index) # 0
    <3>1. Len(index) \in DOMAIN index
      BY <1>1, <2>2
    <3>2. \A i \in DOMAIN index : index[i].id < index[Len(index)].id + 1
      BY <1>1, <1>2, <3>1 DEF Increasing
    <3> QED
      BY <3>1, <3>2 DEF NextIds
  <2> QED
    BY <2>1, <2>2
<1> QED
  BY <1>3 DEF NextIdOf, NextIds

\* Only one of them is above every id.
LEMMA NextIdIs ==
  ASSUME NEW index \in Seq(Entry), Increasing(index), NEW n \in NextIds(index),
         \A i \in DOMAIN index : index[i].id < n
  PROVE  NextIdOf(index) = n
<1>1. \A i \in DOMAIN index : index[i] \in Entry
  BY SeqShape
<1>2. \A i \in DOMAIN index : index[i].id \in Nat
  BY <1>1 DEF Entry
<1>3. PICK k : k = NextIdOf(index)
  OBVIOUS
<1>4. k \in NextIds(index) /\ \A i \in DOMAIN index : index[i].id < k
  BY <1>3, NextIdFound
<1>5. n \in Nat /\ k \in Nat
  BY <1>2, <1>4 DEF NextIds
<1>6. n <= k /\ k <= n
  BY <1>2, <1>4, <1>5 DEF NextIds
<1> QED
  BY <1>3, <1>5, <1>6

LEMMA SameIds ==
  ASSUME NEW m, GoodMemory(m), NEW n, GoodMemory(n), NextIdFits(m), n.nextId = m.nextId,
         DOMAIN n.entries = DOMAIN m.entries,
         \A j \in DOMAIN m.entries : n.entries[j].id = m.entries[j].id
  PROVE  NextIdFits(n)
<1>1. /\ m.entries \in Seq(Entry) /\ n.entries \in Seq(Entry)
      /\ Increasing(m.entries) /\ Increasing(n.entries)
  BY MemoryParts DEF GoodMemory
<1>2. NextIds(n.entries) = NextIds(m.entries)
  BY DEF NextIds
<1>3. /\ m.nextId \in NextIds(n.entries)
      /\ \A j \in DOMAIN n.entries : n.entries[j].id < m.nextId
  BY <1>1, <1>2, NextIdFound DEF NextIdFits
<1> QED
  BY <1>1, <1>3, NextIdIs DEF NextIdFits

\* add_item hands out the next id and moves it by one.
LEMMA AddedNextId ==
  ASSUME NEW m, GoodMemory(m), NextIdFits(m), NEW items \in Seq(Titles \X Secrets)
  PROVE  NextIdFits(WithAdded(m, items))
<1> DEFINE e == [j \in DOMAIN items |->
                   [id |-> m.nextId + (j - 1), live |-> TRUE, title |-> items[j][1]]]
           n == WithAdded(m, items)
<1>1. GoodMemory(n) /\ Len(n.entries) = Len(m.entries) + Len(items)
  BY WithAddedGood, AddedLength
<1>2. /\ m.entries \in Seq(Entry) /\ Len(m.entries) \in Nat
      /\ DOMAIN m.entries = 1 .. Len(m.entries) /\ m.nextId \in Nat
      /\ Len(items) \in Nat /\ DOMAIN items = 1 .. Len(items)
  BY MemoryParts, SeqShape
<1>3. n.entries = m.entries \o e /\ n.nextId = m.nextId + Len(items)
  BY DEF WithAdded, GoodMemory, Memory
<1>4. e \in Seq(Entry) /\ Len(e) = Len(items)
  <2>1. \A j \in DOMAIN items : items[j] \in Titles \X Secrets
    BY SeqShape
  <2>2. e \in [1 .. Len(items) -> Entry]
    BY <1>2, <2>1 DEF Entry
  <2> QED
    BY <1>2, <2>2, SeqFrom
<1>5. \A j \in DOMAIN items : e[j].id = m.nextId + (j - 1)
  OBVIOUS
<1> HIDE DEF e, n
<1>6. \A i \in 1 .. Len(m.entries) + Len(e) :
        n.entries[i] = IF i <= Len(m.entries) THEN m.entries[i] ELSE e[i - Len(m.entries)]
  <2>1. \A i \in 1 .. Len(m.entries) + Len(e) :
          (m.entries \o e)[i] = IF i <= Len(m.entries) THEN m.entries[i] ELSE e[i - Len(m.entries)]
    BY <1>2, <1>4, ConcatProperties, Zenon
  <2> QED
    BY <1>3, <2>1, Zenon
<1>7. n.entries \in Seq(Entry) /\ Increasing(n.entries)
      /\ DOMAIN n.entries = 1 .. Len(n.entries)
  BY <1>1, MemoryParts, SeqShape DEF GoodMemory
<1>8. CASE Len(items) = 0
  <2>1. DOMAIN n.entries = DOMAIN m.entries
    BY <1>1, <1>2, <1>7, <1>8
  <2>2. \A j \in DOMAIN m.entries : n.entries[j].id = m.entries[j].id
    BY <1>2, <1>4, <1>6
  <2> QED
    BY <1>1, <1>2, <1>3, <1>8, <2>1, <2>2, SameIds DEF n
<1>9. CASE Len(items) # 0
  <2> DEFINE last == Len(n.entries)
  <2>1. last \in DOMAIN n.entries /\ last = Len(m.entries) + Len(items)
    BY <1>1, <1>2, <1>7, <1>9
  <2>2. n.entries[last] = e[Len(items)]
    <3>1. /\ last \in 1 .. Len(m.entries) + Len(e) /\ ~(last <= Len(m.entries))
          /\ last - Len(m.entries) = Len(items)
      BY <1>2, <1>4, <1>9, <2>1
    <3> HIDE DEF last
    <3> QED
      BY <1>6, <3>1
  <2>3. n.nextId \in Nat /\ n.nextId = n.entries[last].id + 1
    <3>1. e[Len(items)].id = m.nextId + (Len(items) - 1)
      BY <1>2, <1>5, <1>9
    <3>2. n.nextId = m.nextId + Len(items)
      BY <1>3
    <3> QED
      BY <1>2, <2>2, <3>1, <3>2
  <2>4. n.nextId \in NextIds(n.entries)
    BY <2>1, <2>3 DEF NextIds
  <2>5. \A j \in DOMAIN n.entries : n.entries[j].id < n.nextId
    BY <1>1 DEF GoodMemory
  <2> QED
    BY <1>7, <2>4, <2>5, NextIdIs DEF NextIdFits, n
<1> QED
  BY <1>2, <1>8, <1>9

LEMMA ImportNextId ==
  ASSUME NEW m, GoodMemory(m), NextIdFits(m), NEW items \in Seq(Titles \X Secrets),
         NEW updated \in SUBSET LiveSlots(m), NEW new \in [updated -> Secrets]
  PROVE  NextIdFits(WithAdded(WithRecords(m, new), items))
<1>1. GoodMemory(WithRecords(m, new)) /\ WithRecords(m, new).nextId = m.nextId
  BY WithRecordsGood
<1>2. WithRecords(m, new).entries = m.entries
  BY DEF WithRecords, GoodMemory, Memory
<1>3. NextIdFits(WithRecords(m, new))
  BY <1>1, <1>2 DEF NextIdFits
<1> QED
  BY <1>1, <1>3, AddedNextId

LEMMA SameBound ==
  ASSUME NEW m \in Nat, NEW n \in Nat, 1 .. m = 1 .. n
  PROVE  m = n
<1>1. CASE m < n
  <2>1. n \in 1 .. n /\ n \notin 1 .. m
    BY <1>1
  <2> QED
    BY <2>1
<1>2. CASE n < m
  <2>1. m \in 1 .. m /\ m \notin 1 .. n
    BY <1>2
  <2> QED
    BY <2>1
<1> QED
  BY <1>1, <1>2

LEMMA SameSeq ==
  ASSUME NEW S, NEW a \in Seq(S), NEW b \in Seq(S), DOMAIN a = DOMAIN b,
         \A i \in DOMAIN a : a[i] = b[i]
  PROVE  a = b
<1>1. /\ Len(a) \in Nat /\ Len(b) \in Nat
      /\ DOMAIN a = 1 .. Len(a) /\ DOMAIN b = 1 .. Len(b)
  BY SeqShape
<1>2. Len(a) = Len(b)
  BY <1>1, SameBound
<1> QED
  BY <1>1, <1>2, SeqEqual

LEMMA CreatedNextId == NoSession.nextId = 1 /\ NextIdOf(<<>>) = 1
<1>1. <<>> \in Seq(Entry) /\ DOMAIN <<>> = {} /\ Increasing(<<>>)
  BY EmptySeq DEF Increasing
<1>2. 1 \in NextIds(<<>>)
  BY DEF NextIds
<1> QED
  BY <1>1, <1>2, NextIdIs DEF NoSession

LEMMA OperationNextId ==
  ASSUME TypeOK, TypeOK', NextIdsFit, NEW s \in Sessions, Create(s) \/ Operation(s)
  PROVE  NextIdFits(mem'[s])
<1> DEFINE m == mem[s]
<1>1. GoodMemory(m) /\ GoodMemory(mem'[s]) /\ DOMAIN mem = Sessions
  BY DEF TypeOK
<1>2. Operation(s) => NextIdFits(m)
  BY DEF NextIdsFit, Operation, AddEntry, UpdateEntry, DeleteEntry, Import, Rotate,
         ChangePassword, Prepare
<1>3. CASE Create(s)
  <2>1. mem'[s].entries = <<>> /\ mem'[s].nextId = 1
    BY <1>1, <1>3, CreatedNextId DEF Create, Prepare, NoSession
  <2> QED
    BY <2>1, CreatedNextId DEF NextIdFits
<1>4. CASE AddEntry(s)
  <2>1. PICK t \in Titles, v \in Secrets : mem'[s] = WithAdded(m, <<<<t, v>>>>)
    BY <1>1, <1>4 DEF AddEntry, Prepare
  <2>2. <<<<t, v>>>> \in Seq(Titles \X Secrets)
    OBVIOUS
  <2> QED
    BY <1>1, <1>2, <1>4, <2>1, <2>2, AddedNextId DEF Operation
<1>5. CASE Import(s)
  <2> DEFINE After(new, items) == WithAdded(WithRecords(m, new), items)
  <2>1. PICK k \in 0 .. MaxBatch :
          \E items \in [1 .. k -> Titles \X Secrets] : \E updated \in SUBSET LiveSlots(m) :
          \E new \in [updated -> Secrets] :
            Prepare(s, "idle", "import", After(new, items), LeftBehind(After(new, items), updated))
    BY <1>5 DEF Import
  <2>2. PICK items \in [1 .. k -> Titles \X Secrets], updated \in SUBSET LiveSlots(m) :
          \E new \in [updated -> Secrets] :
            Prepare(s, "idle", "import", After(new, items), LeftBehind(After(new, items), updated))
    BY <2>1
  <2>3. PICK new \in [updated -> Secrets] :
          Prepare(s, "idle", "import", After(new, items), LeftBehind(After(new, items), updated))
    BY <2>2
  <2>4. items \in Seq(Titles \X Secrets)
    BY SeqFrom, BoundsAssumption
  <2>5. NextIdFits(After(new, items))
    BY <1>1, <1>2, <1>5, <2>4, ImportNextId DEF Operation
  <2> HIDE DEF After
  <2>6. mem'[s] = After(new, items)
    BY <1>1, <2>3 DEF Prepare
  <2> QED
    BY <2>5, <2>6
<1>6. CASE UpdateEntry(s)
  <2>1. PICK i \in LiveSlots(m), t \in Titles, v \in Secrets :
          mem'[s] = Edited(Opened(m, i), i, t, v)
    BY <1>1, <1>6 DEF UpdateEntry, Prepare
  <2>2. i \in DOMAIN m.entries /\ m.entries[i] \in Entry
    BY <1>1, MemoryParts, SeqShape DEF LiveSlots
  <2>3. /\ mem'[s].nextId = m.nextId
        /\ mem'[s].entries = [m.entries EXCEPT ![i] = [m.entries[i] EXCEPT !.title = t]]
    BY <1>1, <2>1, <2>2, MemoryParts DEF Edited, Opened, GoodMemory, Memory
  <2>4. /\ DOMAIN mem'[s].entries = DOMAIN m.entries
        /\ \A j \in DOMAIN m.entries : mem'[s].entries[j].id = m.entries[j].id
    BY <2>2, <2>3 DEF Entry
  <2> QED
    BY <1>1, <1>2, <1>6, <2>3, <2>4, SameIds DEF Operation
<1>7. CASE DeleteEntry(s)
  <2>1. PICK i \in LiveSlots(m) : mem'[s] = Tombstoned(m, i)
    BY <1>1, <1>7 DEF DeleteEntry, Prepare
  <2>2. i \in DOMAIN m.entries /\ m.entries[i] \in Entry
    BY <1>1, MemoryParts, SeqShape DEF LiveSlots
  <2>3. /\ mem'[s].nextId = m.nextId
        /\ mem'[s].entries = [m.entries EXCEPT ![i] = [m.entries[i] EXCEPT !.live = FALSE]]
    BY <1>1, <2>1, <2>2, MemoryParts DEF Tombstoned, GoodMemory, Memory
  <2>4. /\ DOMAIN mem'[s].entries = DOMAIN m.entries
        /\ \A j \in DOMAIN m.entries : mem'[s].entries[j].id = m.entries[j].id
    BY <2>2, <2>3 DEF Entry
  <2> QED
    BY <1>1, <1>2, <1>7, <2>3, <2>4, SameIds DEF Operation
<1>8. CASE Rotate(s)
  <2> DEFINE b == AllOpened(m)
  <2>1. GoodMemory(b)
    BY <1>1, <1>8, AllOpenedGood DEF Rotate, TypeOK
  <2>2. b.nextId = m.nextId /\ b.entries = m.entries
    BY <1>1 DEF AllOpened, GoodMemory, Memory
  <2>3. PICK pw : mem'[s] = [b EXCEPT !.dek = Draw(s), !.kek = [pw |-> pw, salt |-> Draw(s)]]
    BY <1>1, <1>8 DEF Rotate, Prepare
  <2> HIDE DEF b
  <2>4. mem'[s].nextId = b.nextId /\ mem'[s].entries = b.entries
    BY <2>1, <2>3 DEF GoodMemory, Memory
  <2> QED
    BY <1>2, <1>8, <2>2, <2>4 DEF NextIdFits, Operation
<1>9. CASE ChangePassword(s)
  <2>1. mem'[s].nextId = m.nextId /\ mem'[s].entries = m.entries
    BY <1>1, <1>9 DEF ChangePassword, Prepare, GoodMemory, Memory
  <2> QED
    BY <1>2, <1>9, <2>1 DEF NextIdFits, Operation
<1> QED
  BY <1>3, <1>4, <1>5, <1>6, <1>7, <1>8, <1>9 DEF Operation

LEMMA StepNextId ==
  ASSUME TypeOK, TypeOK', NextIdsFit, ~RetryAfterFailure, [Next]_vars, NEW s \in Sessions,
         pc'[s] \in Busy \cup {"idle"}
  PROVE  NextIdFits(mem'[s])
<1>0. pc[s] \in Busy \cup {"idle"} => NextIdFits(mem[s])
  BY DEF NextIdsFit
<1>1. CASE Stays(s)
  BY <1>0, <1>1 DEF Stays
<1>2. CASE Create(s) \/ Operation(s)
  BY <1>2, OperationNextId
<1>3. CASE Open(s)
  BY <1>3 DEF Open, NextIdFits, TypeOK
<1>4. CASE OpenItem(s)
  <2>1. PICK i \in LiveSlots(mem[s]) : mem'[s] = Opened(mem[s], i)
    BY <1>4 DEF OpenItem, TypeOK
  <2>2. mem'[s].entries = mem[s].entries /\ mem'[s].nextId = mem[s].nextId
    BY <2>1 DEF Opened, TypeOK, GoodMemory, Memory
  <2> QED
    BY <1>0, <1>4, <2>2 DEF OpenItem, NextIdFits
<1>5. CASE Close(s) \/ StaleBeforeLock(s) \/ Crash(s)
  BY <1>5 DEF Close, StaleBeforeLock, Crash, Busy, Critical, TypeOK
<1>6. CASE LockBusy(s) \/ Refuse(s) \/ WriteFails(s)
  BY <1>6 DEF LockBusy, Refuse, WriteFails, Fail, Busy, Critical, TypeOK
<1>7. CASE TakeLock(s) \/ Build(s) \/ Publish(s)
  BY <1>0, <1>7 DEF TakeLock, Build, Publish, Busy, Critical, TypeOK
<1>8. CASE Adopt(s)
  <2>1. mem'[s].entries = mem[s].entries /\ mem'[s].nextId = mem[s].nextId
    BY <1>8 DEF Adopt, Saved, TypeOK, GoodMemory, Memory
  <2> QED
    BY <1>0, <1>8, <2>1 DEF Adopt, NextIdFits, Busy, Critical
<1> QED
  BY <1>1, <1>2, <1>3, <1>4, <1>5, <1>6, <1>7, <1>8, StaysOrActs DEF Acts, Proceed

\* For a caller that gives up after an error, a session that may still save is the
\* commit on disk: same index, next id and keys, and every cached record is in its
\* frame (what save_with_header_locked copies and re-encrypts is then right).
THEOREM SessionIsItsCommit ==
  ASSUME ~RetryAfterFailure
  PROVE  Spec => []SessionMirrorsDisk
<1>1. Init => NextIdsFit
  BY DEF Init, NextIdsFit, Busy, Critical
<1>2. TypeOK /\ TypeOK' /\ NextIdsFit /\ [Next]_vars => NextIdsFit'
  BY StepNextId DEF NextIdsFit, NextIdFits
<1>3. TypeOK /\ SaveUnderLock /\ SessionsFit /\ SessionsAgree /\ NextIdsFit
      => SessionMirrorsDisk
  <2> SUFFICES ASSUME TypeOK, SaveUnderLock, SessionsFit, SessionsAgree, NextIdsFit,
                      NEW s \in Sessions, pc[s] = "idle", mem[s].tag = disk.tag
               PROVE  /\ mem[s].entries = disk.index
                      /\ mem[s].nextId = NextIdOf(disk.index)
                      /\ mem[s].dek = disk.dek /\ mem[s].kek = disk.wrap
                      /\ \A i \in DOMAIN mem[s].cache :
                           mem[s].cache[i] \in {NotOpen, disk.frames[i].val}
    BY DEF SessionMirrorsDisk
  <2>1. AtRest(mem[s]) /\ RestAgrees(mem[s]) /\ GoodMemory(mem[s]) /\ GoodFile(disk)
    BY DEF SessionsFit, SessionFits, SessionsAgree, SessionAgrees, Agreement, TypeOK
  <2>2. SameCommit(mem[s], disk)
    BY <2>1 DEF AtRest, SameCommit
  <2>3. /\ Agrees(mem[s], disk) /\ Len(mem[s].entries) = Len(disk.index)
        /\ mem[s].unsaved = {}
    BY <2>1, <2>2 DEF RestAgrees
  <2>4. /\ mem[s].entries \in Seq(Entry) /\ disk.index \in Seq(Entry)
        /\ DOMAIN mem[s].entries = DOMAIN disk.index
        /\ DOMAIN mem[s].cache = DOMAIN disk.index
    BY <2>1, <2>3, SlotsOfFile, MemoryParts, SeqShape DEF GoodMemory
  <2>5. mem[s].entries = disk.index
    BY <2>3, <2>4, SameSeq DEF Agrees, Untouched
  <2> QED
    BY <2>1, <2>2, <2>3, <2>4, <2>5
       DEF AtRest, HasKeysOf, Agrees, Untouched, NextIdsFit, NextIdFits
<1> QED
  BY <1>1, <1>2, <1>3, TypeCorrect, SavesExcludeEachOther, SessionsAlwaysFit,
     SessionsAlwaysAgree, PTL DEF Spec

-----------------------------------------------------------------------------
(* The encryption counter *)

\* A random key that is, or could be, in a file; and one a session has just drawn.
Past(key) == \A s \in Sessions, n \in Nat : key = <<s, n>> => n < clock
Drawn(key) == \A s \in Sessions, n \in Nat : key = <<s, n>> => n <= clock

\* The stamp of a frame is the commit it was sealed for.
StampsUpTo(f, tag) == \A i \in DOMAIN f.frames : f.frames[i].stamp <= tag

CounterOfFile(f) ==
  /\ StampsUpTo(f, clock)
  /\ IF f.tag = 0 THEN f.ctr = 0 ELSE Past(f.dek)

\* The DEK an operation of this kind will save under, and the one it started with.
KeysDrawn(kind, dek, before) ==
  /\ kind # "create" => Past(before)
  /\ kind \in {"create", "rotate"} => Drawn(dek)
  /\ kind = "rotate" => dek # before

CounterBuilt ==
  /\ StampsUpTo(draft, draft.tag)
  /\ draft.ctr = (IF draft.dek = disk.dek THEN disk.ctr ELSE 0) + FreshlySealed(draft)
  /\ draft.ctr <= RotationLimit

CounterFits(s) ==
  /\ pc[s] = "idle" => Past(mem[s].dek)
  /\ pc[s] \in Busy => KeysDrawn(Kind(s), mem[s].dek, pending[s].onFail.dek)
  /\ pc[s] = "built" => CounterBuilt

CountersFit ==
  /\ \A f \in {disk, backup} : CounterOfFile(f)
  /\ \A s \in Sessions : CounterFits(s)

\* The clock never goes back.
LEMMA ClockForward ==
  ASSUME TypeOK, SaveUnderLock, [Next]_vars
  PROVE  clock' \in Nat /\ clock' \in {clock, clock + 1}
<1>1. clock \in Nat
  BY DEF TypeOK
<1>2. \A s \in Sessions : Publish(s) => clock' = clock + 1
  BY DEF Publish, SaveUnderLock
<1>3. Backup \/ Restore \/ UNCHANGED vars => clock' = clock
  BY DEF Backup, Restore, vars
<1> QED
  BY <1>1, <1>2, <1>3, FilesOfActs, Moves

LEMMA DrawnKept ==
  ASSUME TypeOK, SaveUnderLock, [Next]_vars, NEW key
  PROVE  /\ Past(key) => Past(key)'
         /\ Drawn(key) => Drawn(key)'
         /\ Drawn(key) /\ clock' = clock + 1 => Past(key)'
<1>1. clock \in Nat /\ clock' \in Nat /\ clock' \in {clock, clock + 1}
  BY ClockForward DEF TypeOK
<1> QED
  BY <1>1 DEF Past, Drawn

LEMMA KeysStayDrawn ==
  ASSUME TypeOK, SaveUnderLock, [Next]_vars, NEW kind, NEW dek, NEW before,
         KeysDrawn(kind, dek, before)
  PROVE  KeysDrawn(kind, dek, before)'
BY DrawnKept DEF KeysDrawn

\* A frame is sealed for the new commit, or older: what Build counts is what it seals.
LEMMA SealedCounted ==
  ASSUME TypeOK, SessionsFit, CountersFit, NEW s \in Sessions, Build(s)
  PROVE  /\ FreshlySealed(NewFile(s)) = EncryptCount(mem[s])
         /\ StampsUpTo(NewFile(s), clock + 1)
<1> DEFINE m == mem[s]
           f == NewFile(s)
<1>1. clock \in Nat /\ GoodFile(disk)
  BY DEF TypeOK
<1>2. f.tag = clock + 1 /\ DOMAIN f.frames = DOMAIN m.entries
  BY DEF NewFile
<1>3. ASSUME NEW i \in DOMAIN m.entries
      PROVE  /\ Resealed(m, i) => f.frames[i].stamp = clock + 1
             /\ ~Resealed(m, i) => f.frames[i].stamp \in Nat /\ f.frames[i].stamp <= clock
  <2>1. Resealed(m, i) => f.frames[i].stamp = clock + 1
    BY DEF NewFile, NewFrame, Resealed, Sealed
  <2>2. ASSUME ~Resealed(m, i)
        PROVE  f.frames[i].stamp \in Nat /\ f.frames[i].stamp <= clock
    <3>1. i \in DOMAIN disk.index /\ f.frames[i] = disk.frames[i]
      BY <2>2, FramesBuilt
    <3>2. disk.frames \in Seq(Frame) /\ i \in DOMAIN disk.frames
      BY <1>1, <3>1, SlotsOfFile DEF GoodFile, File
    <3>3. disk.frames[i] \in Frame
      BY <3>2, SeqShape
    <3> HIDE DEF f
    <3> QED
      BY <3>1, <3>2, <3>3 DEF CountersFit, CounterOfFile, StampsUpTo, Frame
  <2> QED
    BY <2>1, <2>2
<1> HIDE DEF f
<1>4. {i \in DOMAIN f.frames : f.frames[i].stamp = f.tag}
      = {i \in DOMAIN m.entries : Resealed(m, i)}
  BY <1>1, <1>2, <1>3
<1>5. StampsUpTo(f, clock + 1)
  BY <1>1, <1>2, <1>3 DEF StampsUpTo
<1> QED
  BY <1>4, <1>5 DEF FreshlySealed, EncryptCount, f

LEMMA BuildCounts ==
  ASSUME TypeOK, SessionsFit, CountersFit, NEW s \in Sessions, Build(s)
  PROVE  CounterBuilt'
<1> DEFINE m == mem[s]
           before == pending[s].onFail
           f == NewFile(s)
<1>1. draft' = f /\ UNCHANGED disk
  BY DEF Build
<1>2. /\ f.tag = clock + 1 /\ f.dek = m.dek /\ f.ctr = NextCtr(s)
  BY DEF NewFile
<1>3. /\ StillCurrent(s) /\ NextCtr(s) <= RotationLimit
      /\ KeysFit(Kind(s), m, before) /\ KeysDrawn(Kind(s), m.dek, before.dek)
  BY DEF Build, SessionsFit, SessionFits, InOperation, CountersFit, CounterFits, Busy, Critical
<1>4. FreshlySealed(f) = EncryptCount(m) /\ StampsUpTo(f, clock + 1)
  BY SealedCounted
<1> HIDE DEF f
<1>5. (IF Kind(s) \in {"create", "rotate"} THEN 0 ELSE disk.ctr)
      = (IF m.dek = disk.dek THEN disk.ctr ELSE 0)
  <2>1. CASE Kind(s) = "create"
    <3>1. m.tag = 0
      BY <1>3, <2>1 DEF KeysFit
    <3>2. disk.tag = 0
      BY <1>3, <3>1 DEF StillCurrent, Authentic
    <3>3. disk.ctr = 0
      BY <3>2 DEF CountersFit, CounterOfFile
    <3> QED
      BY <2>1, <3>3
  <2>2. CASE Kind(s) = "rotate"
    <3>1. m.tag # 0
      BY <1>3, <2>2 DEF KeysFit, AtRest
    <3>2. disk.dek = before.dek
      BY <1>3, <2>2, <3>1 DEF StillCurrent, Authentic, DiskDek
    <3>3. m.dek # before.dek
      BY <1>3, <2>2 DEF KeysDrawn
    <3> QED
      BY <2>2, <3>2, <3>3
  <2>3. CASE Kind(s) \notin {"create", "rotate"}
    <3>1. m.tag # 0
      BY <1>3, <2>3 DEF KeysFit, AtRest
    <3>2. disk.dek = m.dek
      BY <1>3, <2>3, <3>1 DEF StillCurrent, Authentic, DiskDek
    <3> QED
      BY <2>3, <3>2
  <2> QED
    BY <2>1, <2>2, <2>3
<1>6. /\ StampsUpTo(f, f.tag)
      /\ f.ctr = (IF f.dek = disk.dek THEN disk.ctr ELSE 0) + FreshlySealed(f)
      /\ f.ctr <= RotationLimit
  BY <1>2, <1>3, <1>4, <1>5 DEF NextCtr
<1> QED
  BY <1>1, <1>6 DEF CounterBuilt, StampsUpTo, FreshlySealed

LEMMA FilesCounted ==
  ASSUME TypeOK, SaveUnderLock, SessionsFit, CountersFit, [Next]_vars,
         NEW f \in {disk', backup'}
  PROVE  CounterOfFile(f)'
<1>1. clock \in Nat /\ clock' \in Nat /\ clock' \in {clock, clock + 1}
  BY ClockForward DEF TypeOK
<1>2. ASSUME NEW g \in {disk, backup} PROVE CounterOfFile(g)'
  <2>1. CounterOfFile(g) /\ GoodFile(g)
    BY DEF CountersFit, TypeOK
  <2>2. \A i \in DOMAIN g.frames : g.frames[i] \in Frame
    BY <2>1, SeqShape DEF GoodFile, File
  <2>3. \A i \in DOMAIN g.frames : g.frames[i].stamp \in Nat
    BY <2>2 DEF Frame
  <2> QED
    BY <1>1, <2>1, <2>3, DrawnKept DEF CounterOfFile, StampsUpTo
<1>3. ASSUME NEW s \in Sessions, Publish(s) PROVE CounterOfFile(draft)'
  <2>1. /\ CounterBuilt /\ KeysDrawn(Kind(s), mem[s].dek, pending[s].onFail.dek)
        /\ KeysFit(Kind(s), mem[s], pending[s].onFail)
        /\ draft.dek = mem[s].dek /\ draft.tag = clock + 1 /\ draft.tag # 0
    BY <1>3 DEF Publish, CountersFit, CounterFits, SessionsFit, SessionFits, InOperation,
                Drafted, SaveUnderLock, Busy, Critical
  <2>2. clock' = clock + 1 /\ draft' = draft
    BY <1>3, <2>1 DEF Publish
  <2>3. PICK dek : dek = mem[s].dek
    OBVIOUS
  <2>4. Drawn(dek) \/ Past(dek)
    BY <2>1, <2>3 DEF KeysDrawn, KeysFit
  <2>5. Past(dek)'
    BY <2>2, <2>4, DrawnKept
  <2>6. StampsUpTo(draft, clock + 1)
    BY <2>1 DEF CounterBuilt
  <2> QED
    BY <2>1, <2>2, <2>3, <2>5, <2>6 DEF CounterOfFile, StampsUpTo, Past
<1>4. f \in {disk, backup} \/ \E s \in Sessions : Publish(s) /\ f = draft
  BY Moves, FilesOfActs DEF Publish, Backup, Restore, vars
<1>5. CASE f \in {disk, backup}
  BY <1>2, <1>5
<1>6. ASSUME NEW s \in Sessions, Publish(s), f = draft PROVE CounterOfFile(f)'
  <2>1. draft' = draft /\ CounterOfFile(draft)'
    BY <1>3, <1>6 DEF Publish
  <2> QED
    BY <1>6, <2>1 DEF CounterOfFile, StampsUpTo
<1> QED
  BY <1>4, <1>5, <1>6

\* The keys a session will save under while it goes from one point to the next.
KeysNow(s) ==
  /\ pc[s] = "idle" => Past(mem[s].dek)
  /\ pc[s] \in Busy => KeysDrawn(Kind(s), mem[s].dek, pending[s].onFail.dek)

LEMMA KeysPrepared ==
  ASSUME TypeOK, NEW s \in Sessions, NEW from, NEW kind, NEW after, NEW onFail,
         Prepare(s, from, kind, after, onFail), KeysDrawn(kind, after.dek, onFail.dek)
  PROVE  KeysNow(s)'
<1>1. /\ pc'[s] = "ready" /\ mem'[s] = after /\ clock' = clock
      /\ pending'[s] = [kind |-> kind, onFail |-> onFail]
  BY DEF Prepare, TypeOK
<1> QED
  BY <1>1 DEF KeysNow, Kind, KeysDrawn, Past, Drawn

LEMMA OperationKeys ==
  ASSUME TypeOK, CountersFit, NEW s \in Sessions, Create(s) \/ Operation(s)
  PROVE  KeysNow(s)'
<1> DEFINE m == mem[s]
<1>1. GoodMemory(m) /\ clock \in Nat
  BY DEF TypeOK
<1>2. Drawn(Draw(s)) /\ ~Past(Draw(s))
  BY <1>1 DEF Drawn, Past, Draw
<1>3. pc[s] = "idle" => Past(m.dek)
  BY DEF CountersFit, CounterFits
<1>4. CASE Create(s)
  <2>1. PICK pw : Prepare(s, "closed", "create",
                          [NoSession EXCEPT !.dek = Draw(s), !.kek = [pw |-> pw, salt |-> Draw(s)]],
                          NoSession)
    BY <1>4 DEF Create
  <2>2. [NoSession EXCEPT !.dek = Draw(s), !.kek = [pw |-> pw, salt |-> Draw(s)]].dek = Draw(s)
    BY DEF NoSession
  <2> QED
    BY <1>2, <2>1, <2>2, KeysPrepared DEF KeysDrawn
<1>5. CASE AddEntry(s)
  <2>1. PICK t \in Titles, v \in Secrets :
          Prepare(s, "idle", "add", WithAdded(m, <<<<t, v>>>>), WithAdded(m, <<<<t, v>>>>))
    BY <1>5 DEF AddEntry
  <2>2. WithAdded(m, <<<<t, v>>>>).dek = m.dek /\ Past(m.dek)
    BY <1>1, <1>3, <2>1 DEF WithAdded, GoodMemory, Memory, Prepare
  <2> QED
    BY <2>1, <2>2, KeysPrepared DEF KeysDrawn
<1>6. CASE UpdateEntry(s)
  <2>1. PICK i \in LiveSlots(m), t \in Titles, v \in Secrets :
          Prepare(s, "idle", "update", Edited(Opened(m, i), i, t, v), Opened(m, i))
    BY <1>6 DEF UpdateEntry
  <2>2. Opened(m, i).dek = m.dek /\ Past(m.dek)
    BY <1>1, <1>3, <2>1 DEF Opened, GoodMemory, Memory, Prepare
  <2> QED
    BY <2>1, <2>2, KeysPrepared DEF KeysDrawn
<1>7. CASE DeleteEntry(s) \/ ChangePassword(s)
  <2>1. PICK kind \in {"delete", "password"} : \E after : Prepare(s, "idle", kind, after, m)
    BY <1>7 DEF DeleteEntry, ChangePassword
  <2>2. PICK after : Prepare(s, "idle", kind, after, m)
    BY <2>1
  <2>3. Past(m.dek)
    BY <1>3, <2>2 DEF Prepare
  <2> QED
    BY <2>2, <2>3, KeysPrepared DEF KeysDrawn
<1>8. CASE Import(s)
  <2> DEFINE After(new, items) == WithAdded(WithRecords(m, new), items)
  <2>1. PICK k \in 0 .. MaxBatch :
          \E items \in [1 .. k -> Titles \X Secrets] : \E updated \in SUBSET LiveSlots(m) :
          \E new \in [updated -> Secrets] :
            Prepare(s, "idle", "import", After(new, items), LeftBehind(After(new, items), updated))
    BY <1>8 DEF Import
  <2>2. PICK items \in [1 .. k -> Titles \X Secrets], updated \in SUBSET LiveSlots(m) :
          \E new \in [updated -> Secrets] :
            Prepare(s, "idle", "import", After(new, items), LeftBehind(After(new, items), updated))
    BY <2>1
  <2>3. PICK new \in [updated -> Secrets] :
          Prepare(s, "idle", "import", After(new, items), LeftBehind(After(new, items), updated))
    BY <2>2
  <2>4. WithRecords(m, new).dek = m.dek /\ GoodMemory(WithRecords(m, new))
    <3>1. GoodMemory(WithRecords(m, new))
      BY <1>1, WithRecordsGood
    <3> QED
      BY <1>1, <3>1 DEF WithRecords, GoodMemory, Memory
  <2>5. /\ After(new, items).dek = m.dek
        /\ LeftBehind(After(new, items), updated).dek = m.dek
    BY <2>4 DEF WithAdded, LeftBehind, GoodMemory, Memory
  <2>6. Past(m.dek)
    BY <1>3, <2>3 DEF Prepare
  <2> HIDE DEF After
  <2> QED
    BY <2>3, <2>5, <2>6, KeysPrepared DEF KeysDrawn
<1>9. CASE Rotate(s)
  <2> DEFINE b == AllOpened(m)
             n(pw) == [b EXCEPT !.dek = Draw(s), !.kek = [pw |-> pw, salt |-> Draw(s)]]
  <2>1. PICK pw \in Passwords : Prepare(s, "idle", "rotate", n(pw), b)
    BY <1>9 DEF Rotate
  <2>2. GoodMemory(b)
    BY <1>1, <1>9, AllOpenedGood DEF Rotate, TypeOK
  <2>3. b.dek = m.dek /\ Past(m.dek)
    BY <1>1, <1>3, <2>1 DEF AllOpened, GoodMemory, Memory, Prepare
  <2> HIDE DEF b
  <2>4. n(pw).dek = Draw(s)
    BY <2>2 DEF GoodMemory, Memory
  <2> HIDE DEF n
  <2> QED
    BY <1>2, <2>1, <2>3, <2>4, KeysPrepared DEF KeysDrawn
<1> QED
  BY <1>4, <1>5, <1>6, <1>7, <1>8, <1>9 DEF Operation

LEMMA StepKeys ==
  ASSUME TypeOK, SaveUnderLock, SessionsFit, CountersFit, [Next]_vars, NEW s \in Sessions
  PROVE  KeysNow(s)'
<1>0. KeysNow(s)
  BY DEF CountersFit, CounterFits, KeysNow
<1>1. CASE pc'[s] = pc[s] /\ mem'[s].dek = mem[s].dek /\ pending'[s] = pending[s]
  <2>1. PICK dek, before, kind :
          dek = mem[s].dek /\ before = pending[s].onFail.dek /\ kind = Kind(s)
    OBVIOUS
  <2>2. pc[s] = "idle" => Past(dek)'
    BY <1>0, <2>1, DrawnKept DEF KeysNow
  <2>3. pc[s] \in Busy => KeysDrawn(kind, dek, before)'
    BY <1>0, <2>1, KeysStayDrawn DEF KeysNow
  <2> QED
    BY <1>1, <2>1, <2>2, <2>3 DEF KeysNow, Kind, Past, Drawn, KeysDrawn
<1>2. CASE Create(s) \/ Operation(s)
  BY <1>2, OperationKeys
<1>3. CASE Open(s)
  <2>1. Past(disk.dek) /\ clock' = clock
    BY <1>3 DEF Open, CountersFit, CounterOfFile
  <2>2. pc'[s] = "idle" /\ mem'[s].dek = disk.dek
    BY <1>3 DEF Open, TypeOK
  <2> QED
    BY <2>1, <2>2 DEF KeysNow, Past, Busy, Critical
<1>4. CASE OpenItem(s)
  <2>1. PICK i \in LiveSlots(mem[s]) : mem'[s] = Opened(mem[s], i)
    BY <1>4 DEF OpenItem, TypeOK
  <2>2. mem'[s].dek = mem[s].dek
    BY <2>1 DEF Opened, TypeOK, GoodMemory, Memory
  <2> QED
    BY <1>1, <1>4, <2>2 DEF OpenItem
<1>5. CASE Close(s) \/ StaleBeforeLock(s) \/ Crash(s)
  BY <1>5 DEF Close, StaleBeforeLock, Crash, KeysNow, Busy, Critical, TypeOK
<1>6. CASE LockBusy(s) \/ Refuse(s) \/ WriteFails(s)
  <2>1. pc[s] \in Busy /\ Fail(s) /\ clock' = clock
    BY <1>6 DEF LockBusy, Refuse, WriteFails, Busy, Critical
  <2>2. mem'[s] = pending[s].onFail /\ pc'[s] \notin Busy
        /\ (pc'[s] = "idle" => Kind(s) # "create")
    BY <2>1 DEF Fail, AfterFailure, Busy, Critical, TypeOK
  <2> QED
    BY <1>0, <2>1, <2>2 DEF KeysNow, KeysDrawn, Past
<1>7. CASE TakeLock(s) \/ Build(s) \/ Publish(s)
  <2>1. /\ pc[s] \in Busy /\ pc'[s] \in Busy /\ pc'[s] # "idle"
        /\ mem'[s] = mem[s] /\ pending'[s] = pending[s]
    BY <1>7 DEF TakeLock, Build, Publish, Busy, Critical, TypeOK
  <2>2. PICK dek, before, kind :
          dek = mem[s].dek /\ before = pending[s].onFail.dek /\ kind = Kind(s)
    OBVIOUS
  <2>3. KeysDrawn(kind, dek, before)'
    BY <1>0, <2>1, <2>2, KeysStayDrawn DEF KeysNow
  <2> QED
    BY <2>1, <2>2, <2>3 DEF KeysNow, Kind, Past, Drawn, KeysDrawn
<1>8. CASE Adopt(s)
  <2>1. disk = draft /\ draft.dek = mem[s].dek /\ draft.tag # 0 /\ clock' = clock
    BY <1>8 DEF Adopt, SessionsFit, SessionFits, Drafted
  <2>2. Past(mem[s].dek)
    BY <2>1 DEF CountersFit, CounterOfFile
  <2>3. pc'[s] = "idle" /\ mem'[s].dek = mem[s].dek
    BY <1>8 DEF Adopt, Saved, TypeOK, GoodMemory, Memory
  <2> QED
    BY <2>1, <2>2, <2>3 DEF KeysNow, Past, Busy, Critical
<1> QED
  BY <1>1, <1>2, <1>3, <1>4, <1>5, <1>6, <1>7, <1>8, StaysOrActs DEF Acts, Proceed, Stays

LEMMA NextCounts ==
  ASSUME TypeOK, SaveUnderLock, SessionsFit, CountersFit, [Next]_vars
  PROVE  CountersFit'
<1>1. \A f \in {disk', backup'} : CounterOfFile(f)'
  BY FilesCounted
<1>2. ASSUME NEW s \in Sessions, pc'[s] = "built" PROVE CounterBuilt'
  <2>1. CASE Build(s)
    BY <2>1, BuildCounts
  <2>2. CASE Stays(s) /\ UNCHANGED <<disk, draft, clock>>
    BY <1>2, <2>2 DEF Stays, CountersFit, CounterFits, CounterBuilt, StampsUpTo, FreshlySealed
  <2> QED
    BY <1>2, <2>1, <2>2, SaveMoves
<1>3. \A s \in Sessions : KeysNow(s)'
  BY StepKeys
<1> QED
  BY <1>1, <1>2, <1>3 DEF CountersFit, CounterFits, KeysNow

LEMMA InitCounts == Init => CountersFit
BY EmptySeq DEF Init, CountersFit, CounterOfFile, StampsUpTo, CounterFits, Absent, Busy, Critical

\* The counter in the header goes up by exactly the encryptions a commit made under its
\* DEK, starts from zero under a new DEK, and stops at the limit, for every limit and
\* however many records are cached (what bounds AES-GCM's use of one key).
THEOREM CounterIsExact == Spec => CounterAdvances
<1>1. Init => CountersFit
  BY InitCounts
<1>2. TypeOK /\ SaveUnderLock /\ SessionsFit /\ CountersFit /\ [Next]_vars => CountersFit'
  BY NextCounts
<1>3. ASSUME TypeOK, SaveUnderLock, SessionsFit, CountersFit, [Next]_vars
      PROVE  [disk'.tag > clock =>
                /\ disk'.ctr = (IF disk'.dek = disk.dek THEN disk.ctr ELSE 0)
                               + FreshlySealed(disk')
                /\ disk'.ctr <= RotationLimit]_vars
  <2> SUFFICES ASSUME disk'.tag > clock
               PROVE  /\ disk'.ctr = (IF disk'.dek = disk.dek THEN disk.ctr ELSE 0)
                                     + FreshlySealed(disk')
                      /\ disk'.ctr <= RotationLimit
    OBVIOUS
  <2>1. PICK s \in Sessions : Publish(s)
    BY <1>3, OnlyPublishCommits
  <2>2. CounterBuilt /\ disk' = draft
    BY <1>3, <2>1 DEF Publish, CountersFit, CounterFits
  <2> QED
    BY <2>2 DEF CounterBuilt
<1> QED
  BY <1>1, <1>2, <1>3, TypeCorrect, SavesExcludeEachOther, SessionsAlwaysFit, PTL
     DEF Spec, CounterAdvances
=============================================================================
