--------------------------- MODULE VaultInvariant ---------------------------
(***************************************************************************)
(* Why the vault file stays readable: the invariant that every step of     *)
(* VaultSessions keeps.  It relates what a session holds to the files that *)
(* carry the session's commit tag, wherever they lie (disk or backup), at  *)
(* every point of an operation.                                            *)
(***************************************************************************)
EXTENDS VaultSessions

\* A file that opens with its own header, all of whose items decrypt.
ReadableFile(f) ==
  /\ f.kdf = f.wrap /\ f.kdf.pw \in Passwords
  /\ \A i \in DOMAIN f.index :
       /\ f.frames[i].id = f.index[i].id
       /\ f.frames[i].dek = f.dek
       /\ IF f.index[i].live THEN f.frames[i].val \in Secrets ELSE f.frames[i].val = Blank

FilesReadable ==
  \A f \in {disk, backup} : IF f.tag = 0 THEN f.index = <<>> ELSE ReadableFile(f)

\* Live items are not open or hold a record, deleted ones are not open.
SoundCache(m) ==
  \A i \in DOMAIN m.entries :
    IF m.entries[i].live THEN m.cache[i] # Blank ELSE m.cache[i] = NotOpen

\* The session extends the index of its commit and may have deleted items of it.
Extends(m, f) ==
  /\ Len(f.index) <= Len(m.entries)
  /\ \A i \in DOMAIN f.index :
       /\ m.entries[i].id = f.index[i].id
       /\ m.entries[i].live => f.index[i].live

SameCommit(m, f) == m.tag # 0 /\ m.tag = f.tag
HasKeysOf(m, f) == m.dek = f.dek /\ m.kek = f.wrap

\* A session between two operations, and the one a failed operation returns to.
AtRest(m) ==
  /\ m.tag # 0 /\ m.tag <= clock
  /\ SoundCache(m)
  /\ \A f \in {disk, backup} : SameCommit(m, f) => Extends(m, f) /\ HasKeysOf(m, f)

\* What an operation of each kind does to the keys of the session it started in.
KeysFit(kind, m, before) ==
  /\ kind = "create" => m.tag = 0 /\ m.entries = <<>> /\ before = NoSession
  /\ kind # "create" => AtRest(before) /\ m.tag = before.tag
  /\ kind \in {"create", "rotate", "password"} => m.kek.pw \in Passwords
  /\ kind = "rotate" => \A i \in LiveSlots(m) : m.cache[i] # NotOpen
  /\ kind \notin {"create", "rotate"} => m.dek = before.dek
  /\ kind \notin {"create", "rotate", "password"} => m.kek = before.kek

\* A session inside an operation: sound, and still an extension of its commit
\* until it has published.
InOperation(s) ==
  /\ SoundCache(mem[s]) /\ mem[s].tag <= clock
  /\ KeysFit(Kind(s), mem[s], pending[s].onFail)
  /\ \A f \in {disk, backup} : SameCommit(mem[s], f) => Extends(mem[s], f)

\* The built file is readable and holds what the session will be after the save.
Drafted(s) ==
  /\ draft.tag # 0 /\ draft.parent = mem[s].tag
  /\ ReadableFile(draft)
  /\ draft.index = mem[s].entries /\ draft.dek = mem[s].dek /\ draft.wrap = mem[s].kek

SessionFits(s) ==
  /\ pc[s] \in {"idle", "failed"} => AtRest(mem[s])
  /\ pc[s] \in Busy => InOperation(s)
  /\ pc[s] \in {"built", "renamed"} => Drafted(s)
  /\ pc[s] = "renamed" => disk = draft

\* The files are readable, a tag names one file, and every session fits them.
SessionsFit ==
  /\ FilesReadable
  /\ backup.tag = disk.tag => backup = disk
  /\ \A s \in Sessions : SessionFits(s)
=============================================================================
