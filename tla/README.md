# Latchkey in TLA+

Latchkey is an offline password manager: one encrypted file, a command line, a
terminal interface and a clipboard helper (`src/src/`). This project models the
parts of it that have state and interleave, checks them with TLC on small
instances and proves the most important results with TLAPS for every instance.

    tlc -config SessionsOps.cfg MCVaultSessions.tla     # any run of PROJECT.json
    tlapm VaultSessionsProofs.tla                       # any module of proofs

`PROJECT.json` lists components, runs, the mutant that each property rejects, the
source lines behind every definition, findings, hazards and theorems.

## 1. The system

| Component | State | Operations | Talks to |
|---|---|---|---|
| Vault session (`vault/vault_impl.rs`, `ops.rs`) | keys, index, cache of decrypted records, next id, tag of the commit last read or written | create, open, open_item, add, update, delete, import, rotate, change_password, migrate | vault file, write lock |
| Atomic write protocol (`vault/atomic_write.rs`) | the directory: vault, temp files, lock file | lock, write temp, fsync, rename or hard link, fsync directory | file system |
| File codecs (`vault/parse.rs`, `vault/shape.rs`) | none | parse and serialise header, index, frames | |
| Terminal interface (`tui/mod.rs`) | mode, form, search, reveal, idle time, failed-save flag, clipboard task | event loop, keys, idle lock, unlock, leave | session, clipboard worker |
| Clipboard (`clip/`) | the system clipboard, a snapshot of what was there, a marker, a cancellation flag | copy, hold, expire, compare, restore or clear | Win32, PowerShell, wl-copy, xclip |
| Command line (`cli/mod.rs`, `passwords.rs`, `resolve.rs`) | none between commands | one session and one operation per command; `init --force`, `backup` | session, files, clipboard |
| Import (`cli/import.rs`) | a plan | decode three formats, match titles, plan adds, updates and collisions, ask, apply | session, one-time passwords |
| Generator (`gen/mod.rs`) | none | draw indices without bias, presets, flags | random source |
| One-time passwords (`totp.rs`) | none | secrets, otpauth URIs, counters, truncation | clock |
| Cryptography, ACLs (`crypto`, `windows_acl.rs`) | none | pure functions or single calls of the OS | |

How they interact. A process opens the vault with one read of the file and no lock;
from then on it works on its copy. Every change is made in memory first. Then the
session takes an exclusive OS lock on a sibling file (it never waits for it), reads
the file again, compares its tag with the one it knows, builds the whole new file
(encrypting the index, cached records and tombstones, *copying* every other frame),
writes it to a temporary file, syncs, renames, syncs the directory, and only then
adopts the new tag. Any number of processes do this on one file; each can die or get
an error at any step. The terminal interface keeps a session open for minutes, locks
it by a timer and runs a thread that keeps a copied secret in the clipboard until it
expires; the command line does the same in the foreground.

What is hard, and what makes each part correct:

* **Sessions**: two processes that read the same commit; a cache that outlives the
  commit it was read from; a save that mixes the header on disk with the keys in
  memory; a rotation that must re-encrypt what the session never opened; an error
  after the rename; an error that must put the session back; ids of deleted items.
  Correct when no update is lost, every item of the file decrypts, deleted secrets
  are gone, ids are used once, and each commit is one whole operation on the current
  items.
* **Files**: power losses between write, rename and sync; a forced `init` that moves
  the vault away while another process is saving; files that appear at a name after it
  was looked for. Correct when a name never holds a torn file and a reported commit
  stays in the directory.
* **Terminal interface**: timers against keys, a session whose save failed, a reveal
  that outlives its view, a worker that ends between two looks at it. Correct when
  nothing stays on the screen too long and a failed session is only dropped.
* **Clipboard**: overlapping copies, comparison and restore in two steps, reads that
  fail. Correct when a secret does not outlive its copy and the user's own clipboard
  is left alone.
* **Commands**: prompts and editors between the read of the vault and its save, while
  others commit; generated secrets that are shown; files that appear at the output's name.
  Correct when the exit code tells what was written, what is shown comes from one commit, and
  a command changes what its user saw and nothing else.
* **Import**: a plan made before the user confirms it; titles that repeat in the file, in the
  vault or in both; fields of a wrong type. Correct when each record gets one place in
  the commit that is made, nothing is overwritten unasked and nothing is dropped uncounted.
* **Codecs, generator, one-time passwords**: boundaries and round trips of pure functions.
  Correct for all inputs, not for the tests' few: here the theorems are the check.

The full list, each at its line, is under "hazards" in `PROJECT.json`.

## 2. Modules

| Module | Models | Kind |
|---|---|---|
| `VaultSessions` | the vault file and its sessions: one action per operation, the save step by step, errors, deaths, backup and restore; its properties | core |
| `VaultInvariant` | the inductive invariant `SessionsFit` | core |
| `ItemStore` | abstract: a store of items changed by whole operations | what a vault promises |
| `VaultRefinesStore` | the refinement mapping: the file read back with its keys is an `ItemStore` | refinement |
| `MCVaultSessions` | the two above for TLC, with symmetry | instances |
| `VaultSessionsProofs` | types, mutual exclusion, no lost update; `SessionsFit` and what follows from it | proofs |
| `VaultStoreProofs` | a session agrees with its commit; the refinement of `ItemStore`; the counter | proofs |
| `VaultFiles` | the directory: temp files, syncs, rename and hard link, locks, `init --force`, `backup`, power loss | files |
| `VaultFilesProofs` | its invariant and all its safety properties | proofs |
| `Commands`, `MCCommands` | every command that touches a vault, stage by stage; which commands run in the instance | command line |
| `CommandsProofs` | its scripts, its invariant and all its safety properties | proofs |
| `Imports`, `MCImports` | `import` from the export to the commit; the exports and vaults of the instance | command line |
| `ImportsProofs` | its loops, its invariant and all its properties; the theorems about `Totp` | proofs |
| `TuiApp` | the event loop, its timers, modes and worker | interface |
| `TuiAppProofs` | its invariant and all its safety properties | proofs |
| `Clipboard` | copies that expire, on both backends, with the user and programs that paste | clipboard |
| `ClipboardProofs` | its invariant and all its safety properties | proofs |
| `Totp` | secrets, URIs, counters and truncation; `Imports` extends it | algorithms |
| `Generator` | rejection sampling, presets, flags of `generate` | algorithms |
| `Codecs` | item record and header, byte by byte | algorithms |
| `FileLayout` | the list of index entries, the frames and the whole file, byte by byte; extends `Codecs` | algorithms |
| `AlgorithmProofs` | theorems about `Generator`, `Codecs` and `FileLayout` | proofs |

### VaultSessions

`disk`, `backup` and `draft` are complete files: a header (key, the KEK the header's
salt derives, the KEK the DEK is wrapped under, counter), an index and one frame per
entry. `mem[s]` is `struct Vault` of process `s`, `pending[s]` its operation with the
session an error would leave (`onFail`). A commit's MAC tag is its number; a random
key or salt is named by who drew it and when, so two that reach the file differ; title
and user name are one value, a record is one value; the slot of an item is its
position, as every v2 file has it.

An operation is `Prepare` (what it does to the session, with the guards of the code)
and then `TakeLock` or `LockBusy`, `Build` or `Refuse`, `Publish`, `Adopt`, with
`WriteFails` and `Crash` in between. `Build` stands for the whole of
`save_with_header_locked` up to the rename: nobody else writes under the lock, and
`Publish` is the rename. `parent`, `op` and `stamp` are history.

`unsaved` is history too: the slots of the records a failed import has replaced in the session and
no save has published since. `RetryAfterFailure` says who the caller is: FALSE for the programs (a command exits, the
interface drops the session, which is what `TuiApp!AfterFailureOnlyReopen` checks), TRUE
for a caller of the library that goes on after an error.

### VaultFiles

`dir` is what processes see, `surviving` the directories a power loss may leave: a
rename or link adds one, a sync of the directory leaves only the present one. A file is
`sound` once it is synced. Each file carries the set of commits it descends from, so that
"the commit is still there" can be said of a renamed old vault or a later commit. A
save renames, `init`, `migrate` and `backup` link. `SyncOutcomes` is what a directory sync without an
error may have done: `fsync_dir` returns Ok without an effect when the directory cannot be opened or synced
(always on Windows), and it is skipped for a path without a directory part; `reported` notes of each commit
whether it was synced. `Foreign` says where other programs put files. The file system is assumed to keep names whole (a rename is
one step) and to lose only a suffix of unsynced directory changes; a file that was not
synced comes back torn.

### TuiApp

One action for each part of the loop (`Iterate`, `Wait`, `Timeout`), one per key, the
prompt, the worker's end, the ways out. Time is counted in polls of 250 ms and passes in
the poll and at the prompt only. `screen` is the last frame. `pressed`
is history. The list's filter and cursor are a choice of any live item; the form's
fields and their validation are left out (an invalid form is `OtherInput`); an operation
succeeds or fails, for whatever reason.

### Clipboard

`platform` chooses the backend. On Windows a copy is a window that owns the clipboard and
*promises* its text: the thread renders it when somebody reads (`Render`), so a reader waits
for that thread, and what was not rendered goes with the window (`Orphaned`). `lock` is
OpenClipboard: a copy has it for its snapshot and announcement and again for its restore;
another program may have it open at any time and paste. The marker is read without the lock,
for which Windows promises nothing, so `ReadMarker` finds it or not. With tools
each call reads or writes the clipboard in one step of its own and may fail. `HoldEnds` is the
timeout, a cancellation or Ctrl-C: all three take the same way out. A text carries the copy
that first put it there (`origin`), `last` is what the user copied last, `overlapped` and
`failed` say what happened so far: history. A process copies once at a time (the
interface joins its worker first, a command is one copy) and two processes overlap freely.

### Commands

A command is a script: a sequence of stages such as opening the vault, resolving a title,
prompting, saving, writing the output, printing. Each stage is a step of its own, since between two of
them the user may take minutes; an error, a wrong answer, the end of the input or Ctrl-C ends the
script with the exit code of `cli/error.rs`. `input` is `"ended"` when the process's standard input and its
terminal are at their end: from then on a line of text is empty and a hidden one an error, for good; a
question may be asked again without a bound. The vault is a whole commit: that a save is one step on
commits, or none and refused, is what `VaultSessions` shows of the session underneath. `session` is the
vault as the command opened it, `read` the commit that an item, an export or a backup was taken
from, `shown` what reached the screen, the clipboard or the output; `wrote` and `made` are
history. Only what a property tells apart is kept of a field: its value, `Keep`, `Nothing`, `Empty`.

### Imports

The three decoders take a document whose fields are present, absent, of a wrong type, too long or
hold a NUL. A result is the set of its values and {} an error, so that a comprehension over the fields'
results is the code's chain of `?`. Then the vault is opened, the plan made, shown and confirmed, and
applied in one commit while another process adds, renames and deletes. JSON and CSV syntax is one bit of
the export. The loops over items and records are recursive functions (`Collected`, `Selected`). `Now` is the
time of the import, which a new record gets and an updated one loses again. `VaultsAssumption` says what
any process has checked before it saves (ids below the last and used once, titles and records within
their limits, usable one-time passwords); `SourcesAssumption` what a JSON or CSV reader can return (a key is
there with a value or not, an array is a sequence, every row has the header's columns); and
`ExtraAssumption` that an export has finitely many columns.

### Totp, Generator, Codecs, FileLayout

Operators without state. A secret is its length and how it was typed, a code the counter and the digits it
is taken from. A draw is a 32-bit number and an alphabet its size. A buffer is a sequence of
bytes; the readers return `[ok, val, rest]`, and after an error nothing is left, as the
readers of `Cursor` pass it on with `?`. In `FileLayout` a ciphertext is any sequence of bytes, as long
as its plaintext, with a tag of 16 bytes behind it, and the checksum and the MAC are any bytes of their
length: the module says where things are in a file, `VaultSessions` what they mean. `Repeat` is the loop of both
parsers, `SplitItemFrames` splits the current and the older layout, and `BuildFile` is what
`save_with_header_locked` writes, `CandidateLen` the size it has computed before. No run has `Generator`,
`Codecs` or `FileLayout`: what is said of them holds for every input and is proved.

## 3. Runs

| Run | Asks | Size |
|---|---|---|
| `sessions_ops` | all operations, two processes, one error or death, a counter that runs out: `SaveUnderLock`, `DiskReadable`, `SessionMirrorsDisk`, and that each commit is one operation of `ItemStore` | 55 000 states |
| `sessions_chain` | longer chains with backups put back: `DeletedSecretsGone`, `NoLostUpdate`, `CounterAdvances`, `IndexOnlyGrows` | 202 000 |
| `sessions_failures` | a caller that goes on after errors: `RollbackRestoresSession` and the inductive invariant `SessionsFit`, for every operation | 846 000 |
| `vault_files` | `NoTornFile`, `PromisedSurvives`, `OnlySavesReplace` with two faults and directory syncs that may do nothing | 1 330 000 |
| `tui_app` | `ShownItemLive`, `ScreenInTime`, `SecretInTime`, `AfterFailureOnlyReopen`, `LocksWhenIdle` | 30 400 |
| `clipboard` | `NothingLeftBehind`, `UserTextBack`, `SuccessMeansGone`, `EveryCopyReturns` on both backends | 196 000 |
| `commands` | any command beside one that writes: `ExitCodeTrue`, `ReadsOneCommit`, `RevealedIsStored`, `ChangesWhatWasShown`, `NothingReplaced`, `EndsWithItsInput` | 312 000 |
| `imports` | every kind of field in every format: `EveryRecordOnce`, `OnlyAddsUnasked`, `NothingLost`, `TotpUsable` | 575 000 |
| `forced_inits`, `unsynced_save`, `overlapping_copies`, `failed_import` | violated: section 6 | |

Bounds and why they are enough. Two processes: every hazard of the file is a race of a
saver with one other, and the third would only be refused by the same lock. Two item ids
give a slot that is copied next to one that is opened, deleted or added; three or four
commits give create, change, and a change on top of it by either process, with a backup
of an older one. One record beside `Blank` is enough where only presence is asked, two
where an update must differ from what it replaces. `MaxFaults` counts errors and deaths:
one can hit every step of a save; `vault_files` has two, for an error after
the rename that is followed by a power loss. `RotationLimit` is 2^24 in the code and
4 or 5 where the run is about reaching it. In `tui_app` the idle time is
longer than the reveal time as in the code; only their order and the one poll of slack
matter. In `clipboard` two processes copy once each: one after the other, nested or crossed, with
equal or different secrets, which the user may also copy. In `commands` one process runs any
of 21 commands with their flags beside one of three that write (a forced init, a purge, an edit), on an
absent vault, one with two equal titles, one with an item that is not UTF-8, a sound and a broken one of
version 1; a question may be asked again as often as the user likes, the input may end at any prompt, and one
call may fail. In `imports` a file has one to four
records, an item limit of three, ids that run out at seven and numbers that end at 200: each limit
of the code is passed on both sides. The three runs of sessions
use symmetry over processes and records: no definition tells them apart. The runs with liveness use none. `TuiApp` and
`VaultFiles` may stop (the interface ends, the bounds are used up), so their
deadlock check is off; in the other modules it is on.

Fairness. `TuiApp`: weak fairness of the loop's own steps, as the poll has a timeout; nothing of users,
errors or the worker. `Clipboard`: weak fairness of a copy's own statements (the
hold and the first wait for the lock have a timeout) and of rendering by a thread that dispatches
messages; a program closes the clipboard in the end (weak), and a copy that polls for it to restore
its snapshot gets it some time (strong: that wait has no timeout, and each program has the clipboard
open for moments only). `Commands`: weak fairness of the next stage of a
process whose input is at its end, as then it waits for nobody; of a user nothing is assumed, who may mistype a
new master password for ever. `VaultSessions`, `VaultFiles` and `Imports` have safety properties only: no
statement inside an operation waits (the lock is tried, not awaited), so that they return would only restate that.

## 4. Proofs

`VaultSessionsProofs` proves, for any set of processes, items, records and any bounds:

* `TypeCorrect`: `TypeOK`, which includes that each file has one frame per entry and
  each session one cache slot per entry, with ids increasing along the slots.
* `SavesExcludeEachOther`: `SaveUnderLock`. Inductive together with `TypeOK`: the lock's
  holder is exactly the process between `TakeLock` and `Adopt`, so the commit
  `Build` compared is still there when `Publish` replaces it.
* `NothingOverwrittenUnread`: the action property `NoLostUpdate` from it.

It then proves `SessionsAlwaysFit`. `DiskReadable` alone is not inductive:
whether the next file is readable depends on what the session holds, at every point of
its operation, and on what a failed operation left in it. `SessionsFit` (module
`VaultInvariant`) says: both files are readable; a tag names one file; a session at rest
has a sound cache (live: not open or a record; deleted: not open), and whichever
file carries its tag, the session extends that file's index and has its keys; inside an
operation the keys differ only as that kind of operation allows, a rotation has every live
record open; a draft is readable and is what the session will be. The hardest step is
`NewFileReadable`: a frame that is copied has the old key, so its entry must be on disk
and the key unchanged. From the invariant follow `AlwaysReadable` (`DiskReadable`),
`DeletedAreGone` (`DeletedSecretsGone`) and `IndexGrowsOnly` (`IndexOnlyGrows`).

`VaultStoreProofs` proves what a commit does to the items. `SessionsFit` says that the next file is readable,
not what it holds, so three invariants are added, each inductive together with `SessionsFit`:

* `SessionsAgree`. A session at rest has the index of its commit and, of each record, nothing or what the file holds
  (`RestAgrees`). Inside an operation all slots but those of the operation are `Untouched`, with one case per kind
  (`Changed`); a built file holds, slot by slot, the cached record or the frame on disk (`BuiltFrom`); after the rename
  the session holds what it wrote (`Holds`). `RollbackIsComplete` (`RollbackRestoresSession`) follows, and with
  the lemmas on the items of a file (`OneInserted`, `OneReplaced`, `OneDeleted`, `SomeMerged`,
  `NoneChanged`) `VaultIsAnItemStore`: the rename is the one step of the store, all others stutter.
* `NextIdsFit`: the next id is always the one `NextIdOf` finds in the index. With `SessionsAgree` it
  gives `SessionIsItsCommit` (`SessionMirrorsDisk`).
* `CountersFit`: a frame's stamp is not later than its file, keys in a file were drawn before it, a rotation's key is
  not the one on disk. A frame copied from disk is therefore never counted twice: `CounterIsExact`
  (`CounterAdvances`), for both values of `RetryAfterFailure`.

`RollbackIsComplete` is for every operation and for callers that go on after any failure, imports included. It
says what the code restores and names what it does not: a failed import is not rolled back in the session
(section 6), so a cached record may differ from the commit in the slots that are `unsaved`, and entries a
failed add or import left lie beyond the file's index. It says nothing of a session whose rename took place
and whose directory sync failed, as that one does not know the commit on disk; what holds for it is in
`SessionsFit` (it still fits the file that carries its tag) and in `NoLostUpdate` (its next save is refused).
`SessionIsItsCommit` and `VaultIsAnItemStore` assume `~RetryAfterFailure`: that is how the programs call the library.

Assumptions: the named ASSUMEs on constants, and the abstraction of cryptography: a key
opens what it sealed and nothing else, tags and draws do not collide. `SessionsFit` holds
for both values of `RetryAfterFailure`.

`VaultFilesProofs`, for any number of processes, faults, files and places where foreign files appear:
`FilesTyped`, `NeverTorn`, `SavedForGood`, `ReplacedBySavesOnly` (the four properties of the run) and
`OneForcedInitDeletesNothing`. Its invariant relates what a process has in hand to what survives:
`TaskFits` (the file of each task is what its steps so far made it), `FilesMade` (nothing refers to a
file before it is made), `SaveSees` (until a save renames, what it read is still at the name, or a
forced init took it away), `PublishedKept` (what was published still has a name when the operation
returns) and `BakFree` (the `bak.n` that a forced init picked is still free). `SavedForGood` is about the commits
that were reported after a sync that took place, whatever later syncs do, and the run `unsynced_save` shows that
the others need not survive. It and `BakFree` assume `OneForces`, at most one process that forces an init; the run
`forced_inits` shows that this cannot be dropped.

`TuiAppProofs`, for every idle time and reveal time: `InterfaceTyped`, `ShownItemIsLive`,
`ScreenAlwaysInTime`, `SecretAlwaysInTime`, `FailedOnlyReopens`. The bounds on time are inductive only
with the frame: `FrameFits` says that the last frame shows what the mode shows, or is about
to be redrawn before time passes; `RevealFits` that what is revealed is what the last `r` asked for;
`PromptLocked` that the prompt has the locked view behind it; `FailureShown` that a session that failed is
in the view of the operation that failed, with the flag that lets only `R` and leaving go on.

`ClipboardProofs`, for any number of processes, copies and texts: `ClipboardTyped`, `NothingStays`,
`UserTextKept`, `SuccessTakesAway`. Each of the actions of both backends is first shown to be one of seven
shapes (`Outside`, `Begins`, `Moves`, `Finds`, `Puts`, `Succeeds`, `Fails`), and the invariant is proved for
the shapes: `OneAtATime` (without an overlap one copy is on), `OriginsTrue` (a text that carries a copy's name is
what that copy put there), `Owned` (on Windows a secret is there only while its window owns the
clipboard), `Clean` (before any overlap and error no copy has found a secret) and `Kept` (the
user's last text is in the clipboard or in the hands of the copy that owns it).

`CommandsProofs`, for every set of processes, of commands they may run and of vaults they may find: all
safety properties of the run `commands`, `TypeOKAlways`, `ExitCodeTrueAlways`, `ReadsOneCommitAlways`,
`ChangesWhatWasShownAlways`, `NothingReplacedAlways` and `RevealedIsStoredAlways`. A script is a
sequence that depends on flags; what the properties need of it is that some stages never
come after others (`MayFollow`), are only in some commands (`Belongs`) and are missing in none (`Covers`), and
`ScriptsGood` shows that of every script with every set of flags. The invariant `CommandsFit` then
speaks of the set of stages that are left, not of positions: nothing is known or
done before its stage (`NotBefore`), everything is after it (`After`), so that a command whose set is
empty and whose code is 0 has written what it should. `Known` ties a session to the vault
(the vault with its tag is the vault it opened), `Exporting` an output that is half written to the one
process that writes it. For `RevealedIsStored`, `Unspread` is added: what a process generates is in no
vault, session or answer before its own commit, which needs that generated
passwords differ from all others (`VaultsAssumption`).

`ImportsProofs`, for every set of exports of any length, of vaults of any size and for all limits: the five properties of the
run `imports`, `ImportsTyped` (`TypeOK`), `CodesAlwaysUsable` (`TotpUsable`), `NothingIsLost`
(`NothingLost`), `OnlyAddsWithoutAsking` (`OnlyAddsUnasked`) and `EveryRecordHasOnePlace`
(`EveryRecordOnce`). First the loops. The library's induction theorems take a predicate, which no prover here
can instantiate, so induction is stated for the *set* of numbers that satisfy one (`Inductive`, from the
well-founded order of the naturals), and `LoopExists` gives the function that a recursive definition picks. With
these `SelectedPlaces` says that a selection keeps the order and takes each place once, and
`CollectedIs` that the skipped parts are zero together only if they are zero in each item. Then each
decoder (`NativeParsed`, `BitwardenParsed`, `KeepassxcParsed`): what it returns may be stored, has a usable
one-time password if it has one, and all parts of its item unless it counted some (the login part of a secure note
is no part of it, and `PlanCarries` lets an update drop a native user name: section 6). `PlanSplits`: adds and updates
divide the records of the export between them, each at one place. `AppliedSound`: the commit of such a plan is a
sound vault. `TypeOK` is inductive only with the session, which may be older than the vault, and with the
plan, which waits for an answer: `SessionFits` (what was read is an earlier commit, or is this one when the
tags are equal), `PlanFits` (from the preview on the plan is that of this export and this session) and
`UnaskedPure` (without a yes only a plan of nothing but adds is applied) make up `ImportsFit` together with `TypeOK` and
`TotpUsable`. Both action properties then follow at `Apply`, which commits only while the tags are equal,
so that the vault is the one the plan was made for. Besides the named assumptions of `Imports`, these
proofs use that a period may be 30 (`U32Assumption`).

About `Totp` the same module has `CodeWindow` (a code is valid exactly until the time it names), `TruncationInDigest`
(the four bytes are inside the digest for every algorithm) and `UriUsable` (a URI that is accepted has a secret of the
length its algorithm asks for, wherever in the URI either stands).

`AlgorithmProofs`, for every item and every buffer: `ItemRoundTrip` (what `serialize_item` writes,
`parse_item` reads back), `ItemCanonical` (it reads nothing else, so no record has two
encodings), `HeaderRoundTrip` and `AadIsTheFile` (what authenticates a parsed header is
the bytes of the file). Each reader has two lemmas: *Back* (it returns what its writer wrote, whatever
follows) and *Split* (what it accepts is what its writer would write, and the rest); `Stuck` lemmas carry an
error to the end. UTF-8 is a constant set of byte sequences. For the generator: `Unbiased` (for every alphabet
the accepted draws of one index correspond one to one to those of any other), `MostDrawsAccepted` (fewer than half are
drawn again), `FlagsHonoured`, `IndexInAlphabet`.

And about a whole file, of any number of entries and frames: `IndexRoundTrip` and `IndexCanonical` (every
list of entries is read back in order, and what is read as one is its entries to the last byte),
`FramesReadBack` and `FramesCanonical` (the same of the frames between index and trailer, in both layouts),
`FrameOpened`, `ItemSize` (`item_plaintext_len`, which is computed apart from the serializer, is its length) and
`FileRoundTrip`, which joins them: let each slot be a valid cached record, a tombstone or a frame copied
from a file that was split, and let the size computed before the encryption be within the limit. Then the file
written has exactly that size, so the second check never fails after the nonces are spent; no length in it
is cut off when it is put into its four bytes; and the header, what is to be decrypted of the index, and the frame of
every slot are read back. It assumes of encryption only the lengths. The loops are again by induction
on sets of numbers (`Inductive`): that what `Repeat` has read after n turns is a front of the buffer and n values, and, for the way
back, that buffers which are written one behind the other are read one after the other.

Every safety invariant and every safety property of steps that a run checks is stated by a theorem, with
the hypotheses named above. Only model-checked: liveness under fairness (`EveryCopyReturns`, `EndsWithItsInput`, `LocksWhenIdle`), which is
out of the prover's reach.

## 5. Order of work

Done: the sessions (every safety property), the files, the interface and the clipboard with proofs; the
commands and imports with proofs; one-time passwords, generator, codecs and file layout with theorems. What is
left:

1. `migrate` in `VaultSessions` (`Commands` and `VaultFiles` have it): a version 1 file would keep the encrypted records
   of deleted items, so `ReadableFile` has to tell such frames apart.
2. That the commits of `Imports` and `Commands` are steps of `ItemStore`, as those of `VaultSessions` are: both
   take a save to be one step, and state what it does to the items as properties of their own.

## 6. Findings

* `forced_inits`: two `init --force` that see the same free `bak.n` delete one of the two
  vaults (`cli/mod.rs:448`; the message at line 437).
* `unsynced_save`: a save is reported as done although its directory was not synced, and a power loss can
  undo it. `fsync_dir` (`atomic_write.rs:194`) returns Ok without a sync on `PermissionDenied`, `InvalidInput`
  and the errors 1, 13 and 21, which is always so on Windows and for a directory one may write but not read;
  both callers skip it for a path without a directory part (`atomic_write.rs:131`). Step 4 of
  `docs/VAULT_FORMAT.md:278` has no exception.
* `failed_import`: a failed import is not rolled back (`vault_impl.rs:420`, `ops.rs:194`): its new entries and
  replaced records stay in the session, and a caller of the library that goes on publishes them with its next
  save. The comment at `vault_impl.rs:417` says that the session keeps its prior state, `tests/transactional_ops.rs:1`
  that failed operations leave it exactly as it was. A failed add stays in the same way (`ops.rs:80`). The
  programs drop such a session. `SessionsFit` accepts both: what the next save publishes is sound, only unasked.
* `overlapping_copies`: a copy that starts while another one is on keeps that one's secret as its
  snapshot and puts it back at its own end; nothing takes it away any more
  (`win32_delayed.rs:251`, `:285`; `docs/NEXT_RELEASE.md:27`, `clip/expiry.rs:3`). The marker stops the
  older copy, which would not restore anyway, because its window no longer owns the clipboard.
  On WSL and Linux, which have no marker, it is the same.

Seen while reading, without a run: the counter of encryptions under a key (`docs/VAULT_FORMAT.md:104`)
does not count those of a save that failed after encrypting; the reveal is taken back ten seconds after the key, not
after ten seconds without input (`tui/mod.rs:5` and `:38` against `:379`); the comment at
`atomic_write.rs:6` has leftover temporary files removed by the next write, which no code does; a
clipboard worker's result is lost if the next copy comes before the loop has looked (`tui/mod.rs:835` joins it
with `let _ =`), if the interface locks by its timer in the same turn, whose message overwrites it
(`tui/mod.rs:356`, `:371`), and when the loop ends with an error (`tui/mod.rs:308`), where
`docs/TUI_GUIDE.md:54` and `:60` have every completion or error reported: `TuiApp` has these steps and
states no property of the result; with the tools of WSL and Linux the clipboard is compared and written back in two
steps (`unix.rs:185`, `:204`), and what the user copies in between is overwritten, where `src/README.md:31` and
`docs/TUI_GUIDE.md:59` say that it never is: `Clipboard` has both steps, `UserTextBack` is stated for
Windows; `edit --notes` without a value opens no editor but replaces the notes by the empty text
(`cli/mod.rs:184`, `default_missing_value`; `docs/CLI_REFERENCE.md:100`), as `FlaggedNotes` of `Commands` does; a KeePassXC import does not refuse an embedded NUL, as
`nonempty_secret` does not look (the comment at `import.rs:550`, `docs/CLI_REFERENCE.md:113`, `docs/NEXT_RELEASE.md:42`);
a native import drops the user name of an item that updates one (`import.rs:263-268`), a Bitwarden import the login
part of a secure note (`import.rs:396-402`), neither counted as skipped, where `docs/CLI_REFERENCE.md:240-245` has source
fields preserved or counted: these two are the named exceptions of `NothingLost`; an `algorithm` of a native one-time password
that is not a string is taken for SHA1 (`import.rs:669-670`), as `ParseTotp` does; the branch of `resolve_notes` that opens
an editor is unreachable.

What some properties do not reach: `SessionMirrorsDisk` is about sessions that save, and what a command answers from
an older commit is `ReadsOneCommit`; `CounterAdvances` counts commits only; `SuccessMeansGone` leaves overlapping
copies on Windows to `overlapping_copies`.

## 7. Not modelled

What the checksum and the MAC of a file are computed from (`VaultSessions` keeps what they decide: which
commit a file is and which key opens it). JSON and CSV syntax. Argon2, AES, ChaCha and HMAC (assumed). Entropy estimates and a failing
random source of the generator. Access control lists, Windows clipboard
history: single calls. The branch of `resolve_notes` that cannot be reached. Layout, filter and form fields of the
interface. Links planted at a lock's or temp file's name and writers that
ignore the lock, except the user who puts a backup back and foreign files in `VaultFiles` and `Commands`. The
replacement of the whole file by an older one cannot be seen by a fresh session
(`docs/VAULT_FORMAT.md:267`), and `Restore` models just that.
