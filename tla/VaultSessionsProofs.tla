------------------------ MODULE VaultSessionsProofs ------------------------
(***************************************************************************)
(* Theorems about VaultSessions for any number of processes, items,        *)
(* records, passwords, commits and failures: the types, the lock, and what *)
(* the vault file holds.  It can always be opened and every live item      *)
(* decrypts, deleted secrets are gone, and the index only grows; for that, *)
(* SessionsFit (VaultInvariant) is inductive relative to TypeOK and        *)
(* SaveUnderLock.                                                          *)
(***************************************************************************)
EXTENDS VaultInvariant, SequenceTheorems, FiniteSetTheorems, TLAPS

(* Lemmas about the shape of sessions and files *)

LEMMA SeqShape ==
  ASSUME NEW S, NEW q \in Seq(S)
  PROVE  /\ Len(q) \in Nat
         /\ DOMAIN q = 1 .. Len(q)
         /\ \A i \in DOMAIN q : q[i] \in S
BY LenProperties, ElementOfSeq

\* A function on the domain of a sequence is a sequence of the same length.
LEMMA SeqFrom ==
  ASSUME NEW S, NEW n \in Nat, NEW f \in [1 .. n -> S]
  PROVE  f \in Seq(S) /\ Len(f) = n
BY SeqDef

\* Any session built from good parts is good.
LEMMA MemoryParts ==
  ASSUME NEW m, GoodMemory(m)
  PROVE  /\ m = [tag |-> m.tag, dek |-> m.dek, kek |-> m.kek, entries |-> m.entries,
                 cache |-> m.cache, nextId |-> m.nextId, unsaved |-> m.unsaved]
         /\ m.tag \in Nat /\ m.dek \in Keys /\ m.kek \in Keks
         /\ m.entries \in Seq(Entry) /\ m.cache \in Seq(Secrets \cup {Blank, NotOpen})
         /\ m.nextId \in Nat /\ m.unsaved \in SUBSET Nat
         /\ DOMAIN m.entries = 1 .. Len(m.entries) /\ DOMAIN m.cache = DOMAIN m.entries
         /\ Len(m.entries) \in Nat
<1>1. m \in Memory
  BY DEF GoodMemory
<1>2. /\ m.entries \in Seq(Entry) /\ m.cache \in Seq(Secrets \cup {Blank, NotOpen})
  BY <1>1 DEF Memory
<1>3. QED
  BY <1>1, <1>2, SeqShape DEF Memory, GoodMemory

\* Re-keying, marking a commit, changing the cache: the parts that stay decide.
LEMMA CacheReplaced ==
  ASSUME NEW m, GoodMemory(m), NEW c \in [DOMAIN m.cache -> Secrets \cup {Blank, NotOpen}]
  PROVE  GoodMemory([m EXCEPT !.cache = c])
<1> DEFINE n == [m EXCEPT !.cache = c]
<1>1. c \in Seq(Secrets \cup {Blank, NotOpen}) /\ Len(c) = Len(m.entries)
  BY MemoryParts, SeqFrom
<1>2. n \in Memory
  BY <1>1 DEF GoodMemory, Memory
<1>3. n.entries = m.entries /\ n.cache = c /\ n.nextId = m.nextId
  BY DEF GoodMemory, Memory
<1>4. QED
  BY <1>1, <1>2, <1>3 DEF GoodMemory

LEMMA KeysReplaced ==
  ASSUME NEW m, GoodMemory(m), NEW dek \in Keys, NEW kek \in Keks
  PROVE  GoodMemory([m EXCEPT !.dek = dek, !.kek = kek])
<1> DEFINE n == [m EXCEPT !.dek = dek, !.kek = kek]
<1>1. n \in Memory
  BY DEF GoodMemory, Memory
<1>2. n.entries = m.entries /\ n.cache = m.cache /\ n.nextId = m.nextId
  BY DEF GoodMemory, Memory
<1>3. QED
  BY <1>1, <1>2 DEF GoodMemory

LEMMA EntriesReplaced ==
  ASSUME NEW m, GoodMemory(m), NEW e \in Seq(Entry),
         NEW c \in Seq(Secrets \cup {Blank, NotOpen}), NEW k,
         k \in Nat, Len(c) = Len(e), Increasing(e), \A i \in DOMAIN e : e[i].id < k
  PROVE  GoodMemory([m EXCEPT !.entries = e, !.cache = c, !.nextId = k])
<1> DEFINE n == [m EXCEPT !.entries = e, !.cache = c, !.nextId = k]
<1>1. n \in Memory
  BY DEF GoodMemory, Memory
<1>2. n.entries = e /\ n.cache = c /\ n.nextId = k
  BY DEF GoodMemory, Memory
<1>3. QED
  BY <1>1, <1>2 DEF GoodMemory

LEMMA KekReplaced ==
  ASSUME NEW m, GoodMemory(m), NEW kek \in Keks
  PROVE  GoodMemory([m EXCEPT !.kek = kek])
<1> DEFINE n == [m EXCEPT !.kek = kek]
<1>1. n \in Memory
  BY DEF GoodMemory, Memory
<1>2. n.entries = m.entries /\ n.cache = m.cache /\ n.nextId = m.nextId
  BY DEF GoodMemory, Memory
<1>3. QED
  BY <1>1, <1>2 DEF GoodMemory

LEMMA SavedGood ==
  ASSUME NEW m, GoodMemory(m), NEW tag \in Nat
  PROVE  /\ GoodMemory(Saved(m, tag))
         /\ Saved(m, tag) = [m EXCEPT !.tag = tag, !.unsaved = {}]
         /\ Saved(m, tag).unsaved = {}
<1> DEFINE n == Saved(m, tag)
<1>1. n \in Memory
  BY DEF GoodMemory, Memory, Saved
<1>2. n.entries = m.entries /\ n.cache = m.cache /\ n.nextId = m.nextId
  BY DEF GoodMemory, Memory, Saved
<1>3. n.unsaved = {}
  BY DEF GoodMemory, Memory, Saved
<1>4. QED
  BY <1>1, <1>2, <1>3 DEF GoodMemory, Saved

\* What a failed import leaves differs from what it would have saved in history only.
LEMMA LeftBehindParts ==
  ASSUME NEW m, GoodMemory(m), NEW slots \in SUBSET Nat
  PROVE  /\ GoodMemory(LeftBehind(m, slots))
         /\ LeftBehind(m, slots).tag = m.tag /\ LeftBehind(m, slots).dek = m.dek
         /\ LeftBehind(m, slots).kek = m.kek /\ LeftBehind(m, slots).entries = m.entries
         /\ LeftBehind(m, slots).cache = m.cache
         /\ LeftBehind(m, slots).unsaved = m.unsaved \cup slots
<1> DEFINE n == LeftBehind(m, slots)
<1>1. n \in Memory
  BY DEF GoodMemory, Memory, LeftBehind
<1>2. /\ n.tag = m.tag /\ n.dek = m.dek /\ n.kek = m.kek
      /\ n.entries = m.entries /\ n.cache = m.cache /\ n.nextId = m.nextId
      /\ n.unsaved = m.unsaved \cup slots
  BY DEF GoodMemory, Memory, LeftBehind
<1>3. QED
  BY <1>1, <1>2 DEF GoodMemory

\* Editing one entry in place, id aside, and its cache slot.
LEMMA SlotReplaced ==
  ASSUME NEW m, GoodMemory(m), NEW i \in DOMAIN m.entries,
         NEW entry \in Entry, entry.id = m.entries[i].id,
         NEW val \in Secrets \cup {Blank, NotOpen}
  PROVE  GoodMemory([m EXCEPT !.entries = [m.entries EXCEPT ![i] = entry],
                              !.cache = [m.cache EXCEPT ![i] = val]])
<1> DEFINE e == [m.entries EXCEPT ![i] = entry]
           c == [m.cache EXCEPT ![i] = val]
           n == [m EXCEPT !.entries = e, !.cache = c]
<1>1. /\ m.entries \in Seq(Entry) /\ m.cache \in Seq(Secrets \cup {Blank, NotOpen})
      /\ i \in 1 .. Len(m.entries) /\ i \in 1 .. Len(m.cache) /\ Len(m.entries) = Len(m.cache)
      /\ m.nextId \in Nat
  BY MemoryParts DEF GoodMemory
<1>2. e \in Seq(Entry) /\ Len(e) = Len(m.entries) /\ DOMAIN e = DOMAIN m.entries
  BY <1>1, ExceptSeq
<1>3. c \in Seq(Secrets \cup {Blank, NotOpen}) /\ Len(c) = Len(m.cache)
  BY <1>1, ExceptSeq
<1>4. \A j \in DOMAIN m.entries : e[j].id = m.entries[j].id
  OBVIOUS
<1>5. Increasing(e) /\ \A j \in DOMAIN e : e[j].id < m.nextId
  BY <1>2, <1>4 DEF GoodMemory, Increasing
<1> HIDE DEF e, c
<1>6. n \in Memory
  BY <1>1, <1>2, <1>3 DEF GoodMemory, Memory
<1>7. n.entries = e /\ n.cache = c /\ n.nextId = m.nextId
  BY DEF GoodMemory, Memory
<1>8. GoodMemory(n)
  BY <1>1, <1>2, <1>3, <1>5, <1>6, <1>7 DEF GoodMemory
<1>9. QED
  BY <1>8 DEF e, c

LEMMA EntryEdited ==
  ASSUME NEW m, GoodMemory(m), NEW i \in DOMAIN m.entries, NEW t \in Titles, NEW v \in Secrets
  PROVE  GoodMemory(Edited(m, i, t, v))
<1> DEFINE entry == [m.entries[i] EXCEPT !.title = t]
<1>1. m.entries[i] \in Entry
  BY MemoryParts, SeqShape
<1>2. entry \in Entry /\ entry.id = m.entries[i].id
  BY <1>1 DEF Entry
<1> HIDE DEF entry
<1>3. GoodMemory([m EXCEPT !.entries = [m.entries EXCEPT ![i] = entry],
                           !.cache = [m.cache EXCEPT ![i] = v]])
  BY <1>2, SlotReplaced
<1>4. Edited(m, i, t, v)
        = [m EXCEPT !.entries = [m.entries EXCEPT ![i] = entry],
                    !.cache = [m.cache EXCEPT ![i] = v]]
  BY DEF GoodMemory, Memory, entry, Edited
<1>5. QED
  BY <1>3, <1>4

LEMMA EntryRetired ==
  ASSUME NEW m, GoodMemory(m), NEW i \in DOMAIN m.entries
  PROVE  GoodMemory(Tombstoned(m, i))
<1> DEFINE entry == [m.entries[i] EXCEPT !.live = FALSE]
<1>1. m.entries[i] \in Entry
  BY MemoryParts, SeqShape
<1>2. entry \in Entry /\ entry.id = m.entries[i].id
  BY <1>1 DEF Entry
<1> HIDE DEF entry
<1>3. GoodMemory([m EXCEPT !.entries = [m.entries EXCEPT ![i] = entry],
                           !.cache = [m.cache EXCEPT ![i] = NotOpen]])
  BY <1>2, SlotReplaced
<1>4. Tombstoned(m, i)
        = [m EXCEPT !.entries = [m.entries EXCEPT ![i] = entry],
                    !.cache = [m.cache EXCEPT ![i] = NotOpen]]
  BY DEF GoodMemory, Memory, entry, Tombstoned
<1>5. QED
  BY <1>3, <1>4

LEMMA NewSessionGood == GoodMemory(NoSession) /\ GoodFile(Absent)
<1>1. NoKey \in Keys /\ NoKek \in Keks
  BY DEF Keys, Keks, NoKek
<1>2. NoSession \in Memory /\ Absent \in File
  BY <1>1, EmptySeq DEF NoSession, Memory, Absent, File, Kinds
<1>3. /\ NoSession.entries = <<>> /\ NoSession.cache = <<>>
      /\ Absent.index = <<>> /\ Absent.frames = <<>>
  BY DEF NoSession, Absent
<1>4. QED
  BY <1>2, <1>3, EmptySeq DEF GoodMemory, GoodFile, Increasing

\* A session's draw is a key.
LEMMA DrawIsKey ==
  ASSUME clock \in Nat, NEW s \in Sessions
  PROVE  Draw(s) \in Keys
BY DEF Draw, Keys

\* The next id of an index is above every id in it: one past its last id.
LEMMA NextIdAbove ==
  ASSUME NEW index \in Seq(Entry), Increasing(index)
  PROVE  /\ NextIdOf(index) \in Nat
         /\ \A i \in DOMAIN index : index[i].id < NextIdOf(index)
<1>1. Len(index) \in Nat /\ DOMAIN index = 1 .. Len(index)
  BY SeqShape
<1>2. \A i \in DOMAIN index : index[i] \in Entry
  BY SeqShape
<1>3. \A i \in DOMAIN index : index[i].id \in Nat
  BY <1>2 DEF Entry
<1>4. PICK n \in {1} \cup {index[i].id + 1 : i \in DOMAIN index} :
        \A i \in DOMAIN index : index[i].id < n
  <2>1. CASE Len(index) = 0
    BY <2>1, <1>1
  <2>2. CASE Len(index) # 0
    <3>1. Len(index) \in DOMAIN index
      BY <2>2, <1>1
    <3>2. \A i \in DOMAIN index : index[i].id < index[Len(index)].id + 1
      BY <3>1, <1>1, <1>3 DEF Increasing
    <3>3. QED
      BY <3>1, <3>2
  <2>3. QED
    BY <2>1, <2>2
<1>5. /\ NextIdOf(index) \in {1} \cup {index[i].id + 1 : i \in DOMAIN index}
      /\ \A i \in DOMAIN index : index[i].id < NextIdOf(index)
  BY <1>4 DEF NextIdOf
<1>6. QED
  BY <1>3, <1>5

\* What Vault::open builds from a good file.
LEMMA OpenedSessionGood ==
  ASSUME NEW f, GoodFile(f)
  PROVE  GoodMemory([tag |-> f.tag, dek |-> f.dek, kek |-> f.kdf, entries |-> f.index,
                     cache |-> [i \in DOMAIN f.index |-> NotOpen],
                     nextId |-> NextIdOf(f.index), unsaved |-> {}])
<1> DEFINE c == [i \in DOMAIN f.index |-> NotOpen]
           n == [tag |-> f.tag, dek |-> f.dek, kek |-> f.kdf, entries |-> f.index,
                 cache |-> c, nextId |-> NextIdOf(f.index), unsaved |-> {}]
<1>1. /\ f.tag \in Nat /\ f.dek \in Keys /\ f.kdf \in Keks /\ f.index \in Seq(Entry)
      /\ Increasing(f.index)
  BY DEF GoodFile, File
<1>2. Len(f.index) \in Nat /\ DOMAIN f.index = 1 .. Len(f.index)
  BY <1>1, SeqShape
<1>3. c \in Seq(Secrets \cup {Blank, NotOpen}) /\ Len(c) = Len(f.index)
  <2>1. c \in [1 .. Len(f.index) -> Secrets \cup {Blank, NotOpen}]
    BY <1>2
  <2>2. QED
    BY <2>1, <1>2, SeqFrom
<1>4. /\ NextIdOf(f.index) \in Nat
      /\ \A i \in DOMAIN f.index : f.index[i].id < NextIdOf(f.index)
  BY <1>1, NextIdAbove
<1> HIDE DEF c
<1>5. n \in Memory
  BY <1>1, <1>3, <1>4 DEF Memory
<1>6. QED
  BY <1>1, <1>3, <1>4, <1>5 DEF GoodMemory, c

\* open_item keeps the session good: the item's frame exists.
LEMMA OpenedGood ==
  ASSUME NEW m, GoodMemory(m), GoodFile(disk), NEW i \in LiveSlots(m), CanOpen(m, i)
  PROVE  GoodMemory(Opened(m, i))
<1>1. i \in DOMAIN m.cache
  BY MemoryParts DEF LiveSlots
<1>2. m.cache[i] = NotOpen => disk.frames[i].val \in Secrets \cup {Blank}
  <2>1. disk.frames \in Seq(Frame)
    BY DEF GoodFile, File
  <2>2. m.cache[i] = NotOpen => disk.frames[i] \in Frame
    BY <2>1, SeqShape DEF CanOpen
  <2>3. QED
    BY <2>2 DEF Frame
<1> DEFINE c == [m.cache EXCEPT ![i] = IF @ = NotOpen THEN disk.frames[i].val ELSE @]
<1>3. m.cache \in [DOMAIN m.cache -> Secrets \cup {Blank, NotOpen}]
  BY MemoryParts, SeqShape
<1>4. c \in [DOMAIN m.cache -> Secrets \cup {Blank, NotOpen}]
  BY <1>1, <1>2, <1>3
<1>5. Opened(m, i) = [m EXCEPT !.cache = c]
  BY MemoryParts DEF Opened
<1> HIDE DEF c
<1>6. QED
  BY <1>4, <1>5, CacheReplaced

\* The session of a rotation: the records of the snapshot are cached.
LEMMA AllOpenedGood ==
  ASSUME NEW m, GoodMemory(m), GoodFile(disk), Len(disk.frames) = Len(m.entries)
  PROVE  GoodMemory(AllOpened(m))
<1> DEFINE c == [i \in DOMAIN m.cache |->
                   IF m.entries[i].live THEN disk.frames[i].val ELSE m.cache[i]]
<1>1. disk.frames \in Seq(Frame)
  BY DEF GoodFile, File
<1>2. \A i \in DOMAIN m.cache : disk.frames[i] \in Frame
  BY <1>1, SeqShape, MemoryParts
<1>3. \A i \in DOMAIN m.cache : disk.frames[i].val \in Secrets \cup {Blank}
  BY <1>2 DEF Frame
<1>4. m.cache \in [DOMAIN m.cache -> Secrets \cup {Blank, NotOpen}]
  BY MemoryParts, SeqShape
<1>5. c \in [DOMAIN m.cache -> Secrets \cup {Blank, NotOpen}]
  BY <1>3, <1>4
<1>6. AllOpened(m) = [m EXCEPT !.cache = c]
  BY MemoryParts DEF AllOpened
<1> HIDE DEF c
<1>7. QED
  BY <1>5, <1>6, CacheReplaced

LEMMA WithRecordsGood ==
  ASSUME NEW m, GoodMemory(m), NEW updated \in SUBSET LiveSlots(m),
         NEW new \in [updated -> Secrets]
  PROVE  GoodMemory(WithRecords(m, new)) /\ WithRecords(m, new).nextId = m.nextId
<1> DEFINE c == [i \in DOMAIN m.cache |-> IF i \in DOMAIN new THEN new[i] ELSE m.cache[i]]
<1>1. m.cache \in [DOMAIN m.cache -> Secrets \cup {Blank, NotOpen}]
  BY MemoryParts, SeqShape
<1>2. c \in [DOMAIN m.cache -> Secrets \cup {Blank, NotOpen}]
  BY <1>1
<1>3. WithRecords(m, new) = [m EXCEPT !.cache = c]
  BY MemoryParts DEF WithRecords
<1> HIDE DEF c
<1>4. [m EXCEPT !.cache = c].nextId = m.nextId
  BY MemoryParts
<1>5. QED
  BY <1>2, <1>3, <1>4, CacheReplaced

\* Entries numbered from n on, put after entries below n.
LEMMA AppendedEntries ==
  ASSUME NEW a \in Seq(Entry), NEW b \in Seq(Entry), NEW n \in Nat,
         Increasing(a), \A i \in DOMAIN a : a[i].id < n,
         \A j \in DOMAIN b : b[j].id = n + (j - 1)
  PROVE  /\ a \o b \in Seq(Entry) /\ Len(a \o b) = Len(a) + Len(b)
         /\ Increasing(a \o b)
         /\ \A i \in DOMAIN (a \o b) : (a \o b)[i].id < n + Len(b)
<1> DEFINE c == a \o b
<1>1. /\ Len(a) \in Nat /\ DOMAIN a = 1 .. Len(a)
      /\ Len(b) \in Nat /\ DOMAIN b = 1 .. Len(b)
  BY SeqShape
<1>2. /\ c \in Seq(Entry) /\ Len(c) = Len(a) + Len(b)
      /\ \A i \in 1 .. Len(a) + Len(b) : c[i] = IF i <= Len(a) THEN a[i] ELSE b[i - Len(a)]
  BY ConcatProperties, Zenon
<1> HIDE DEF c
<1>3. DOMAIN c = 1 .. Len(a) + Len(b)
  BY <1>2, SeqShape
<1>4. \A i \in 1 .. Len(a) : c[i] = a[i]
  BY <1>1, <1>2
<1>5. \A i \in Len(a) + 1 .. Len(a) + Len(b) : c[i].id = n + (i - Len(a) - 1)
  <2> TAKE i \in Len(a) + 1 .. Len(a) + Len(b)
  <2>1. c[i] = b[i - Len(a)] /\ i - Len(a) \in DOMAIN b
    BY <1>1, <1>2
  <2>2. QED
    BY <2>1, <1>1
<1>6. \A i \in DOMAIN a : a[i].id \in Nat /\ a[i].id < n
  <2>1. \A i \in DOMAIN a : a[i] \in Entry
    BY SeqShape
  <2>2. QED
    BY <2>1 DEF Entry
<1>7. \A i \in 1 .. Len(a) : c[i].id \in Nat /\ c[i].id < n
  BY <1>1, <1>4, <1>6
<1>8. \A i \in DOMAIN c : c[i].id < n + Len(b)
  <2> TAKE i \in DOMAIN c
  <2>1. CASE i <= Len(a)
    BY <2>1, <1>1, <1>3, <1>7
  <2>2. CASE i > Len(a)
    BY <2>2, <1>1, <1>3, <1>5
  <2>3. QED
    BY <2>1, <2>2, <1>1, <1>3
<1>9. Increasing(c)
  <2> SUFFICES ASSUME NEW i \in DOMAIN c, NEW j \in DOMAIN c, i < j
               PROVE  c[i].id < c[j].id
    BY DEF Increasing
  <2>1. CASE j <= Len(a)
    BY <2>1, <1>1, <1>3, <1>4 DEF Increasing
  <2>2. CASE i <= Len(a) /\ j > Len(a)
    <3>1. c[i].id \in Nat /\ c[i].id < n
      BY <2>2, <1>1, <1>3, <1>7
    <3>2. c[j].id = n + (j - Len(a) - 1)
      BY <2>2, <1>1, <1>3, <1>5
    <3>3. QED
      BY <3>1, <3>2, <2>2, <1>1, <1>3
  <2>3. CASE i > Len(a)
    <3>1. j > Len(a) /\ i \in Nat /\ j \in Nat /\ Len(a) \in Nat
      BY <2>3, <1>1, <1>3
    <3>2. i \in Len(a) + 1 .. Len(a) + Len(b) /\ j \in Len(a) + 1 .. Len(a) + Len(b)
      BY <2>3, <3>1, <1>1, <1>3
    <3>3. c[i].id = n + (i - Len(a) - 1) /\ c[j].id = n + (j - Len(a) - 1)
      BY <3>2, <1>5, Zenon
    <3>4. QED
      BY <3>1, <3>3, i < j
  <2>4. QED
    BY <2>1, <2>2, <2>3, <1>1, <1>3
<1>10. QED
  BY <1>2, <1>8, <1>9 DEF c

\* New items get the ids from next_item_id on, in order, beyond every other id.
LEMMA WithAddedGood ==
  ASSUME NEW m, GoodMemory(m), NEW items \in Seq(Titles \X Secrets)
  PROVE  GoodMemory(WithAdded(m, items))
<1> DEFINE e == [j \in DOMAIN items |->
                   [id |-> m.nextId + (j - 1), live |-> TRUE, title |-> items[j][1]]]
           r == [j \in DOMAIN items |-> items[j][2]]
<1>1. /\ Len(items) \in Nat /\ DOMAIN items = 1 .. Len(items)
      /\ \A j \in DOMAIN items : items[j][1] \in Titles /\ items[j][2] \in Secrets
  <2>1. \A j \in DOMAIN items : items[j] \in Titles \X Secrets
    BY SeqShape
  <2>2. QED
    BY <2>1, SeqShape
<1>2. m.nextId \in Nat
  BY MemoryParts
<1>3. e \in Seq(Entry) /\ Len(e) = Len(items)
  <2>1. e \in [1 .. Len(items) -> Entry]
    BY <1>1, <1>2 DEF Entry
  <2>2. QED
    BY <2>1, <1>1, SeqFrom
<1>4. r \in Seq(Secrets \cup {Blank, NotOpen}) /\ Len(r) = Len(items)
  <2>1. r \in [1 .. Len(items) -> Secrets \cup {Blank, NotOpen}]
    BY <1>1
  <2>2. QED
    BY <2>1, <1>1, SeqFrom
<1>5. \A j \in DOMAIN e : e[j].id = m.nextId + (j - 1)
  OBVIOUS
<1> HIDE DEF e, r
<1>6. /\ m.entries \o e \in Seq(Entry)
      /\ Len(m.entries \o e) = Len(m.entries) + Len(items)
      /\ Increasing(m.entries \o e)
      /\ \A i \in DOMAIN (m.entries \o e) : (m.entries \o e)[i].id < m.nextId + Len(items)
      /\ m.nextId + Len(items) \in Nat
  <2>1. m.entries \in Seq(Entry) /\ Increasing(m.entries)
        /\ \A i \in DOMAIN m.entries : m.entries[i].id < m.nextId
    BY MemoryParts DEF GoodMemory
  <2>2. m.nextId + Len(items) \in Nat
    BY <1>1, <1>2
  <2>3. QED
    BY <2>1, <2>2, <1>2, <1>3, <1>5, AppendedEntries
<1>7. /\ m.cache \o r \in Seq(Secrets \cup {Blank, NotOpen})
      /\ Len(m.cache \o r) = Len(m.entries \o e)
  <2>1. m.cache \in Seq(Secrets \cup {Blank, NotOpen}) /\ Len(m.cache) = Len(m.entries)
    BY MemoryParts DEF GoodMemory
  <2>2. /\ m.cache \o r \in Seq(Secrets \cup {Blank, NotOpen})
        /\ Len(m.cache \o r) = Len(m.cache) + Len(r)
    BY <2>1, <1>4, ConcatProperties, Zenon
  <2>3. QED
    BY <2>1, <2>2, <1>4, <1>6
<1>8. GoodMemory([m EXCEPT !.entries = m.entries \o e, !.cache = m.cache \o r,
                           !.nextId = m.nextId + Len(items)])
  BY <1>1, <1>2, <1>6, <1>7, EntriesReplaced, Zenon
<1>9. QED
  BY <1>8, Zenon DEF WithAdded, e, r

-----------------------------------------------------------------------------
(* The complete file a save builds *)

LEMMA SlotsFinite ==
  ASSUME NEW S, NEW q \in Seq(S), NEW T \in SUBSET DOMAIN q
  PROVE  IsFiniteSet(T) /\ Cardinality(T) \in Nat
<1>1. DOMAIN q = 1 .. Len(q) /\ Len(q) \in Nat
  BY SeqShape
<1>2. IsFiniteSet(1 .. Len(q))
  BY <1>1, FS_Interval
<1>3. IsFiniteSet(T)
  BY <1>1, <1>2, FS_Subset
<1>4. QED
  BY <1>3, FS_CardinalityType

LEMMA EncryptCountNat ==
  ASSUME NEW m, GoodMemory(m)
  PROVE  EncryptCount(m) \in Nat
<1> DEFINE T == {i \in DOMAIN m.entries : Resealed(m, i)}
<1>1. m.entries \in Seq(Entry)
  BY MemoryParts
<1>2. Cardinality(T) \in Nat
  BY <1>1, SlotsFinite
<1>3. QED
  BY <1>2 DEF EncryptCount

\* Every frame of the new file exists: sealed now, or copied from the old slot.
LEMMA NewFrameTyped ==
  ASSUME TypeOK, NEW s \in Sessions, Copyable(s), NEW i \in DOMAIN mem[s].entries
  PROVE  NewFrame(s, i) \in Frame
<1>1. /\ GoodMemory(mem[s]) /\ GoodFile(disk) /\ clock \in Nat
  BY DEF TypeOK
<1>2. /\ mem[s].entries \in Seq(Entry) /\ mem[s].dek \in Keys
      /\ mem[s].cache \in Seq(Secrets \cup {Blank, NotOpen})
      /\ i \in DOMAIN mem[s].cache
  BY <1>1, MemoryParts
<1>3. mem[s].entries[i].id \in Nat
  <2>1. mem[s].entries[i] \in Entry
    BY <1>2, SeqShape
  <2>2. QED
    BY <2>1 DEF Entry
<1>4. mem[s].cache[i] \in Secrets \cup {Blank, NotOpen}
  BY <1>2, SeqShape
<1>5. \A val \in Secrets \cup {Blank} : Sealed(s, i, val) \in Frame
  BY <1>1, <1>2, <1>3 DEF Sealed, Frame
<1>6. CASE Resealed(mem[s], i)
  BY <1>4, <1>5, <1>6 DEF NewFrame, Resealed
<1>7. CASE ~Resealed(mem[s], i)
  <2> DEFINE id == mem[s].entries[i].id
  <2>1. OnDisk(id)
    BY <1>7 DEF Copyable
  <2>2. OldSlot(id) \in DOMAIN disk.index
    BY <2>1 DEF OnDisk, OldSlot
  <2>3. disk.frames \in Seq(Frame) /\ DOMAIN disk.frames = DOMAIN disk.index
    BY <1>1, SeqShape DEF GoodFile, File
  <2>4. disk.frames[OldSlot(id)] \in Frame
    BY <2>2, <2>3, SeqShape
  <2>5. QED
    BY <1>7, <2>4 DEF NewFrame, Resealed
<1>8. QED
  BY <1>6, <1>7

LEMMA NewFileGood ==
  ASSUME TypeOK, NEW s \in Sessions, Copyable(s)
  PROVE  GoodFile(NewFile(s))
<1> DEFINE m == mem[s]
           fr == [i \in DOMAIN m.entries |-> NewFrame(s, i)]
<1>1. GoodMemory(m) /\ GoodFile(disk) /\ clock \in Nat
  BY DEF TypeOK
<1>2. /\ m.tag \in Nat /\ m.dek \in Keys /\ m.kek \in Keks
      /\ m.entries \in Seq(Entry) /\ Increasing(m.entries)
      /\ Len(m.entries) \in Nat /\ DOMAIN m.entries = 1 .. Len(m.entries)
  <2>1. Increasing(m.entries)
    BY <1>1 DEF GoodMemory
  <2>2. QED
    BY <2>1, <1>1, MemoryParts
<1>3. fr \in Seq(Frame) /\ Len(fr) = Len(m.entries)
  <2>1. fr \in [1 .. Len(m.entries) -> Frame]
    BY <1>2, NewFrameTyped
  <2>2. QED
    BY <2>1, <1>2, SeqFrom
<1>4. NextCtr(s) \in Nat
  BY <1>1, EncryptCountNat DEF NextCtr, GoodFile, File
<1>5. HeaderKdf(s) \in Keks /\ Kind(s) \in Kinds
  BY <1>1, <1>2 DEF HeaderKdf, GoodFile, File, Kind, TypeOK
<1> DEFINE f == [tag |-> clock + 1, parent |-> m.tag, op |-> Kind(s), dek |-> m.dek,
                 kdf |-> HeaderKdf(s), wrap |-> m.kek, ctr |-> NextCtr(s),
                 index |-> m.entries, frames |-> fr]
<1>6. NewFile(s) = f
  BY DEF NewFile
<1> HIDE DEF m, fr
<1>7. f \in File
  BY <1>1, <1>2, <1>3, <1>4, <1>5 DEF File
<1>8. GoodFile(f)
  BY <1>2, <1>3, <1>7 DEF GoodFile
<1>9. QED
  BY <1>6, <1>8

-----------------------------------------------------------------------------
(* Every step keeps the types and shapes *)

LEMMA PrepareType ==
  ASSUME TypeOK, NEW s \in Sessions, NEW from, NEW kind \in Kinds, NEW after, NEW onFail,
         GoodMemory(after), GoodMemory(onFail), Prepare(s, from, kind, after, onFail)
  PROVE  TypeOK'
<1>1. pc' \in [Sessions -> Points]
  BY DEF TypeOK, Prepare, Points, Busy
<1>2. DOMAIN mem' = Sessions /\ \A t \in Sessions : GoodMemory(mem'[t])
  BY DEF TypeOK, Prepare
<1>3. onFail \in Memory
  BY DEF GoodMemory
<1>4. pending' \in [Sessions -> [kind: Kinds, onFail: Memory]]
  BY <1>3 DEF TypeOK, Prepare
<1>5. \A t \in Sessions : GoodMemory(pending'[t].onFail)
  BY DEF TypeOK, Prepare
<1>6. QED
  BY <1>1, <1>2, <1>4, <1>5 DEF TypeOK, Prepare

LEMMA FailType ==
  ASSUME TypeOK, NEW s \in Sessions, Fail(s), UNCHANGED <<disk, backup, clock>>,
         faults' \in Nat
  PROVE  TypeOK'
<1>1. pc' \in [Sessions -> Points]
  BY DEF TypeOK, Fail, Points, Busy
<1>2. DOMAIN mem' = Sessions /\ \A t \in Sessions : GoodMemory(mem'[t])
  BY DEF TypeOK, Fail, AfterFailure
<1>3. NoOp \in [kind: Kinds, onFail: Memory] /\ GoodMemory(NoOp.onFail)
  BY NewSessionGood DEF NoOp, Kinds, GoodMemory
<1>4. /\ pending' \in [Sessions -> [kind: Kinds, onFail: Memory]]
      /\ \A t \in Sessions : GoodMemory(pending'[t].onFail)
  BY <1>3 DEF TypeOK, Fail
<1>5. GoodFile(draft') /\ lock' \in Sessions \cup {Nobody}
  BY NewSessionGood DEF TypeOK, Fail
<1>6. QED
  BY <1>1, <1>2, <1>4, <1>5 DEF TypeOK

LEMMA InitType == Init => TypeOK
<1> SUFFICES ASSUME Init PROVE TypeOK
  OBVIOUS
<1>1. NoOp \in [kind: Kinds, onFail: Memory] /\ GoodMemory(NoOp.onFail)
  BY NewSessionGood DEF NoOp, Kinds, GoodMemory
<1>2. pc \in [Sessions -> Points]
  BY DEF Init, Points
<1>3. QED
  BY <1>1, <1>2, NewSessionGood DEF Init, TypeOK

\* An operation starts from a good session and leaves two.
LEMMA OperationType ==
  ASSUME TypeOK, NEW s \in Sessions, Create(s) \/ Operation(s)
  PROVE  TypeOK'
<1> DEFINE m == mem[s]
<1>1. GoodMemory(m) /\ GoodFile(disk) /\ clock \in Nat /\ Draw(s) \in Keys
  BY DrawIsKey DEF TypeOK
<1>2. {"create", "add", "update", "delete", "import", "rotate", "password"} \subseteq Kinds
  BY DEF Kinds
<1>3. CASE Create(s)
  <2>1. PICK pw \in Passwords :
          Prepare(s, "closed", "create",
                  [NoSession EXCEPT !.dek = Draw(s), !.kek = [pw |-> pw, salt |-> Draw(s)]],
                  NoSession)
    BY <1>3 DEF Create
  <2>2. [pw |-> pw, salt |-> Draw(s)] \in Keks
    BY <1>1 DEF Keks
  <2>3. QED
    BY <2>1, <2>2, <1>1, <1>2, NewSessionGood, KeysReplaced, PrepareType
<1>4. CASE AddEntry(s)
  <2>1. PICK t \in Titles, v \in Secrets :
          Prepare(s, "idle", "add", WithAdded(m, <<<<t, v>>>>), WithAdded(m, <<<<t, v>>>>))
    BY <1>4 DEF AddEntry
  <2>2. <<<<t, v>>>> \in Seq(Titles \X Secrets)
    OBVIOUS
  <2>3. QED
    BY <2>1, <2>2, <1>1, <1>2, WithAddedGood, PrepareType
<1>5. CASE UpdateEntry(s)
  <2>1. PICK i \in LiveSlots(m), t \in Titles, v \in Secrets :
          /\ CanOpen(m, i)
          /\ Prepare(s, "idle", "update", Edited(Opened(m, i), i, t, v), Opened(m, i))
    BY <1>5 DEF UpdateEntry
  <2>2. GoodMemory(Opened(m, i))
    BY <2>1, <1>1, OpenedGood
  <2>3. i \in DOMAIN Opened(m, i).entries
    BY <1>1, MemoryParts DEF Opened, LiveSlots
  <2>4. GoodMemory(Edited(Opened(m, i), i, t, v))
    BY <2>2, <2>3, EntryEdited
  <2>5. QED
    BY <2>1, <2>2, <2>4, <1>2, PrepareType
<1>6. CASE DeleteEntry(s)
  <2>1. PICK i \in LiveSlots(m) :
          Prepare(s, "idle", "delete", Tombstoned(m, i), m)
    BY <1>6 DEF DeleteEntry
  <2>2. GoodMemory(Tombstoned(m, i))
    BY <1>1, EntryRetired DEF LiveSlots
  <2>3. QED
    BY <2>1, <2>2, <1>1, <1>2, PrepareType
<1>7. CASE Import(s)
  <2> DEFINE After(new, items) == WithAdded(WithRecords(m, new), items)
  <2>1. PICK n \in 0 .. MaxBatch :
          \E items \in [1 .. n -> Titles \X Secrets] : \E updated \in SUBSET LiveSlots(m) :
          \E new \in [updated -> Secrets] :
            Prepare(s, "idle", "import", After(new, items), LeftBehind(After(new, items), updated))
    BY <1>7 DEF Import
  <2>2. PICK items \in [1 .. n -> Titles \X Secrets], updated \in SUBSET LiveSlots(m) :
          \E new \in [updated -> Secrets] :
            Prepare(s, "idle", "import", After(new, items), LeftBehind(After(new, items), updated))
    BY <2>1
  <2>3. PICK new \in [updated -> Secrets] :
          Prepare(s, "idle", "import", After(new, items), LeftBehind(After(new, items), updated))
    BY <2>2
  <2>4. items \in Seq(Titles \X Secrets)
    BY SeqFrom, BoundsAssumption
  <2>5. GoodMemory(After(new, items))
    BY <2>4, <1>1, WithRecordsGood, WithAddedGood
  <2> HIDE DEF After
  <2>6. GoodMemory(LeftBehind(After(new, items), updated))
    <3>1. updated \in SUBSET Nat
      BY <1>1, MemoryParts DEF LiveSlots
    <3> QED
      BY <2>5, <3>1, LeftBehindParts
  <2>7. QED
    BY <2>3, <2>5, <2>6, <1>2, PrepareType
<1>8. CASE Rotate(s)
  <2>1. Len(disk.frames) = Len(m.entries)
    BY <1>8 DEF Rotate
  <2>2. PICK pw \in Passwords :
          Prepare(s, "idle", "rotate",
                  [AllOpened(m) EXCEPT !.dek = Draw(s), !.kek = [pw |-> pw, salt |-> Draw(s)]],
                  AllOpened(m))
    BY <1>8 DEF Rotate
  <2>3. [pw |-> pw, salt |-> Draw(s)] \in Keks
    BY <1>1 DEF Keks
  <2>4. GoodMemory(AllOpened(m))
    BY <2>1, <1>1, AllOpenedGood
  <2>5. QED
    BY <2>2, <2>3, <2>4, <1>1, <1>2, KeysReplaced, PrepareType
<1>9. CASE ChangePassword(s)
  <2>1. PICK pw \in Passwords :
          Prepare(s, "idle", "password", [m EXCEPT !.kek = [pw |-> pw, salt |-> Draw(s)]], m)
    BY <1>9 DEF ChangePassword
  <2>2. [pw |-> pw, salt |-> Draw(s)] \in Keks
    BY <1>1 DEF Keks
  <2>3. QED
    BY <2>1, <2>2, <1>1, <1>2, KekReplaced, PrepareType
<1>10. QED
  BY <1>3, <1>4, <1>5, <1>6, <1>7, <1>8, <1>9 DEF Operation

\* Opening, closing, reading an item.
LEMMA SessionType ==
  ASSUME TypeOK, NEW s \in Sessions,
         Open(s) \/ Close(s) \/ OpenItem(s) \/ StaleBeforeLock(s)
  PROVE  TypeOK'
<1> DEFINE m == mem[s]
<1>1. GoodMemory(m) /\ GoodFile(disk)
  BY DEF TypeOK
<1>2. NoOp \in [kind: Kinds, onFail: Memory] /\ GoodMemory(NoOp.onFail)
  BY NewSessionGood DEF NoOp, Kinds, GoodMemory
<1>3. {"idle", "closed", "failed"} \subseteq Points
  BY DEF Points
<1>4. CASE Open(s)
  <2>1. GoodMemory([tag |-> disk.tag, dek |-> disk.dek, kek |-> disk.kdf,
                    entries |-> disk.index, cache |-> [i \in DOMAIN disk.index |-> NotOpen],
                    nextId |-> NextIdOf(disk.index), unsaved |-> {}])
    BY <1>1, OpenedSessionGood
  <2>2. DOMAIN mem' = Sessions /\ \A t \in Sessions : GoodMemory(mem'[t])
    BY <1>4, <2>1 DEF TypeOK, Open
  <2>3. QED
    BY <1>3, <1>4, <2>2 DEF TypeOK, Open
<1>5. CASE Close(s)
  <2>1. DOMAIN mem' = Sessions /\ \A t \in Sessions : GoodMemory(mem'[t])
    BY <1>5, NewSessionGood DEF TypeOK, Close
  <2>2. /\ pending' \in [Sessions -> [kind: Kinds, onFail: Memory]]
        /\ \A t \in Sessions : GoodMemory(pending'[t].onFail)
    BY <1>2, <1>5 DEF TypeOK, Close
  <2>3. QED
    BY <1>3, <1>5, <2>1, <2>2 DEF TypeOK, Close
<1>6. CASE OpenItem(s)
  <2>1. PICK i \in LiveSlots(m) : CanOpen(m, i) /\ mem' = [mem EXCEPT ![s] = Opened(m, i)]
    BY <1>6 DEF OpenItem
  <2>2. GoodMemory(Opened(m, i))
    BY <1>1, <2>1, OpenedGood
  <2>3. DOMAIN mem' = Sessions /\ \A t \in Sessions : GoodMemory(mem'[t])
    BY <2>1, <2>2 DEF TypeOK
  <2>4. QED
    BY <1>6, <2>3 DEF TypeOK, OpenItem
<1>7. CASE StaleBeforeLock(s)
  BY <1>3, <1>7 DEF TypeOK, StaleBeforeLock
<1>8. QED
  BY <1>4, <1>5, <1>6, <1>7

\* The steps of a save and the ways it ends.
LEMMA SaveType ==
  ASSUME TypeOK, NEW s \in Sessions, Proceed(s) \/ WriteFails(s) \/ Crash(s)
  PROVE  TypeOK'
<1>1. Critical \subseteq Points /\ {"idle", "closed"} \subseteq Points
  BY DEF Points, Busy
<1>2. NoOp \in [kind: Kinds, onFail: Memory] /\ GoodMemory(NoOp.onFail)
  BY NewSessionGood DEF NoOp, Kinds, GoodMemory
<1>3. CASE TakeLock(s)
  BY <1>1, <1>3 DEF TypeOK, TakeLock, Critical
<1>4. CASE LockBusy(s) \/ Refuse(s) \/ WriteFails(s)
  <2>1. faults' \in Nat
    BY <1>4 DEF TypeOK, LockBusy, Refuse, WriteFails
  <2>2. QED
    BY <1>4, <2>1, FailType DEF LockBusy, Refuse, WriteFails
<1>5. CASE Build(s)
  <2>1. GoodFile(draft')
    BY <1>5, NewFileGood DEF Build
  <2>2. pc' \in [Sessions -> Points]
    BY <1>1, <1>5 DEF TypeOK, Build, Critical
  <2>3. QED
    BY <1>5, <2>1, <2>2 DEF TypeOK, Build
<1>6. CASE Publish(s)
  <2>1. GoodFile(disk') /\ clock' \in Nat
    BY <1>6 DEF TypeOK, Publish, GoodFile, File
  <2>2. pc' \in [Sessions -> Points]
    BY <1>1, <1>6 DEF TypeOK, Publish, Critical
  <2>3. QED
    BY <1>6, <2>1, <2>2 DEF TypeOK, Publish
<1>7. CASE Adopt(s)
  <2>1. GoodMemory(Saved(mem[s], draft.tag))
    BY SavedGood DEF TypeOK, GoodFile, File
  <2>2. DOMAIN mem' = Sessions /\ \A t \in Sessions : GoodMemory(mem'[t])
    BY <1>7, <2>1 DEF TypeOK, Adopt
  <2>3. /\ pending' \in [Sessions -> [kind: Kinds, onFail: Memory]]
        /\ \A t \in Sessions : GoodMemory(pending'[t].onFail)
    BY <1>2, <1>7 DEF TypeOK, Adopt
  <2>4. pc' \in [Sessions -> Points]
    BY <1>1, <1>7 DEF TypeOK, Adopt
  <2>5. QED
    BY <1>7, <2>2, <2>3, <2>4, NewSessionGood DEF TypeOK, Adopt
<1>8. CASE Crash(s)
  <2>1. DOMAIN mem' = Sessions /\ \A t \in Sessions : GoodMemory(mem'[t])
    BY <1>8, NewSessionGood DEF TypeOK, Crash
  <2>2. /\ pending' \in [Sessions -> [kind: Kinds, onFail: Memory]]
        /\ \A t \in Sessions : GoodMemory(pending'[t].onFail)
    BY <1>2, <1>8 DEF TypeOK, Crash
  <2>3. /\ pc' \in [Sessions -> Points] /\ lock' \in Sessions \cup {Nobody}
        /\ GoodFile(draft') /\ faults' \in Nat
    BY <1>1, <1>8, NewSessionGood DEF TypeOK, Crash
  <2>4. QED
    BY <1>8, <2>1, <2>2, <2>3 DEF TypeOK, Crash
<1>9. QED
  BY <1>3, <1>4, <1>5, <1>6, <1>7, <1>8 DEF Proceed

LEMMA NextType == TypeOK /\ [Next]_vars => TypeOK'
<1> SUFFICES ASSUME TypeOK, [Next]_vars PROVE TypeOK'
  OBVIOUS
<1>1. CASE UNCHANGED vars
  BY <1>1 DEF vars, TypeOK
<1>2. CASE Backup \/ Restore
  BY <1>2 DEF TypeOK, Backup, Restore
<1>3. ASSUME NEW s \in Sessions,
             Create(s) \/ Operation(s)
      PROVE  TypeOK'
  BY <1>3, OperationType
<1>4. ASSUME NEW s \in Sessions,
             Open(s) \/ Close(s) \/ OpenItem(s) \/ StaleBeforeLock(s)
      PROVE  TypeOK'
  BY <1>4, SessionType
<1>5. ASSUME NEW s \in Sessions,
             Proceed(s) \/ WriteFails(s) \/ Crash(s)
      PROVE  TypeOK'
  BY <1>5, SaveType
<1>6. QED
  BY <1>1, <1>2, <1>3, <1>4, <1>5 DEF Next

\* Type correctness: every file and every session the program can hold is well
\* formed (one frame per entry, one cache slot per entry, ids increasing and
\* below the next id), whatever fails and whoever interleaves.
THEOREM TypeCorrect == Spec => []TypeOK
<1>1. Init => TypeOK
  BY InitType
<1>2. TypeOK /\ [Next]_vars => TypeOK'
  BY NextType
<1>3. QED
  BY <1>1, <1>2, PTL DEF Spec

-----------------------------------------------------------------------------
(* Saves exclude one another, and none overwrites a commit it has not read *)

LEMMA InitLock == Init => SaveUnderLock
BY NobodyAssumption DEF Init, SaveUnderLock, Critical, Absent

\* A step that only moves a session outside its save.
LEMMA OutsideSave ==
  ASSUME TypeOK, SaveUnderLock, NEW s \in Sessions, NEW p, p \notin Critical,
         pc[s] \notin Critical, pc' = [pc EXCEPT ![s] = p],
         UNCHANGED <<disk, backup, lock, draft, clock>>
  PROVE  SaveUnderLock'
BY DEF TypeOK, SaveUnderLock, Critical

\* A step after which the session is outside its save and the lock is free if
\* it was the session's.
LEMMA LeavingSave ==
  ASSUME TypeOK, SaveUnderLock, NEW s \in Sessions, NEW p, p \notin Critical,
         pc' = [pc EXCEPT ![s] = p], lock' = IF lock = s THEN Nobody ELSE lock,
         draft' = IF lock = s THEN Absent ELSE draft,
         UNCHANGED <<disk, backup, clock>>
  PROVE  SaveUnderLock'
<1>1. \A t \in Sessions : lock' = t <=> pc'[t] \in Critical
  BY NobodyAssumption DEF TypeOK, SaveUnderLock
<1>2. \A t \in Sessions :
        pc'[t] = "built" => draft'.parent = disk'.tag /\ draft'.tag = clock' + 1
  <2> SUFFICES ASSUME NEW t \in Sessions, pc'[t] = "built"
               PROVE  draft'.parent = disk'.tag /\ draft'.tag = clock' + 1
    OBVIOUS
  <2>1. t # s /\ pc[t] = "built"
    BY DEF TypeOK, Critical
  <2>2. lock = t
    BY <2>1 DEF SaveUnderLock, Critical
  <2>3. draft' = draft
    BY <2>1, <2>2
  <2>4. QED
    BY <2>1, <2>3 DEF SaveUnderLock
<1>3. QED
  BY <1>1, <1>2 DEF SaveUnderLock

\* Among the sessions, only the lock holder has built a file.
LEMMA OneBuilder ==
  ASSUME SaveUnderLock, NEW s \in Sessions, NEW t \in Sessions,
         pc[s] \in Critical, pc[t] \in Critical
  PROVE  s = t /\ lock = s
BY DEF SaveUnderLock

LEMMA SaveLock ==
  ASSUME TypeOK, SaveUnderLock, NEW s \in Sessions, Proceed(s) \/ WriteFails(s) \/ Crash(s)
  PROVE  SaveUnderLock'
<1>0. {"closed", "idle", "failed", "ready"} \cap Critical = {} /\ Critical = {"locked", "built", "renamed"}
  BY DEF Critical
<1>1. CASE TakeLock(s)
  <2>1. \A t \in Sessions : lock' = t <=> pc'[t] \in Critical
    BY <1>0, <1>1, NobodyAssumption DEF TypeOK, SaveUnderLock, TakeLock
  <2>2. \A t \in Sessions : pc'[t] # "built"
    BY <1>0, <1>1, NobodyAssumption DEF TypeOK, SaveUnderLock, TakeLock
  <2>3. QED
    BY <2>1, <2>2, <1>1 DEF SaveUnderLock, TakeLock
<1>2. CASE LockBusy(s) \/ Refuse(s) \/ WriteFails(s)
  <2>1. Fail(s) /\ UNCHANGED <<disk, backup, clock>>
    BY <1>2 DEF LockBusy, Refuse, WriteFails
  <2>2. QED
    BY <1>0, <2>1, LeavingSave DEF Fail
<1>3. CASE Build(s)
  <2>1. draft' = NewFile(s) /\ mem[s].tag = disk.tag
    BY <1>3 DEF Build, StillCurrent, Authentic
  <2>2. draft'.parent = disk.tag /\ draft'.tag = clock + 1
    BY <2>1 DEF NewFile
  <2>3. \A t \in Sessions : lock' = t <=> pc'[t] \in Critical
    BY <1>0, <1>3 DEF TypeOK, SaveUnderLock, Build
  <2>4. QED
    BY <2>2, <2>3, <1>3 DEF SaveUnderLock, Build
<1>4. CASE Publish(s)
  <2>1. disk'.tag = clock + 1 /\ clock' = clock + 1
    BY <1>4 DEF Publish, SaveUnderLock
  <2>2. \A t \in Sessions : lock' = t <=> pc'[t] \in Critical
    BY <1>0, <1>4 DEF TypeOK, SaveUnderLock, Publish
  <2>3. \A t \in Sessions : pc'[t] # "built"
    BY <1>0, <1>4, OneBuilder DEF TypeOK, Publish
  <2>4. backup'.tag <= clock'
    BY <1>4, <2>1 DEF TypeOK, GoodFile, File, SaveUnderLock, Publish
  <2>5. disk'.tag <= clock'
    BY <2>1 DEF TypeOK
  <2>6. QED
    BY <2>2, <2>3, <2>4, <2>5 DEF SaveUnderLock
<1>5. CASE Adopt(s)
  <2>1. lock = s
    BY <1>0, <1>5 DEF SaveUnderLock, Adopt
  <2>2. QED
    BY <1>0, <1>5, <2>1, LeavingSave DEF Adopt
<1>6. CASE Crash(s)
  BY <1>0, <1>6, LeavingSave DEF Crash
<1>7. QED
  BY <1>1, <1>2, <1>3, <1>4, <1>5, <1>6 DEF Proceed

LEMMA NextLock == TypeOK /\ SaveUnderLock /\ [Next]_vars => SaveUnderLock'
<1> SUFFICES ASSUME TypeOK, SaveUnderLock, [Next]_vars PROVE SaveUnderLock'
  OBVIOUS
<1>0. {"closed", "idle", "failed", "ready"} \cap Critical = {}
  BY DEF Critical
<1>1. CASE UNCHANGED vars
  BY <1>1 DEF vars, SaveUnderLock
<1>2. CASE Backup
  BY <1>2 DEF Backup, SaveUnderLock
<1>3. CASE Restore
  <2>1. \A t \in Sessions : pc[t] # "built"
    BY <1>3, NobodyAssumption DEF Restore, SaveUnderLock, Critical
  <2>2. QED
    BY <1>3, <2>1 DEF Restore, SaveUnderLock
<1>4. ASSUME NEW s \in Sessions, Create(s) \/ Operation(s)
      PROVE  SaveUnderLock'
  <2>1. /\ pc[s] \in {"closed", "idle"} /\ pc' = [pc EXCEPT ![s] = "ready"]
        /\ UNCHANGED <<disk, backup, lock, draft, clock>>
    BY <1>4 DEF Create, Operation, AddEntry, UpdateEntry, DeleteEntry, Import, Rotate,
                ChangePassword, Prepare
  <2>2. QED
    BY <1>0, <2>1, OutsideSave
<1>5. ASSUME NEW s \in Sessions,
             Open(s) \/ Close(s) \/ OpenItem(s) \/ StaleBeforeLock(s)
      PROVE  SaveUnderLock'
  <2>1. CASE Open(s)
    BY <1>0, <2>1, OutsideSave DEF Open
  <2>2. CASE Close(s)
    BY <1>0, <2>2, OutsideSave DEF Close
  <2>3. CASE OpenItem(s)
    BY <2>3 DEF OpenItem, SaveUnderLock
  <2>4. CASE StaleBeforeLock(s)
    BY <1>0, <2>4, OutsideSave DEF StaleBeforeLock
  <2>5. QED
    BY <1>5, <2>1, <2>2, <2>3, <2>4
<1>6. ASSUME NEW s \in Sessions, Proceed(s) \/ WriteFails(s) \/ Crash(s)
      PROVE  SaveUnderLock'
  BY <1>6, SaveLock
<1>7. QED
  BY <1>1, <1>2, <1>3, <1>4, <1>5, <1>6 DEF Next

\* Mutual exclusion of saves: only the lock holder is between its check of the
\* commit on disk and the end of its save, and what it built still replaces it.
THEOREM SavesExcludeEachOther == Spec => []SaveUnderLock
<1>1. Init => SaveUnderLock
  BY InitLock
<1>2. TypeOK /\ SaveUnderLock /\ [Next]_vars => SaveUnderLock'
  BY NextLock
<1>3. QED
  BY <1>1, <1>2, TypeCorrect, PTL DEF Spec

\* Only the rename of a save publishes a new commit.
LEMMA OnlyPublishCommits ==
  ASSUME TypeOK, SaveUnderLock, [Next]_vars, disk'.tag > clock
  PROVE  \E s \in Sessions : Publish(s)
<1>1. disk.tag <= clock /\ backup.tag <= clock /\ clock \in Nat
      /\ disk.tag \in Nat /\ backup.tag \in Nat
  BY DEF TypeOK, SaveUnderLock, GoodFile, File
<1>2. disk' # disk /\ ~Restore
  BY <1>1 DEF Restore
<1>3. PICK s \in Sessions : Create(s) \/ Open(s) \/ Close(s) \/ OpenItem(s)
          \/ StaleBeforeLock(s) \/ Operation(s) \/ Proceed(s) \/ WriteFails(s) \/ Crash(s)
  BY <1>2 DEF Next, vars, Backup
<1>4. ~(Create(s) \/ Open(s) \/ Close(s) \/ OpenItem(s) \/ StaleBeforeLock(s)
        \/ WriteFails(s) \/ Crash(s))
  BY <1>2 DEF Create, Prepare, Open, Close, OpenItem, StaleBeforeLock, WriteFails, Crash
<1>5. ~Operation(s)
  BY <1>2 DEF Operation, AddEntry, UpdateEntry, DeleteEntry, Import, Rotate, ChangePassword,
              Prepare
<1>6. Proceed(s) => Publish(s)
  BY <1>2 DEF Proceed, TakeLock, LockBusy, Build, Refuse, Adopt
<1>7. QED
  BY <1>3, <1>4, <1>5, <1>6

\* No lost update: a commit replaces the commit its session had read.
THEOREM NothingOverwrittenUnread == Spec => NoLostUpdate
<1>1. ASSUME TypeOK, SaveUnderLock, [Next]_vars
      PROVE  [disk'.tag > clock => disk'.parent = disk.tag]_vars
  <2> SUFFICES ASSUME disk'.tag > clock PROVE disk'.parent = disk.tag
    OBVIOUS
  <2>1. PICK s \in Sessions : Publish(s)
    BY <1>1, OnlyPublishCommits
  <2>2. QED
    BY <1>1, <2>1 DEF Publish, SaveUnderLock
<1>2. QED
  BY <1>1, TypeCorrect, SavesExcludeEachOther, PTL DEF Spec, NoLostUpdate

-----------------------------------------------------------------------------
(* What each change of a session does to its parts *)

LEMMA OpenedParts ==
  ASSUME NEW m, GoodMemory(m), NEW i \in DOMAIN m.entries
  PROVE  /\ Opened(m, i).tag = m.tag /\ Opened(m, i).dek = m.dek /\ Opened(m, i).kek = m.kek
         /\ Opened(m, i).entries = m.entries
         /\ \A j \in DOMAIN m.entries :
              Opened(m, i).cache[j] = IF j = i /\ m.cache[i] = NotOpen THEN disk.frames[i].val
                                      ELSE m.cache[j]
BY MemoryParts DEF Opened

LEMMA AllOpenedParts ==
  ASSUME NEW m, GoodMemory(m)
  PROVE  /\ AllOpened(m).tag = m.tag /\ AllOpened(m).dek = m.dek /\ AllOpened(m).kek = m.kek
         /\ AllOpened(m).entries = m.entries
         /\ \A j \in DOMAIN m.entries :
              AllOpened(m).cache[j] = IF m.entries[j].live THEN disk.frames[j].val
                                      ELSE m.cache[j]
BY MemoryParts DEF AllOpened

LEMMA WithRecordsParts ==
  ASSUME NEW m, GoodMemory(m), NEW updated \in SUBSET LiveSlots(m),
         NEW new \in [updated -> Secrets]
  PROVE  /\ WithRecords(m, new).tag = m.tag /\ WithRecords(m, new).dek = m.dek
         /\ WithRecords(m, new).kek = m.kek /\ WithRecords(m, new).entries = m.entries
         /\ \A j \in DOMAIN m.entries :
              WithRecords(m, new).cache[j] = IF j \in updated THEN new[j] ELSE m.cache[j]
BY MemoryParts DEF WithRecords

LEMMA Appended ==
  ASSUME NEW S, NEW a \in Seq(S), NEW b \in Seq(S)
  PROVE  /\ a \o b \in Seq(S)
         /\ Len(a) \in Nat /\ Len(a) <= Len(a \o b)
         /\ DOMAIN a = 1 .. Len(a)
         /\ DOMAIN (a \o b) = 1 .. Len(a) + Len(b)
         /\ \A j \in DOMAIN a : (a \o b)[j] = a[j]
         /\ \A j \in DOMAIN (a \o b) \ DOMAIN a : \E k \in DOMAIN b : (a \o b)[j] = b[k]
<1> DEFINE c == a \o b
<1>1. /\ Len(a) \in Nat /\ DOMAIN a = 1 .. Len(a)
      /\ Len(b) \in Nat /\ DOMAIN b = 1 .. Len(b)
  BY SeqShape
<1>2. /\ c \in Seq(S) /\ Len(c) = Len(a) + Len(b)
      /\ \A i \in 1 .. Len(a) + Len(b) : c[i] = IF i <= Len(a) THEN a[i] ELSE b[i - Len(a)]
  BY ConcatProperties, Zenon
<1> HIDE DEF c
<1>3. DOMAIN c = 1 .. Len(a) + Len(b)
  BY <1>2, SeqShape
<1>4. \A j \in DOMAIN a : c[j] = a[j]
  BY <1>1, <1>2
<1>5. \A j \in DOMAIN c \ DOMAIN a : \E k \in DOMAIN b : c[j] = b[k]
  <2> TAKE j \in DOMAIN c \ DOMAIN a
  <2>1. j - Len(a) \in DOMAIN b /\ c[j] = b[j - Len(a)]
    BY <1>1, <1>2, <1>3
  <2>2. QED
    BY <2>1
<1>6. QED
  BY <1>1, <1>2, <1>3, <1>4, <1>5 DEF c

LEMMA WithAddedParts ==
  ASSUME NEW m, GoodMemory(m), NEW items \in Seq(Titles \X Secrets)
  PROVE  LET a == WithAdded(m, items)
         IN  /\ a.tag = m.tag /\ a.dek = m.dek /\ a.kek = m.kek
             /\ Len(m.entries) <= Len(a.entries)
             /\ \A j \in DOMAIN m.entries : a.entries[j] = m.entries[j] /\ a.cache[j] = m.cache[j]
             /\ \A j \in DOMAIN a.entries \ DOMAIN m.entries :
                  a.entries[j].live /\ a.cache[j] \in Secrets
<1> DEFINE e == [j \in DOMAIN items |->
                   [id |-> m.nextId + (j - 1), live |-> TRUE, title |-> items[j][1]]]
           r == [j \in DOMAIN items |-> items[j][2]]
           E == m.entries \o e
           C == m.cache \o r
           a == WithAdded(m, items)
<1>1. /\ Len(items) \in Nat /\ DOMAIN items = 1 .. Len(items)
      /\ \A j \in DOMAIN items : items[j][1] \in Titles /\ items[j][2] \in Secrets
  <2>1. \A j \in DOMAIN items : items[j] \in Titles \X Secrets
    BY SeqShape
  <2>2. QED
    BY <2>1, SeqShape
<1>2. e \in Seq(Entry) /\ Len(e) = Len(items) /\ \A j \in 1 .. Len(items) : e[j].live
  <2>1. e \in [1 .. Len(items) -> Entry]
    BY <1>1, MemoryParts DEF Entry
  <2>2. QED
    BY <2>1, <1>1, SeqFrom
<1>3. r \in Seq(Secrets) /\ Len(r) = Len(items) /\ \A j \in 1 .. Len(items) : r[j] \in Secrets
  <2>1. r \in [1 .. Len(items) -> Secrets]
    BY <1>1
  <2>2. QED
    BY <2>1, <1>1, SeqFrom
<1> HIDE DEF e, r
<1>4. /\ m.entries \in Seq(Entry) /\ m.cache \in Seq(Secrets \cup {Blank, NotOpen})
      /\ r \in Seq(Secrets \cup {Blank, NotOpen})
      /\ Len(m.cache) = Len(m.entries) /\ Len(m.entries) \in Nat
      /\ DOMAIN m.entries = 1 .. Len(m.entries)
  BY <1>3, MemoryParts, SeqMonotonic DEF GoodMemory
<1>5. /\ Len(m.entries) <= Len(E)
      /\ DOMAIN E = 1 .. Len(m.entries) + Len(e)
      /\ \A j \in DOMAIN m.entries : E[j] = m.entries[j]
      /\ \A j \in DOMAIN E \ DOMAIN m.entries : \E k \in DOMAIN e : E[j] = e[k]
  <2>1. m.entries \in Seq(Entry) /\ e \in Seq(Entry)
    BY <1>2, <1>4
  <2>2. QED
    BY <2>1, Appended
<1>6. /\ DOMAIN C = 1 .. Len(m.cache) + Len(r)
      /\ \A j \in DOMAIN m.cache : C[j] = m.cache[j]
      /\ \A j \in DOMAIN C \ DOMAIN m.cache : \E k \in DOMAIN r : C[j] = r[k]
  <2> DEFINE S == Secrets \cup {Blank, NotOpen}
  <2>1. m.cache \in Seq(S) /\ r \in Seq(S)
    BY <1>4
  <2> HIDE DEF S
  <2>2. \A x \in Seq(S), y \in Seq(S) :
          /\ DOMAIN (x \o y) = 1 .. Len(x) + Len(y)
          /\ \A j \in DOMAIN x : (x \o y)[j] = x[j]
          /\ \A j \in DOMAIN (x \o y) \ DOMAIN x : \E k \in DOMAIN y : (x \o y)[j] = y[k]
    <3> TAKE x \in Seq(S), y \in Seq(S)
    <3>1. QED
      BY Appended
  <2>3. QED
    BY <2>1, <2>2, Zenon
<1>7. DOMAIN C = DOMAIN E /\ DOMAIN m.cache = DOMAIN m.entries
  BY <1>2, <1>3, <1>4, <1>5, <1>6, MemoryParts
<1>8. a = [m EXCEPT !.entries = E, !.cache = C, !.nextId = m.nextId + Len(items)]
  BY Zenon DEF WithAdded, e, r
<1> HIDE DEF E, C, a
<1>9. /\ a.tag = m.tag /\ a.dek = m.dek /\ a.kek = m.kek /\ a.entries = E /\ a.cache = C
  BY <1>8 DEF GoodMemory, Memory
<1>10. \A j \in DOMAIN e : e[j].live
  BY <1>1, <1>2, SeqShape
<1>11. \A j \in DOMAIN r : r[j] \in Secrets
  BY <1>3, SeqShape
<1>12. \A j \in DOMAIN E \ DOMAIN m.entries : E[j].live /\ C[j] \in Secrets
  BY <1>5, <1>6, <1>7, <1>10, <1>11
<1>13. QED
  BY <1>5, <1>6, <1>7, <1>9, <1>12 DEF a

-----------------------------------------------------------------------------
(* Sessions that extend the commit they know *)

LEMMA IndexWithin ==
  ASSUME NEW m, GoodMemory(m), NEW f, GoodFile(f), Extends(m, f)
  PROVE  /\ DOMAIN f.index \subseteq DOMAIN m.entries
         /\ DOMAIN f.frames = DOMAIN f.index
<1>1. /\ m.entries \in Seq(Entry) /\ f.index \in Seq(Entry) /\ f.frames \in Seq(Frame)
      /\ Len(f.frames) = Len(f.index)
  BY MemoryParts DEF GoodFile, File
<1>2. /\ DOMAIN m.entries = 1 .. Len(m.entries) /\ DOMAIN f.index = 1 .. Len(f.index)
      /\ DOMAIN f.frames = 1 .. Len(f.frames)
      /\ Len(m.entries) \in Nat /\ Len(f.index) \in Nat
  BY <1>1, SeqShape
<1>3. QED
  BY <1>1, <1>2 DEF Extends

\* A session that grows another one, or deletes items of it, extends what that one does.
LEMMA ExtendsFurther ==
  ASSUME NEW m, GoodMemory(m), NEW n, GoodMemory(n), NEW f, GoodFile(f), Extends(m, f),
         Len(m.entries) <= Len(n.entries),
         \A j \in DOMAIN m.entries : /\ n.entries[j].id = m.entries[j].id
                                     /\ n.entries[j].live => m.entries[j].live
  PROVE  Extends(n, f)
<1>1. /\ Len(m.entries) \in Nat /\ Len(n.entries) \in Nat
  BY MemoryParts
<1>2. Len(f.index) \in Nat
  BY SeqShape DEF GoodFile, File
<1>3. QED
  BY <1>1, <1>2, IndexWithin DEF Extends

\* An operation may start: what it makes of the session fits, and so does the
\* session a failure returns to.
LEMMA PrepareFits ==
  ASSUME TypeOK, SaveUnderLock, SessionsFit, NEW s \in Sessions, NEW from,
         NEW kind, NEW after, NEW onFail,
         pc[s] \notin Critical, Prepare(s, from, kind, after, onFail),
         SoundCache(after), after.tag <= clock, KeysFit(kind, after, onFail),
         \A f \in {disk, backup} : SameCommit(after, f) => Extends(after, f)
  PROVE  SessionsFit'
<1>1. /\ pc' = [pc EXCEPT ![s] = "ready"] /\ mem' = [mem EXCEPT ![s] = after]
      /\ pending' = [pending EXCEPT ![s] = [kind |-> kind, onFail |-> onFail]]
      /\ UNCHANGED <<disk, backup, draft, clock>>
  BY DEF Prepare
<1>2. FilesReadable' /\ (backup'.tag = disk'.tag => backup' = disk')
  BY <1>1 DEF SessionsFit, FilesReadable, ReadableFile
<1>3. ASSUME NEW t \in Sessions, t # s PROVE SessionFits(t)'
  <2>1. pc'[t] = pc[t] /\ mem'[t] = mem[t] /\ pending'[t] = pending[t]
    BY <1>1, <1>3 DEF TypeOK
  <2>2. SessionFits(t)
    BY DEF SessionsFit
  <2>3. QED
    BY <1>1, <2>1, <2>2 DEF SessionFits, AtRest, InOperation, KeysFit, Drafted, Kind, SameCommit
<1>4. SessionFits(s)'
  <2>1. pc'[s] = "ready" /\ mem'[s] = after /\ pending'[s] = [kind |-> kind, onFail |-> onFail]
    BY <1>1 DEF TypeOK
  <2>2. InOperation(s)'
    BY <1>1, <2>1 DEF InOperation, KeysFit, Kind, AtRest, SameCommit
  <2>3. QED
    BY <2>1, <2>2 DEF SessionFits
<1>5. QED
  BY <1>2, <1>3, <1>4 DEF SessionsFit

\* A session changed in a way that keeps its commit and extends its index.
Grows(m, n) ==
  /\ n.tag = m.tag
  /\ Len(m.entries) <= Len(n.entries)
  /\ \A j \in DOMAIN m.entries : /\ n.entries[j].id = m.entries[j].id
                                 /\ n.entries[j].live => m.entries[j].live

LEMMA GrownFits ==
  ASSUME TypeOK, NEW m, GoodMemory(m), AtRest(m), NEW n, GoodMemory(n), Grows(m, n)
  PROVE  /\ \A f \in {disk, backup} : SameCommit(n, f) => Extends(n, f)
         /\ n.tag # 0 /\ n.tag <= clock
<1>1. ASSUME NEW f \in {disk, backup}, SameCommit(n, f) PROVE Extends(n, f)
  <2>1. GoodFile(f) /\ Extends(m, f)
    BY <1>1 DEF TypeOK, AtRest, SameCommit, Grows
  <2>2. QED
    BY <2>1, ExtendsFurther DEF Grows
<1>2. QED
  BY <1>1 DEF AtRest, Grows

LEMMA GrownAtRest ==
  ASSUME TypeOK, NEW m, GoodMemory(m), AtRest(m), NEW n, GoodMemory(n), Grows(m, n),
         n.dek = m.dek, n.kek = m.kek, SoundCache(n)
  PROVE  AtRest(n)
BY GrownFits DEF AtRest, SameCommit, HasKeysOf, Grows

\* The record of a live item of the commit on disk is in its frame.
LEMMA RecordOnDisk ==
  ASSUME TypeOK, SessionsFit, NEW m, GoodMemory(m), AtRest(m), Authentic(m, m.dek),
         NEW i \in LiveSlots(m), i \in DOMAIN disk.frames
  PROVE  disk.frames[i].val \in Secrets
<1>1. disk.tag # 0 /\ SameCommit(m, disk) /\ GoodFile(disk)
  BY DEF TypeOK, Authentic, AtRest, SameCommit
<1>2. Extends(m, disk) /\ ReadableFile(disk)
  BY <1>1 DEF AtRest, SessionsFit, FilesReadable
<1>3. i \in DOMAIN disk.index
  BY <1>1, <1>2, IndexWithin
<1>4. disk.index[i].live
  BY <1>2, <1>3 DEF Extends, LiveSlots
<1>5. QED
  BY <1>2, <1>3, <1>4 DEF ReadableFile

\* Opening an item leaves the session at rest.
LEMMA OpenedAtRest ==
  ASSUME TypeOK, SessionsFit, NEW m, GoodMemory(m), AtRest(m), Authentic(m, m.dek),
         NEW i \in LiveSlots(m), CanOpen(m, i)
  PROVE  GoodMemory(Opened(m, i)) /\ AtRest(Opened(m, i)) /\ Grows(m, Opened(m, i))
<1> DEFINE n == Opened(m, i)
<1>1. GoodMemory(n)
  BY OpenedGood DEF TypeOK
<1>2. i \in DOMAIN m.entries
  BY DEF LiveSlots
<1>3. /\ n.tag = m.tag /\ n.dek = m.dek /\ n.kek = m.kek /\ n.entries = m.entries
      /\ \A j \in DOMAIN m.entries :
           n.cache[j] = IF j = i /\ m.cache[i] = NotOpen THEN disk.frames[i].val ELSE m.cache[j]
  BY <1>2, OpenedParts
<1>4. m.cache[i] = NotOpen => disk.frames[i].val \in Secrets
  BY RecordOnDisk DEF CanOpen
<1> HIDE DEF n
<1>5. SoundCache(n)
  BY <1>3, <1>4, NoRecordAssumption DEF SoundCache, AtRest, LiveSlots
<1>6. Len(m.entries) \in Nat
  BY MemoryParts
<1>7. Grows(m, n)
  BY <1>3, <1>6 DEF Grows
<1>8. QED
  BY <1>1, <1>3, <1>5, <1>7, GrownAtRest DEF n

\* So does reading every live record for a rotation; all of them are then cached.
LEMMA AllOpenedAtRest ==
  ASSUME TypeOK, SessionsFit, NEW m, GoodMemory(m), AtRest(m), Authentic(m, m.dek),
         Len(disk.frames) = Len(m.entries)
  PROVE  /\ GoodMemory(AllOpened(m)) /\ AtRest(AllOpened(m)) /\ Grows(m, AllOpened(m))
         /\ \A i \in LiveSlots(AllOpened(m)) : AllOpened(m).cache[i] # NotOpen
<1> DEFINE n == AllOpened(m)
<1>1. GoodMemory(n)
  BY AllOpenedGood DEF TypeOK
<1>2. /\ n.tag = m.tag /\ n.dek = m.dek /\ n.kek = m.kek /\ n.entries = m.entries
      /\ \A j \in DOMAIN m.entries :
           n.cache[j] = IF m.entries[j].live THEN disk.frames[j].val ELSE m.cache[j]
  BY AllOpenedParts
<1>3. DOMAIN disk.frames = DOMAIN m.entries
  <2>1. disk.frames \in Seq(Frame) /\ m.entries \in Seq(Entry)
    BY MemoryParts DEF TypeOK, GoodFile, File
  <2>2. QED
    BY <2>1, SeqShape
<1>4. \A j \in LiveSlots(m) : disk.frames[j].val \in Secrets
  BY <1>3, RecordOnDisk DEF LiveSlots
<1> HIDE DEF n
<1>5. SoundCache(n) /\ \A j \in LiveSlots(n) : n.cache[j] # NotOpen
  BY <1>2, <1>4, NoRecordAssumption DEF SoundCache, AtRest, LiveSlots
<1>6. Len(m.entries) \in Nat
  BY MemoryParts
<1>7. Grows(m, n)
  BY <1>2, <1>6 DEF Grows
<1>8. QED
  BY <1>1, <1>2, <1>5, <1>7, GrownAtRest DEF n

LEMMA WithAddedAtRest ==
  ASSUME TypeOK, NEW m, GoodMemory(m), AtRest(m), NEW items \in Seq(Titles \X Secrets)
  PROVE  GoodMemory(WithAdded(m, items)) /\ AtRest(WithAdded(m, items))
<1> DEFINE n == WithAdded(m, items)
<1>1. GoodMemory(n)
  BY WithAddedGood
<1>2. /\ n.tag = m.tag /\ n.dek = m.dek /\ n.kek = m.kek
      /\ Len(m.entries) <= Len(n.entries)
      /\ \A j \in DOMAIN m.entries : n.entries[j] = m.entries[j] /\ n.cache[j] = m.cache[j]
      /\ \A j \in DOMAIN n.entries \ DOMAIN m.entries :
           n.entries[j].live /\ n.cache[j] \in Secrets
  BY WithAddedParts
<1> HIDE DEF n
<1>3. SoundCache(n)
  BY <1>2, NoRecordAssumption DEF SoundCache, AtRest
<1>4. Grows(m, n)
  BY <1>2 DEF Grows
<1>5. QED
  BY <1>1, <1>2, <1>3, <1>4, GrownAtRest DEF n

LEMMA WithRecordsAtRest ==
  ASSUME TypeOK, NEW m, GoodMemory(m), AtRest(m), NEW updated \in SUBSET LiveSlots(m),
         NEW new \in [updated -> Secrets]
  PROVE  GoodMemory(WithRecords(m, new)) /\ AtRest(WithRecords(m, new))
<1> DEFINE n == WithRecords(m, new)
<1>1. GoodMemory(n)
  BY WithRecordsGood
<1>2. /\ n.tag = m.tag /\ n.dek = m.dek /\ n.kek = m.kek /\ n.entries = m.entries
      /\ \A j \in DOMAIN m.entries : n.cache[j] = IF j \in updated THEN new[j] ELSE m.cache[j]
  BY WithRecordsParts
<1> HIDE DEF n
<1>3. SoundCache(n)
  BY <1>2, NoRecordAssumption DEF SoundCache, AtRest, LiveSlots
<1>4. Len(m.entries) \in Nat
  BY MemoryParts
<1>5. Grows(m, n)
  BY <1>2, <1>4 DEF Grows
<1>6. QED
  BY <1>1, <1>2, <1>3, <1>5, GrownAtRest DEF n

\* An edit changes a title and caches the new record.
LEMMA EditFits ==
  ASSUME NEW m, GoodMemory(m), SoundCache(m), NEW i \in LiveSlots(m),
         NEW t \in Titles, NEW v \in Secrets
  PROVE  LET n == Edited(m, i, t, v)
         IN  /\ GoodMemory(n) /\ Grows(m, n) /\ SoundCache(n)
             /\ n.dek = m.dek /\ n.kek = m.kek
<1> DEFINE n == Edited(m, i, t, v)
<1>1. i \in DOMAIN m.entries /\ m.entries[i] \in Entry /\ m.entries[i].live
  BY MemoryParts, SeqShape DEF LiveSlots
<1>2. GoodMemory(n)
  BY <1>1, EntryEdited
<1>3. /\ n.tag = m.tag /\ n.dek = m.dek /\ n.kek = m.kek
      /\ n.entries = [m.entries EXCEPT ![i] = [m.entries[i] EXCEPT !.title = t]]
      /\ n.cache = [m.cache EXCEPT ![i] = v]
  BY DEF GoodMemory, Memory, Edited
<1> HIDE DEF n
<1>4. /\ DOMAIN n.entries = DOMAIN m.entries /\ DOMAIN m.cache = DOMAIN m.entries
      /\ \A j \in DOMAIN m.entries : /\ n.entries[j].id = m.entries[j].id
                                     /\ n.entries[j].live = m.entries[j].live
      /\ \A j \in DOMAIN m.entries : n.cache[j] = IF j = i THEN v ELSE m.cache[j]
  BY <1>1, <1>3, MemoryParts DEF Entry
<1>5. SoundCache(n)
  BY <1>1, <1>4, NoRecordAssumption DEF SoundCache
<1>6. Len(n.entries) = Len(m.entries) /\ Len(m.entries) \in Nat
  BY <1>2, <1>4, MemoryParts
<1>7. QED
  BY <1>2, <1>3, <1>4, <1>5, <1>6 DEF Grows, n

\* A deletion retires a live entry and drops its record.
LEMMA DeletionFits ==
  ASSUME NEW m, GoodMemory(m), SoundCache(m), NEW i \in LiveSlots(m)
  PROVE  LET n == Tombstoned(m, i)
         IN  /\ GoodMemory(n) /\ Grows(m, n) /\ SoundCache(n)
             /\ n.dek = m.dek /\ n.kek = m.kek
<1> DEFINE n == Tombstoned(m, i)
<1>1. i \in DOMAIN m.entries /\ m.entries[i] \in Entry /\ m.entries[i].live
  BY MemoryParts, SeqShape DEF LiveSlots
<1>2. GoodMemory(n)
  BY <1>1, EntryRetired
<1>3. /\ n.tag = m.tag /\ n.dek = m.dek /\ n.kek = m.kek
      /\ n.entries = [m.entries EXCEPT ![i] = [m.entries[i] EXCEPT !.live = FALSE]]
      /\ n.cache = [m.cache EXCEPT ![i] = NotOpen]
  BY DEF GoodMemory, Memory, Tombstoned
<1> HIDE DEF n
<1>4. /\ DOMAIN n.entries = DOMAIN m.entries /\ DOMAIN m.cache = DOMAIN m.entries
      /\ \A j \in DOMAIN m.entries : n.entries[j].id = m.entries[j].id
      /\ \A j \in DOMAIN m.entries : j # i => n.entries[j].live = m.entries[j].live
      /\ ~n.entries[i].live
      /\ \A j \in DOMAIN m.entries : n.cache[j] = IF j = i THEN NotOpen ELSE m.cache[j]
  BY <1>1, <1>3, MemoryParts DEF Entry
<1>5. SoundCache(n)
  BY <1>1, <1>4, NoRecordAssumption DEF SoundCache
<1>6. Len(n.entries) = Len(m.entries) /\ Len(m.entries) \in Nat
  BY <1>2, <1>4, MemoryParts
<1>7. QED
  BY <1>1, <1>2, <1>3, <1>4, <1>5, <1>6 DEF Grows, n

-----------------------------------------------------------------------------
(* The file a save builds is readable *)

LEMMA IdsDiffer ==
  ASSUME NEW m, GoodMemory(m), NEW i \in DOMAIN m.entries, NEW j \in DOMAIN m.entries,
         m.entries[i].id = m.entries[j].id
  PROVE  i = j
<1>1. \A k \in DOMAIN m.entries : k \in Nat /\ m.entries[k] \in Entry
  BY MemoryParts, SeqShape
<1>2. \A k \in DOMAIN m.entries : k \in Nat /\ m.entries[k].id \in Nat
  BY <1>1 DEF Entry
<1>3. Increasing(m.entries)
  BY DEF GoodMemory
<1>4. QED
  BY <1>2, <1>3 DEF Increasing

LEMMA NewFileReadable ==
  ASSUME TypeOK, SessionsFit, NEW s \in Sessions, Build(s)
  PROVE  ReadableFile(NewFile(s))
<1> DEFINE m == mem[s]
           before == pending[s].onFail
           f == NewFile(s)
<1>1. GoodMemory(m) /\ GoodFile(disk) /\ Copyable(s) /\ StillCurrent(s)
  BY DEF TypeOK, Build
<1>2. SoundCache(m) /\ KeysFit(Kind(s), m, before)
      /\ \A g \in {disk, backup} : SameCommit(m, g) => Extends(m, g)
  BY DEF SessionsFit, SessionFits, InOperation, Build, Busy, Critical
<1>3. /\ f.index = m.entries /\ f.dek = m.dek /\ f.kdf = HeaderKdf(s) /\ f.wrap = m.kek
      /\ \A i \in DOMAIN m.entries : f.frames[i] = NewFrame(s, i)
  BY DEF NewFile
<1> HIDE DEF f
<1>4. CASE Kind(s) = "create"
  <2>1. m.entries = <<>> /\ m.kek.pw \in Passwords /\ HeaderKdf(s) = m.kek
    BY <1>2, <1>4 DEF KeysFit, HeaderKdf
  <2>2. QED
    BY <1>3, <2>1, EmptySeq DEF ReadableFile, f
<1>5. CASE Kind(s) # "create"
  <2>1. AtRest(before) /\ m.tag = before.tag /\ m.tag # 0
    BY <1>2, <1>5 DEF KeysFit, AtRest
  <2>2. disk.tag # 0 /\ m.tag = disk.tag
    BY <1>1, <2>1 DEF StillCurrent, Authentic
  <2>3. ReadableFile(disk) /\ Extends(m, disk) /\ HasKeysOf(before, disk)
    BY <1>2, <2>1, <2>2 DEF SessionsFit, FilesReadable, SameCommit, AtRest
  <2>4. f.kdf = f.wrap /\ f.kdf.pw \in Passwords
    BY <1>2, <1>3, <1>5, <2>3 DEF KeysFit, HeaderKdf, HasKeysOf, ReadableFile
  <2>5. ASSUME NEW i \in DOMAIN m.entries
        PROVE  /\ f.frames[i].id = m.entries[i].id
               /\ f.frames[i].dek = m.dek
               /\ IF m.entries[i].live THEN f.frames[i].val \in Secrets
                                       ELSE f.frames[i].val = Blank
    <3>1. m.cache[i] \in Secrets \cup {Blank, NotOpen}
      BY <1>1, MemoryParts, SeqShape
    <3>2. CASE Resealed(m, i)
      <4> DEFINE val == IF m.cache[i] # NotOpen THEN m.cache[i] ELSE Blank
      <4>1. f.frames[i] = Sealed(s, i, val)
        BY <1>3, <3>2 DEF NewFrame, Resealed
      <4>2. f.frames[i].id = m.entries[i].id /\ f.frames[i].dek = m.dek /\ f.frames[i].val = val
        BY <4>1 DEF Sealed
      <4>3. IF m.entries[i].live THEN m.cache[i] \in Secrets ELSE m.cache[i] = NotOpen
        BY <1>2, <3>1, <3>2 DEF Resealed, SoundCache
      <4>4. QED
        BY <4>2, <4>3, NoRecordAssumption
    <3>3. CASE ~Resealed(m, i)
      <4> DEFINE id == m.entries[i].id
                 j == OldSlot(id)
      <4>1. OnDisk(id) /\ m.entries[i].live /\ m.cache[i] = NotOpen
        BY <1>1, <3>3 DEF Copyable, Resealed
      <4>2. j \in DOMAIN disk.index /\ disk.index[j].id = id
        BY <4>1 DEF OnDisk, OldSlot
      <4>3. j \in DOMAIN m.entries /\ m.entries[j].id = id
        BY <1>1, <2>3, <4>2, IndexWithin DEF Extends
      <4>4. j = i
        BY <1>1, <4>3, IdsDiffer
      <4>5. f.frames[i] = disk.frames[i]
        BY <1>3, <3>3, <4>4 DEF NewFrame, Resealed
      <4>6. disk.index[i].live /\ i \in DOMAIN disk.index
        BY <2>3, <4>1, <4>2, <4>4 DEF Extends
      <4>7. Kind(s) # "rotate"
        BY <1>2, <4>1 DEF KeysFit, LiveSlots
      <4>8. m.dek = disk.dek
        BY <1>2, <1>5, <2>3, <4>7 DEF KeysFit, HasKeysOf
      <4>9. QED
        BY <2>3, <4>1, <4>2, <4>4, <4>5, <4>6, <4>8 DEF ReadableFile
    <3>4. QED
      BY <3>2, <3>3
  <2>6. QED
    BY <1>3, <2>4, <2>5 DEF ReadableFile, f
<1>6. QED
  BY <1>4, <1>5

-----------------------------------------------------------------------------
(* Every step keeps SessionsFit *)

LEMMA InitFits == Init => SessionsFit
BY EmptySeq DEF Init, SessionsFit, FilesReadable, SessionFits, Absent, Busy, Critical

LEMMA OperationFits ==
  ASSUME TypeOK, SaveUnderLock, SessionsFit, NEW s \in Sessions, Create(s) \/ Operation(s)
  PROVE  SessionsFit'
<1> DEFINE m == mem[s]
<1>1. GoodMemory(m) /\ GoodFile(disk) /\ clock \in Nat
  BY DEF TypeOK
<1>2. pc[s] = "idle" => AtRest(m)
  BY DEF SessionsFit, SessionFits
<1>3. {"idle", "closed"} \cap Critical = {}
  BY DEF Critical
<1>4. CASE Create(s)
  <2> DEFINE after(pw) == [NoSession EXCEPT !.dek = Draw(s), !.kek = [pw |-> pw, salt |-> Draw(s)]]
  <2>1. PICK pw \in Passwords : Prepare(s, "closed", "create", after(pw), NoSession)
    BY <1>4 DEF Create
  <2>2. /\ after(pw).tag = 0 /\ after(pw).entries = <<>> /\ after(pw).kek.pw = pw
    BY DEF NoSession
  <2> HIDE DEF after
  <2>3. /\ SoundCache(after(pw)) /\ after(pw).tag <= clock
        /\ KeysFit("create", after(pw), NoSession)
        /\ \A f \in {disk, backup} : SameCommit(after(pw), f) => Extends(after(pw), f)
    BY <1>1, <2>2, EmptySeq DEF SoundCache, KeysFit, SameCommit
  <2>4. QED
    BY <1>3, <2>1, <2>3, PrepareFits DEF Prepare
<1>5. CASE AddEntry(s)
  <2>1. PICK t \in Titles, v \in Secrets :
          Prepare(s, "idle", "add", WithAdded(m, <<<<t, v>>>>), WithAdded(m, <<<<t, v>>>>))
    BY <1>5 DEF AddEntry
  <2> DEFINE n == WithAdded(m, <<<<t, v>>>>)
  <2>2. <<<<t, v>>>> \in Seq(Titles \X Secrets)
    OBVIOUS
  <2>3. pc[s] = "idle" /\ AtRest(n)
    BY <1>1, <1>2, <2>1, <2>2, WithAddedAtRest DEF Prepare
  <2> HIDE DEF n
  <2>4. /\ SoundCache(n) /\ n.tag <= clock /\ KeysFit("add", n, n)
        /\ \A f \in {disk, backup} : SameCommit(n, f) => Extends(n, f)
    BY <2>3 DEF AtRest, KeysFit
  <2>5. QED
    BY <1>3, <2>1, <2>3, <2>4, PrepareFits DEF n
<1>6. CASE UpdateEntry(s)
  <2>1. PICK i \in LiveSlots(m), t \in Titles, v \in Secrets :
          /\ CanOpen(m, i)
          /\ Prepare(s, "idle", "update", Edited(Opened(m, i), i, t, v), Opened(m, i))
    BY <1>6 DEF UpdateEntry
  <2> DEFINE b == Opened(m, i)
             n == Edited(b, i, t, v)
  <2>2. pc[s] = "idle" /\ Authentic(m, m.dek)
    BY <1>6, <2>1 DEF UpdateEntry, Prepare
  <2>3. GoodMemory(b) /\ AtRest(b)
    BY <1>1, <1>2, <2>1, <2>2, OpenedAtRest
  <2>4. i \in LiveSlots(b)
    BY <1>1, OpenedParts DEF LiveSlots
  <2> HIDE DEF b
  <2>5. /\ GoodMemory(n) /\ Grows(b, n) /\ SoundCache(n) /\ n.dek = b.dek /\ n.kek = b.kek
    <3>1. SoundCache(b)
      BY <2>3 DEF AtRest
    <3>2. QED
      BY <2>3, <2>4, <3>1, EditFits
  <2> HIDE DEF n
  <2>6. /\ n.tag <= clock /\ KeysFit("update", n, b)
        /\ \A f \in {disk, backup} : SameCommit(n, f) => Extends(n, f)
    BY <2>3, <2>5, GrownFits DEF KeysFit, Grows
  <2>7. QED
    BY <1>3, <2>1, <2>2, <2>5, <2>6, PrepareFits DEF n, b
<1>7. CASE DeleteEntry(s)
  <2>1. PICK i \in LiveSlots(m) :
          Prepare(s, "idle", "delete", Tombstoned(m, i), m)
    BY <1>7 DEF DeleteEntry
  <2> DEFINE n == Tombstoned(m, i)
  <2>2. pc[s] = "idle" /\ AtRest(m)
    BY <1>2, <2>1 DEF Prepare
  <2>3. /\ GoodMemory(n) /\ Grows(m, n) /\ SoundCache(n) /\ n.dek = m.dek /\ n.kek = m.kek
    BY <1>1, <2>2, DeletionFits DEF AtRest
  <2> HIDE DEF n
  <2>4. /\ n.tag <= clock /\ KeysFit("delete", n, m)
        /\ \A f \in {disk, backup} : SameCommit(n, f) => Extends(n, f)
    BY <1>1, <2>2, <2>3, GrownFits DEF KeysFit, Grows
  <2>5. QED
    BY <1>3, <2>1, <2>2, <2>3, <2>4, PrepareFits DEF n
<1>8. CASE Import(s)
  <2> DEFINE After(new, items) == WithAdded(WithRecords(m, new), items)
  <2>1. PICK k \in 0 .. MaxBatch :
          \E items \in [1 .. k -> Titles \X Secrets] : \E updated \in SUBSET LiveSlots(m) :
          \E new \in [updated -> Secrets] :
            Prepare(s, "idle", "import", After(new, items), LeftBehind(After(new, items), updated))
    BY <1>8 DEF Import
  <2>2. PICK items \in [1 .. k -> Titles \X Secrets], updated \in SUBSET LiveSlots(m) :
          \E new \in [updated -> Secrets] :
            Prepare(s, "idle", "import", After(new, items), LeftBehind(After(new, items), updated))
    BY <2>1
  <2>3. PICK new \in [updated -> Secrets] :
          Prepare(s, "idle", "import", After(new, items), LeftBehind(After(new, items), updated))
    BY <2>2
  <2> DEFINE n == After(new, items)
             b == LeftBehind(n, updated)
  <2>4. items \in Seq(Titles \X Secrets)
    BY SeqFrom, BoundsAssumption
  <2>5. pc[s] = "idle" /\ AtRest(m)
    BY <1>2, <2>3 DEF Prepare
  <2>6. GoodMemory(WithRecords(m, new)) /\ AtRest(WithRecords(m, new))
    BY <1>1, <2>5, WithRecordsAtRest
  <2>7. GoodMemory(n) /\ AtRest(n)
    BY <2>4, <2>6, WithAddedAtRest
  <2> HIDE DEF n, After
  <2>8. /\ b.tag = n.tag /\ b.dek = n.dek /\ b.kek = n.kek /\ b.entries = n.entries
        /\ b.cache = n.cache
    <3>1. updated \in SUBSET Nat
      BY <1>1, MemoryParts DEF LiveSlots
    <3> QED
      BY <2>7, <3>1, LeftBehindParts
  <2> HIDE DEF b
  <2>9. AtRest(b)
    BY <2>7, <2>8 DEF AtRest, SoundCache, SameCommit, Extends, HasKeysOf
  <2>10. /\ SoundCache(n) /\ n.tag <= clock /\ KeysFit("import", n, b)
         /\ \A f \in {disk, backup} : SameCommit(n, f) => Extends(n, f)
    BY <2>7, <2>8, <2>9 DEF AtRest, KeysFit
  <2>11. QED
    BY <1>3, <2>3, <2>5, <2>10, PrepareFits DEF n, b
<1>9. CASE Rotate(s)
  <2> DEFINE b == AllOpened(m)
             n(pw) == [b EXCEPT !.dek = Draw(s), !.kek = [pw |-> pw, salt |-> Draw(s)]]
  <2>1. PICK pw \in Passwords : Prepare(s, "idle", "rotate", n(pw), b)
    BY <1>9 DEF Rotate
  <2>2. pc[s] = "idle" /\ Authentic(m, m.dek) /\ Len(disk.frames) = Len(m.entries)
    BY <1>9, <2>1 DEF Rotate, Prepare
  <2>3. /\ GoodMemory(b) /\ AtRest(b) /\ \A i \in LiveSlots(b) : b.cache[i] # NotOpen
    BY <1>1, <1>2, <2>2, AllOpenedAtRest
  <2> HIDE DEF b
  <2>4. /\ n(pw).tag = b.tag /\ n(pw).entries = b.entries /\ n(pw).cache = b.cache
        /\ n(pw).kek.pw = pw
    BY <2>3 DEF GoodMemory, Memory
  <2> HIDE DEF n
  <2>5. /\ SoundCache(n(pw)) /\ n(pw).tag <= clock /\ KeysFit("rotate", n(pw), b)
        /\ \A f \in {disk, backup} : SameCommit(n(pw), f) => Extends(n(pw), f)
    BY <2>3, <2>4 DEF KeysFit, AtRest, SoundCache, LiveSlots, SameCommit, Extends
  <2>6. QED
    BY <1>3, <2>1, <2>2, <2>5, PrepareFits
<1>10. CASE ChangePassword(s)
  <2> DEFINE n(pw) == [m EXCEPT !.kek = [pw |-> pw, salt |-> Draw(s)]]
  <2>1. PICK pw \in Passwords : Prepare(s, "idle", "password", n(pw), m)
    BY <1>10 DEF ChangePassword
  <2>2. pc[s] = "idle" /\ AtRest(m)
    BY <1>2, <2>1 DEF Prepare
  <2>3. /\ n(pw).tag = m.tag /\ n(pw).entries = m.entries /\ n(pw).cache = m.cache
        /\ n(pw).dek = m.dek /\ n(pw).kek.pw = pw
    BY <1>1 DEF GoodMemory, Memory
  <2> HIDE DEF n
  <2>4. /\ SoundCache(n(pw)) /\ n(pw).tag <= clock /\ KeysFit("password", n(pw), m)
        /\ \A f \in {disk, backup} : SameCommit(n(pw), f) => Extends(n(pw), f)
    BY <2>2, <2>3 DEF KeysFit, AtRest, SoundCache, SameCommit, Extends
  <2>5. QED
    BY <1>3, <2>1, <2>2, <2>4, PrepareFits
<1>11. QED
  BY <1>4, <1>5, <1>6, <1>7, <1>8, <1>9, <1>10 DEF Operation

\* The sessions a step leaves alone: same files or fewer, nothing published.
LEMMA OtherFits ==
  ASSUME NEW t \in Sessions, SessionFits(t),
         pc'[t] = pc[t], mem'[t] = mem[t], pending'[t] = pending[t],
         disk' \in {disk, backup}, backup' \in {disk, backup}, clock' = clock,
         pc[t] \in {"built", "renamed"} => draft' = draft /\ disk' = disk
  PROVE  SessionFits(t)'
<1>1. \A m : AtRest(m) => AtRest(m)'
  BY DEF AtRest, SoundCache, SameCommit, Extends, HasKeysOf
<1>2. InOperation(t) => InOperation(t)'
  BY <1>1 DEF InOperation, KeysFit, Kind, SameCommit
<1>3. pc[t] \in {"built", "renamed"} /\ Drafted(t) => Drafted(t)'
  BY DEF Drafted, ReadableFile
<1>4. QED
  BY <1>1, <1>2, <1>3 DEF SessionFits

\* A session that leaves the file and its save at rest.
LEMMA RestFits ==
  ASSUME TypeOK, SaveUnderLock, SessionsFit, NEW s \in Sessions, NEW p, NEW m,
         pc' = [pc EXCEPT ![s] = p], mem' = [mem EXCEPT ![s] = m],
         \A t \in Sessions \ {s} : pending'[t] = pending[t],
         \A t \in Sessions \ {s} : pc[t] \in {"built", "renamed"} => draft' = draft,
         p \in {"closed", "idle", "failed"}, p # "closed" => AtRest(m),
         UNCHANGED <<disk, backup, clock>>
  PROVE  SessionsFit'
<1>1. FilesReadable' /\ (backup'.tag = disk'.tag => backup' = disk')
  BY DEF SessionsFit, FilesReadable, ReadableFile
<1>2. ASSUME NEW t \in Sessions, t # s PROVE SessionFits(t)'
  <2>1. SessionFits(t) /\ pc'[t] = pc[t] /\ mem'[t] = mem[t] /\ pending'[t] = pending[t]
    BY <1>2 DEF TypeOK, SessionsFit
  <2>2. pc[t] \in {"built", "renamed"} => draft' = draft /\ disk' = disk
    BY <1>2
  <2>3. QED
    BY <2>1, <2>2, OtherFits
<1>3. SessionFits(s)'
  <2>1. pc'[s] = p /\ mem'[s] = m
    BY DEF TypeOK
  <2>2. AtRest(m) => AtRest(m)'
    BY DEF AtRest, SameCommit
  <2>3. QED
    BY <2>1, <2>2 DEF SessionFits, Busy, Critical
<1>4. QED
  BY <1>1, <1>2, <1>3 DEF SessionsFit

LEMMA OtherDrafts ==
  ASSUME TypeOK, SaveUnderLock, NEW s \in Sessions, NEW t \in Sessions \ {s},
         pc[t] \in {"built", "renamed"}, draft' = IF lock = s THEN Absent ELSE draft
  PROVE  draft' = draft
BY DEF SaveUnderLock, Critical

LEMMA SessionStepFits ==
  ASSUME TypeOK, SaveUnderLock, SessionsFit, NEW s \in Sessions,
         Open(s) \/ Close(s) \/ OpenItem(s) \/ StaleBeforeLock(s)
  PROVE  SessionsFit'
<1>1. CASE Open(s)
  <2> DEFINE m == [tag |-> disk.tag, dek |-> disk.dek, kek |-> disk.kdf, entries |-> disk.index,
                   cache |-> [i \in DOMAIN disk.index |-> NotOpen],
                   nextId |-> NextIdOf(disk.index), unsaved |-> {}]
  <2>1. SoundCache(m)
    BY NoRecordAssumption DEF SoundCache
  <2>2. Extends(m, disk) /\ HasKeysOf(m, disk)
    <3>1. disk.kdf = disk.wrap
      BY <1>1 DEF Open
    <3>2. Len(disk.index) \in Nat
      BY SeqShape DEF TypeOK, GoodFile, File
    <3>3. QED
      BY <3>1, <3>2 DEF Extends, HasKeysOf
  <2>3. m.tag # 0 /\ m.tag <= clock
    BY <1>1 DEF Open, SaveUnderLock
  <2>4. \A f \in {disk, backup} : SameCommit(m, f) => f = disk
    BY DEF SessionsFit, SameCommit
  <2>5. AtRest(m)
    BY <2>1, <2>2, <2>3, <2>4 DEF AtRest
  <2> HIDE DEF m
  <2>6. pc' = [pc EXCEPT ![s] = "idle"] /\ mem' = [mem EXCEPT ![s] = m]
        /\ UNCHANGED <<disk, backup, pending, draft, clock>>
    BY <1>1 DEF Open, m
  <2>7. QED
    BY <2>5, <2>6, RestFits
<1>2. CASE Close(s)
  <2>1. /\ pc' = [pc EXCEPT ![s] = "closed"] /\ mem' = [mem EXCEPT ![s] = NoSession]
        /\ \A t \in Sessions \ {s} : pending'[t] = pending[t]
        /\ UNCHANGED <<disk, backup, draft, clock>>
    BY <1>2 DEF Close, TypeOK
  <2>2. QED
    BY <2>1, RestFits
<1>3. CASE OpenItem(s)
  <2>1. PICK i \in LiveSlots(mem[s]) :
          CanOpen(mem[s], i) /\ mem' = [mem EXCEPT ![s] = Opened(mem[s], i)]
    BY <1>3 DEF OpenItem
  <2>2. pc[s] = "idle" /\ Authentic(mem[s], mem[s].dek)
        /\ UNCHANGED <<disk, backup, pc, pending, draft, clock>>
    BY <1>3 DEF OpenItem
  <2>3. AtRest(Opened(mem[s], i))
    BY <2>1, <2>2, OpenedAtRest DEF TypeOK, SessionsFit, SessionFits
  <2>4. pc' = [pc EXCEPT ![s] = "idle"]
    BY <2>2 DEF TypeOK
  <2>5. QED
    BY <2>1, <2>2, <2>3, <2>4, RestFits
<1>4. CASE StaleBeforeLock(s)
  <2>1. /\ pc[s] = "idle" /\ pc' = [pc EXCEPT ![s] = "failed"]
        /\ UNCHANGED <<disk, backup, mem, pending, draft, clock>>
    BY <1>4 DEF StaleBeforeLock
  <2>2. mem' = mem
    BY <1>4 DEF StaleBeforeLock
  <2>3. SessionFits(s)'
    <3>1. AtRest(mem[s])
      BY <2>1 DEF SessionsFit, SessionFits
    <3>2. AtRest(mem[s])'
      BY <2>1, <2>2, <3>1 DEF AtRest, SoundCache, SameCommit, Extends, HasKeysOf
    <3>3. pc'[s] = "failed"
      BY <2>1 DEF TypeOK
    <3>4. QED
      BY <3>2, <3>3 DEF SessionFits, Busy, Critical
  <2>4. ASSUME NEW t \in Sessions, t # s PROVE SessionFits(t)'
    <3>1. SessionFits(t) /\ pc'[t] = pc[t] /\ mem'[t] = mem[t] /\ pending'[t] = pending[t]
      BY <2>1, <2>2, <2>4 DEF SessionsFit, TypeOK
    <3>2. QED
      BY <2>1, <3>1, OtherFits
  <2>5. FilesReadable' /\ (backup'.tag = disk'.tag => backup' = disk')
    BY <2>1 DEF SessionsFit, FilesReadable, ReadableFile
  <2>6. QED
    BY <2>3, <2>4, <2>5 DEF SessionsFit
<1>5. QED
  BY <1>1, <1>2, <1>3, <1>4

\* A failed operation returns to a session at rest.
LEMMA FailFits ==
  ASSUME TypeOK, SaveUnderLock, SessionsFit, NEW s \in Sessions, pc[s] \in Busy,
         Fail(s), UNCHANGED <<disk, backup, clock>>
  PROVE  SessionsFit'
<1> DEFINE p == IF Kind(s) = "create" THEN "closed" ELSE IF RetryAfterFailure THEN "idle" ELSE "failed"
           m == pending[s].onFail
<1>1. /\ pc' = [pc EXCEPT ![s] = p] /\ mem' = [mem EXCEPT ![s] = m]
      /\ \A t \in Sessions \ {s} : pending'[t] = pending[t]
      /\ draft' = IF lock = s THEN Absent ELSE draft
  BY DEF Fail, AfterFailure, TypeOK
<1>2. InOperation(s)
  BY DEF SessionsFit, SessionFits
<1>3. p # "closed" => AtRest(m)
  BY <1>2 DEF InOperation, KeysFit
<1>4. \A t \in Sessions \ {s} : pc[t] \in {"built", "renamed"} => draft' = draft
  BY <1>1, OtherDrafts
<1>5. p \in {"closed", "idle", "failed"}
  OBVIOUS
<1> HIDE DEF p, m
<1>6. QED
  BY <1>1, <1>3, <1>4, <1>5, RestFits

\* A step of s that changes only its control point and the draft.
LEMMA SaveStepFits ==
  ASSUME TypeOK, SaveUnderLock, SessionsFit, NEW s \in Sessions, TakeLock(s) \/ Build(s)
  PROVE  SessionsFit'
<1>1. /\ pc[s] \in {"ready", "locked"}
      /\ UNCHANGED <<disk, backup, mem, pending, clock>>
      /\ \A t \in Sessions \ {s} : pc'[t] = pc[t]
      /\ pc'[s] \in {"locked", "built"}
  BY DEF TakeLock, Build, TypeOK
<1>2. FilesReadable' /\ (backup'.tag = disk'.tag => backup' = disk')
  BY <1>1 DEF SessionsFit, FilesReadable, ReadableFile
<1>3. ASSUME NEW t \in Sessions, t # s PROVE SessionFits(t)'
  <2>1. pc[t] \in {"built", "renamed"} => draft' = draft
    BY <1>3, NobodyAssumption DEF TakeLock, Build, SaveUnderLock, Critical
  <2>2. QED
    BY <1>1, <1>3, <2>1, OtherFits DEF SessionsFit
<1>4. SessionFits(s)'
  <2>1. InOperation(s)
    BY <1>1 DEF SessionsFit, SessionFits, Busy, Critical
  <2>2. InOperation(s)'
    BY <1>1, <2>1 DEF InOperation, KeysFit, AtRest, Kind, SameCommit
  <2>3. pc'[s] = "built" => Drafted(s)'
    <3> SUFFICES ASSUME pc'[s] = "built" PROVE Drafted(s)'
      OBVIOUS
    <3>1. Build(s)
      BY DEF TakeLock, TypeOK
    <3>2. draft' = NewFile(s) /\ ReadableFile(NewFile(s))
      BY <3>1, NewFileReadable DEF Build
    <3>3. ReadableFile(draft)'
      BY <3>2 DEF ReadableFile
    <3>4. clock + 1 # 0
      BY DEF TypeOK
    <3>5. /\ draft'.tag # 0 /\ draft'.parent = mem[s].tag /\ draft'.index = mem[s].entries
          /\ draft'.dek = mem[s].dek /\ draft'.wrap = mem[s].kek
      BY <3>2, <3>4 DEF NewFile
    <3>6. QED
      BY <1>1, <3>3, <3>5 DEF Drafted
  <2>4. QED
    BY <1>1, <2>2, <2>3 DEF SessionFits
<1>5. QED
  BY <1>2, <1>3, <1>4 DEF SessionsFit

\* A session whose commit is older than the one just published is not concerned.
LEMMA OlderAtRest ==
  ASSUME clock \in Nat, NEW m, m.tag \in Nat, AtRest(m),
         disk'.tag = clock + 1, backup' = backup, clock' = clock + 1
  PROVE  AtRest(m)'
BY DEF AtRest, SameCommit

LEMMA PublishFits ==
  ASSUME TypeOK, SaveUnderLock, SessionsFit, NEW s \in Sessions, Publish(s)
  PROVE  SessionsFit'
<1>1. /\ pc[s] = "built" /\ disk' = draft /\ clock' = clock + 1 /\ draft.tag = clock + 1
      /\ UNCHANGED <<backup, mem, pending, draft>> /\ pc' = [pc EXCEPT ![s] = "renamed"]
  BY DEF Publish, SaveUnderLock
<1>2. clock \in Nat /\ backup.tag \in Nat /\ backup.tag <= clock
  BY DEF TypeOK, GoodFile, File, SaveUnderLock
<1>3. Drafted(s) /\ InOperation(s)
  BY <1>1 DEF SessionsFit, SessionFits, Busy, Critical
<1>4. FilesReadable' /\ (backup'.tag = disk'.tag => backup' = disk')
  <2>1. ReadableFile(disk)' /\ disk'.tag # 0
    BY <1>1, <1>3 DEF Drafted, ReadableFile
  <2>2. (backup.tag = 0 => backup'.index = <<>>) /\ (backup.tag # 0 => ReadableFile(backup)')
    BY <1>1 DEF SessionsFit, FilesReadable, ReadableFile
  <2>3. QED
    BY <1>1, <1>2, <2>1, <2>2 DEF FilesReadable
<1>5. \A m : m.tag \in Nat /\ AtRest(m) => AtRest(m)'
  BY <1>1, <1>2, OlderAtRest
<1>6. \A t \in Sessions : mem[t].tag \in Nat /\ pending[t].onFail.tag \in Nat
  BY DEF TypeOK, GoodMemory, Memory
<1>7. ASSUME NEW t \in Sessions, InOperation(t) PROVE InOperation(t)'
  <2>1. KeysFit(Kind(t), mem[t], pending[t].onFail)'
    BY <1>1, <1>5, <1>6, <1>7 DEF InOperation, KeysFit, Kind
  <2>2. \A f \in {disk', backup'} : SameCommit(mem[t], f) => f = backup
    BY <1>1, <1>2, <1>6, <1>7 DEF InOperation, SameCommit
  <2>3. QED
    BY <1>1, <1>2, <1>6, <1>7, <2>1, <2>2 DEF InOperation, SoundCache, Extends
<1>8. ASSUME NEW t \in Sessions, t # s PROVE SessionFits(t)'
  <2>1. pc'[t] = pc[t] /\ pc[t] \notin {"built", "renamed"}
    BY <1>1, <1>8, OneBuilder DEF TypeOK, Critical
  <2>2. SessionFits(t)
    BY DEF SessionsFit
  <2>3. QED
    BY <1>1, <1>5, <1>6, <1>7, <2>1, <2>2 DEF SessionFits
<1>9. SessionFits(s)'
  <2>1. pc'[s] = "renamed"
    BY <1>1 DEF TypeOK
  <2>2. Drafted(s)'
    BY <1>1, <1>3 DEF Drafted, ReadableFile
  <2>3. QED
    BY <1>1, <1>3, <1>7, <2>1, <2>2 DEF SessionFits
<1>10. QED
  BY <1>4, <1>8, <1>9 DEF SessionsFit

LEMMA AdoptFits ==
  ASSUME TypeOK, SaveUnderLock, SessionsFit, NEW s \in Sessions, Adopt(s)
  PROVE  SessionsFit'
<1> DEFINE m == Saved(mem[s], draft.tag)
<1>1. /\ pc[s] = "renamed" /\ pc' = [pc EXCEPT ![s] = "idle"] /\ mem' = [mem EXCEPT ![s] = m]
      /\ \A t \in Sessions \ {s} : pending'[t] = pending[t]
      /\ UNCHANGED <<disk, backup, clock>>
  BY DEF Adopt, TypeOK
<1>2. Drafted(s) /\ InOperation(s) /\ disk = draft
  BY <1>1 DEF SessionsFit, SessionFits, Busy, Critical
<1>3. /\ m.tag = disk.tag /\ m.dek = disk.dek /\ m.kek = disk.wrap /\ m.entries = disk.index
      /\ m.cache = mem[s].cache /\ m.entries = mem[s].entries
  BY <1>2 DEF Drafted, TypeOK, GoodMemory, Memory, Saved
<1>4. m.tag # 0 /\ m.tag <= clock
  BY <1>2, <1>3 DEF Drafted, SaveUnderLock
<1>5. Len(disk.index) \in Nat
  BY SeqShape DEF TypeOK, GoodFile, File
<1> HIDE DEF m
<1>6. SoundCache(m)
  BY <1>2, <1>3 DEF InOperation, SoundCache
<1>7. \A f \in {disk, backup} : SameCommit(m, f) => f = disk
  BY <1>3 DEF SessionsFit, SameCommit
<1>8. AtRest(m)
  <2>1. Extends(m, disk)
    BY <1>3, <1>5 DEF Extends
  <2>2. HasKeysOf(m, disk)
    BY <1>3 DEF HasKeysOf
  <2>3. QED
    BY <1>4, <1>6, <1>7, <2>1, <2>2 DEF AtRest
<1>9. \A t \in Sessions \ {s} : pc[t] \in {"built", "renamed"} => draft' = draft
  BY <1>1, OneBuilder DEF Critical
<1>10. QED
  BY <1>1, <1>8, <1>9, RestFits

LEMMA NextFits == TypeOK /\ SaveUnderLock /\ SessionsFit /\ [Next]_vars => SessionsFit'
<1> SUFFICES ASSUME TypeOK, SaveUnderLock, SessionsFit, [Next]_vars PROVE SessionsFit'
  OBVIOUS
<1>1. CASE UNCHANGED vars \/ Backup \/ Restore
  <2>1. /\ disk' \in {disk, backup} /\ backup' \in {disk, backup}
        /\ UNCHANGED <<pc, mem, pending, draft, clock>>
    BY <1>1 DEF vars, Backup, Restore
  <2>2. \A t \in Sessions : pc[t] \in {"built", "renamed"} => disk' = disk
    BY <1>1, NobodyAssumption DEF vars, Backup, Restore, SaveUnderLock, Critical
  <2>3. \A t \in Sessions : SessionFits(t)'
    BY <2>1, <2>2, OtherFits DEF SessionsFit
  <2>4. FilesReadable' /\ (backup'.tag = disk'.tag => backup' = disk')
    BY <2>1 DEF SessionsFit, FilesReadable, ReadableFile
  <2>5. QED
    BY <2>3, <2>4 DEF SessionsFit
<1>2. ASSUME NEW s \in Sessions, Create(s) \/ Operation(s)
      PROVE  SessionsFit'
  BY <1>2, OperationFits
<1>3. ASSUME NEW s \in Sessions,
             Open(s) \/ Close(s) \/ OpenItem(s) \/ StaleBeforeLock(s)
      PROVE  SessionsFit'
  BY <1>3, SessionStepFits
<1>4. ASSUME NEW s \in Sessions, Proceed(s) \/ WriteFails(s)
      PROVE  SessionsFit'
  <2>1. CASE LockBusy(s) \/ Refuse(s) \/ WriteFails(s)
    BY <2>1, FailFits DEF LockBusy, Refuse, WriteFails, Busy, Critical
  <2>2. CASE TakeLock(s) \/ Build(s)
    BY <2>2, SaveStepFits
  <2>3. QED
    BY <1>4, <2>1, <2>2, PublishFits, AdoptFits DEF Proceed
<1>5. ASSUME NEW s \in Sessions, Crash(s)
      PROVE  SessionsFit'
  <2>1. /\ pc' = [pc EXCEPT ![s] = "closed"] /\ mem' = [mem EXCEPT ![s] = NoSession]
        /\ \A t \in Sessions \ {s} : pending'[t] = pending[t]
        /\ UNCHANGED <<disk, backup, clock>>
    BY <1>5 DEF Crash, TypeOK
  <2>2. \A t \in Sessions \ {s} : pc[t] \in {"built", "renamed"} => draft' = draft
    BY <1>5, OtherDrafts DEF Crash
  <2>3. QED
    BY <2>1, <2>2, RestFits
<1>6. QED
  BY <1>1, <1>2, <1>3, <1>4, <1>5 DEF Next

\* The files on disk and in the backup are readable and every session fits the
\* commit it knows, at every point of every operation, whatever fails.
THEOREM SessionsAlwaysFit == Spec => []SessionsFit
<1>1. Init => SessionsFit
  BY InitFits
<1>2. TypeOK /\ SaveUnderLock /\ SessionsFit /\ [Next]_vars => SessionsFit'
  BY NextFits
<1>3. QED
  BY <1>1, <1>2, TypeCorrect, SavesExcludeEachOther, PTL DEF Spec

\* The file can always be opened with the password its header names, and every
\* live item decrypts.
THEOREM AlwaysReadable == Spec => []DiskReadable
<1>1. TypeOK /\ SessionsFit => DiskReadable
  <2> SUFFICES ASSUME TypeOK, SessionsFit, disk.tag # 0 PROVE DiskReadable
    BY DEF DiskReadable
  <2>1. ReadableFile(disk) /\ Len(disk.frames) = Len(disk.index)
    BY DEF SessionsFit, FilesReadable, TypeOK, GoodFile
  <2>2. QED
    BY <2>1 DEF ReadableFile, DiskReadable
<1>2. QED
  BY <1>1, TypeCorrect, SessionsAlwaysFit, PTL

\* A deleted item's secret is not in the file.
THEOREM DeletedAreGone == Spec => []DeletedSecretsGone
<1>1. SessionsFit => DeletedSecretsGone
  BY EmptySeq DEF SessionsFit, FilesReadable, ReadableFile, DeletedSecretsGone
<1>2. QED
  BY <1>1, SessionsAlwaysFit, PTL

\* A commit keeps the slots and ids of the file, revives no deleted item, and
\* numbers new items above all others.
THEOREM IndexGrowsOnly == Spec => IndexOnlyGrows
<1> DEFINE Kept == /\ Len(disk.index) <= Len(disk'.index)
                   /\ \A i \in DOMAIN disk'.index :
                        IF i \in DOMAIN disk.index
                        THEN /\ disk'.index[i].id = disk.index[i].id
                             /\ disk'.index[i].live => disk.index[i].live
                        ELSE \A j \in DOMAIN disk.index : disk'.index[i].id > disk.index[j].id
<1>1. ASSUME TypeOK, SaveUnderLock, SessionsFit, [Next]_vars, disk'.tag > clock
      PROVE  Kept
  <2>1. PICK s \in Sessions : Publish(s)
    BY <1>1, OnlyPublishCommits
  <2> DEFINE m == mem[s]
  <2>2. /\ disk' = draft /\ Drafted(s) /\ InOperation(s) /\ m.tag = disk.tag
    BY <1>1, <2>1 DEF Publish, SessionsFit, SessionFits, Busy, Critical, SaveUnderLock, Drafted
  <2>3. /\ GoodMemory(m) /\ GoodFile(disk) /\ disk'.index = m.entries
    BY <1>1, <2>2 DEF TypeOK, Drafted
  <2>4. /\ disk.index \in Seq(Entry) /\ m.entries \in Seq(Entry) /\ Increasing(m.entries)
    BY <2>3, MemoryParts DEF GoodFile, File, GoodMemory
  <2>5. /\ DOMAIN disk.index = 1 .. Len(disk.index) /\ Len(disk.index) \in Nat
        /\ DOMAIN m.entries = 1 .. Len(m.entries) /\ Len(m.entries) \in Nat
        /\ \A i \in DOMAIN m.entries : m.entries[i] \in Entry
    BY <2>4, SeqShape
  <2>6. CASE disk.tag = 0
    <3>1. disk.index = <<>> /\ Len(disk.index) = 0
      BY <1>1, <2>6, EmptySeq DEF SessionsFit, FilesReadable
    <3>2. QED
      BY <2>3, <2>5, <3>1
  <2>7. CASE disk.tag # 0
    <3>1. Extends(m, disk)
      BY <2>2, <2>7 DEF InOperation, SameCommit
    <3>2. ASSUME NEW i \in DOMAIN m.entries, i \notin DOMAIN disk.index,
                 NEW j \in DOMAIN disk.index
          PROVE  m.entries[i].id > disk.index[j].id
      <4>1. j \in DOMAIN m.entries /\ j < i /\ disk.index[j].id = m.entries[j].id
        BY <2>5, <3>1, <3>2 DEF Extends
      <4>2. m.entries[j].id < m.entries[i].id
        BY <2>4, <4>1 DEF Increasing
      <4>3. m.entries[i].id \in Nat /\ m.entries[j].id \in Nat
        BY <2>5, <4>1 DEF Entry
      <4>4. QED
        BY <4>1, <4>2, <4>3
    <3>3. QED
      BY <2>3, <2>5, <3>1, <3>2 DEF Extends
  <2>8. QED
    BY <2>6, <2>7
<1>2. TypeOK /\ SaveUnderLock /\ SessionsFit /\ [Next]_vars => [disk'.tag > clock => Kept]_vars
  BY <1>1
<1>3. QED
  BY <1>2, TypeCorrect, SavesExcludeEachOther, SessionsAlwaysFit, PTL DEF Spec, IndexOnlyGrows
=============================================================================
