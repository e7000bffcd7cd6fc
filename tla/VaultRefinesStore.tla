------------------------- MODULE VaultRefinesStore -------------------------
(***************************************************************************)
(* The vault file, read back with its keys, is an ItemStore: the sessions, *)
(* the lock, the cache, the frame copying and the failures implement whole *)
(* operations on one current set of items.                                 *)
(***************************************************************************)
EXTENDS VaultSessions

\* What a reader gets for slot i: the record, or an error in its place.
ReadBack(f, i) ==
  [title |-> f.index[i].title,
   record |-> IF /\ i \in DOMAIN f.frames
                 /\ f.frames[i].id = f.index[i].id
                 /\ f.frames[i].dek = f.dek
              THEN f.frames[i].val ELSE NotOpen]

Slots(f, live) == {i \in DOMAIN f.index : f.index[i].live = live}
IdsAt(f, slots) == {f.index[i].id : i \in slots}

ItemsOf(f) ==
  [id \in IdsAt(f, Slots(f, TRUE)) |->
     ReadBack(f, CHOOSE i \in Slots(f, TRUE) : f.index[i].id = id)]
RetiredOf(f) == IdsAt(f, Slots(f, FALSE))

Store == INSTANCE ItemStore WITH
  Contents <- [title: Titles, record: Secrets],
  items <- ItemsOf(disk),
  retired <- RetiredOf(disk),
  cause <- disk.op,
  saved <- [items |-> ItemsOf(backup), retired |-> RetiredOf(backup), cause |-> backup.op]

\* Every step of the vault is an operation of the store or none: a commit is
\* one whole operation on the current items, errors and crashes change nothing
\* or have committed, rotation loses nothing, ids are never used again.
ImplementsItemStore == Store!Spec
=============================================================================
