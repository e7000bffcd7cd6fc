----------------------------- MODULE ItemStore -----------------------------
(***************************************************************************)
(* What a vault promises its users: a store of items whose every change is *)
(* one whole operation applied to the store as it is (never to an older    *)
(* one, never half of it, never two at once).  An id is used for one item  *)
(* for ever, and a deleted item does not come back unless the user puts    *)
(* the whole store back to a copy he took.                                 *)
(***************************************************************************)
EXTENDS Naturals, FiniteSets

CONSTANTS Contents,   \* what an item holds: metadata and record
          Kinds       \* the operations

VARIABLES items,      \* live items: a function from ids to contents
          retired,    \* ids of deleted items
          cause,      \* the operation that made the last change
          saved       \* the copy the user took, as a record of the three

vars == <<items, retired, cause, saved>>

None == [x \in {} |-> x]
Used == DOMAIN items \cup retired

Init ==
  /\ items = None /\ retired = {} /\ cause = "none"
  /\ saved = [items |-> None, retired |-> {}, cause |-> "none"]

\* The ids a batch of new items gets: above every id used so far.
Fresh(ids) == \A new \in ids, old \in Used : new > old

Readable == \A id \in DOMAIN items' : items'[id] \in Contents

Insert == \* one new item
  /\ cause' = "add"
  /\ Cardinality(DOMAIN items' \ DOMAIN items) = 1
  /\ Fresh(DOMAIN items' \ DOMAIN items)
  /\ \A id \in DOMAIN items : id \in DOMAIN items' /\ items'[id] = items[id]
  /\ Readable
  /\ UNCHANGED retired

Replace == \* new contents for one live item
  /\ cause' = "update"
  /\ \E id \in DOMAIN items, c \in Contents : items' = [items EXCEPT ![id] = c]
  /\ UNCHANGED retired

Delete == \* one live item retires
  /\ cause' = "delete"
  /\ \E id \in DOMAIN items :
       /\ items' = [other \in DOMAIN items \ {id} |-> items[other]]
       /\ retired' = retired \cup {id}

Merge == \* an import adds items and replaces others, and retires none
  /\ cause' = "import"
  /\ DOMAIN items \subseteq DOMAIN items'
  /\ Readable
  /\ Fresh(DOMAIN items' \ DOMAIN items)
  /\ UNCHANGED retired

Rekey == \* creation, rotation and a new master password leave the items alone
  /\ cause' \in {"create", "rotate", "password"}
  /\ UNCHANGED <<items, retired>>

Commit == (Insert \/ Replace \/ Delete \/ Merge \/ Rekey) /\ UNCHANGED saved

Save == \* the user copies the store
  /\ saved' = [items |-> items, retired |-> retired, cause |-> cause]
  /\ UNCHANGED <<items, retired, cause>>

PutBack == \* the user puts the copy back
  /\ items' = saved.items /\ retired' = saved.retired /\ cause' = saved.cause
  /\ UNCHANGED saved

Next == Commit \/ Save \/ PutBack

Spec == Init /\ [][Next]_vars
=============================================================================
