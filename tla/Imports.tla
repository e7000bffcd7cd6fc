------------------------------- MODULE Imports -------------------------------
(***************************************************************************)
(* `latchkey import` (src/src/cli/import.rs): a plaintext export is read,  *)
(* the vault opened, every record of the export decoded, a plan of adds    *)
(* and updates shown, confirmed and applied in one commit, while another   *)
(* process works on the same vault.                                        *)
(*                                                                         *)
(* The three formats are decoded from documents whose fields are present,  *)
(* absent or of a wrong type.  As in Totp the result of decoding is the    *)
(* set of its values: {} is an error, and a comprehension over the results *)
(* of the fields is the code's chain of `?`.  The vault is whole commits   *)
(* (module VaultSessions).                                                 *)
(***************************************************************************)
EXTENDS Totp, FiniteSets, SequencesExt

CONSTANTS
  Texts,       \* strings; some of them hold a NUL or exceed a limit:
  WithNul,     \* ... an embedded NUL
  Long,        \* ... longer than the vault's format allows in any field
  Huge,        \* ... longer than MAX_CSV_FIELD_BYTES
  Empty,       \* the string of no characters
  Absent,      \* a key that is missing or null
  WrongType,   \* a value that is not a string
  None,        \* no password, notes or TOTP in a record
  Extra,       \* columns of a CSV file that no field of a record stands for
  ItemLimit,   \* MAX_IMPORT_ITEMS
  LastId,      \* u32::MAX, which no item has
  Now,         \* the time of the import
  Sources,     \* the exports that may be imported
  Vaults,      \* what the vault may be in the beginning
  MaxTag       \* bound: others commit while the vault is at an earlier commit

ASSUME TextsAssumption ==
  /\ Empty \in Texts /\ WithNul \cup Long \subseteq Texts /\ Huge \subseteq Long
  /\ {Absent, WrongType, None} \cap Texts = {}
ASSUME BoundsAssumption ==
  ItemLimit \in Nat /\ LastId \in Nat /\ MaxTag \in Nat /\ Now \in Nat

VARIABLES
  vault,    \* the file at the vault's path
  source,   \* the export
  flags,    \* --dry-run, --yes, and whether standard input is a terminal
  step,     \* where the command is; at last its exit code

  session,  \* the vault as open_vault read it
  plan,     \* the plan that was shown
  asked     \* TRUE once the user has answered yes

vars == <<vault, source, flags, step, session, plan, asked>>

-----------------------------------------------------------------------------
(* Decoding fields *)

RequiredStr(v) == {v} \cap Texts
OptionalStr(v) == IF v = Absent THEN {Empty} ELSE {v} \cap Texts
OptionalJsonStr(v) == IF v = Absent THEN {None} ELSE {v} \cap Texts

\* A NUL would cut the value short when it is copied.
OptionalSecret(v) == OptionalJsonStr(v) \ WithNul

NonemptySecret(v) == IF v = Empty THEN None ELSE v

\* An array is given by its length.
JsonArrayLen(n) == IF n = Absent THEN {0} ELSE {n} \cap Nat

\* uint_field
UintField(v, default) == IF v = Absent THEN {default} ELSE {n \in {v} : IsU32(n)}

\* parse_totp: an algorithm that is not a string is SHA1.
ParseTotp(t) ==
  {r \in {[secret |-> key.bytes, period |-> p, digits |-> d, algorithm |-> a] :
            key \in {t.secret} \ {Absent, WrongType},
            a \in IF t.algorithm \in {Absent, WrongType} THEN {"SHA1"}
                  ELSE {t.algorithm} \cap Algorithms,
            p \in UintField(t.period, 30), d \in UintField(t.digits, 6)} :
     /\ ValidParams(r.period, r.digits)
     /\ ValidateSecret(t.secret, r.algorithm) # {}}

\* parse_external_totp: an otpauth URI, or a bare secret with the usual parameters.
ParseExternalTotp(t) ==
  IF t.form = "uri" THEN ParseOtpauthUri(t.uri)
  ELSE {[secret |-> s, period |-> 30, digits |-> 6, algorithm |-> "SHA1"] :
        s \in ValidateSecret(t.key, "SHA1")}

ExternalTotp(v) ==
  IF v \in {Absent, Empty} THEN {None} ELSE IF v = WrongType THEN {} ELSE ParseExternalTotp(v)

NativeTotp(v) == IF v = Absent THEN {None} ELSE IF v = WrongType THEN {} ELSE ParseTotp(v)

\* new_record
NewRecord(password, url, notes, totp) ==
  [password |-> password, url |-> url, notes |-> notes, totp |-> totp, created |-> Now]

-----------------------------------------------------------------------------
(* Decoding one item of each format into its record, if it has one, and    *)
(* the number of its parts that are skipped                                *)

Decoded(title, user, record, skipped) ==
  [records |-> <<[title |-> title, user |-> user, rec |-> record]>>, skipped |-> skipped]

\* parse_native, parse_record
ParseNativeItem(item) ==
  {Decoded(t, u, NewRecord(p, l, n, k), 0) :
     t \in RequiredStr(item.title), u \in OptionalStr(item.username),
     p \in OptionalSecret(item.password), l \in OptionalStr(item.url),
     n \in OptionalSecret(item.notes), k \in NativeTotp(item.totp)}

\* login.uris: an array whose elements all have a uri.
Uris(v) ==
  IF v = Absent THEN {<<>>} ELSE IF v = WrongType THEN {}
  ELSE {uris \in {v} : \A i \in DOMAIN uris : uris[i] \in Texts}

\* Mutant: the URLs after the first are dropped without a word.
ExtraUrisUncounted(uris) == 0

\* A record has one URL.
ExtraUris(uris) == IF uris = <<>> THEN 0 ELSE Len(uris) - 1

Login(v) ==
  IF v \in {Absent, WrongType} THEN {}
  ELSE {[user |-> u, password |-> p, totp |-> k, url |-> IF uris = <<>> THEN Empty ELSE uris[1],
         skipped |-> f + ExtraUris(uris)] :
          u \in OptionalStr(v.username), p \in OptionalSecret(v.password),
          k \in ExternalTotp(v.totp), f \in JsonArrayLen(v.fido2), uris \in Uris(v.uris)}

\* A secure note (2) has no login part.
NoLogin == [user |-> Empty, password |-> None, totp |-> None, url |-> Empty, skipped |-> 0]

\* parse_bitwarden_item: cards and identities (3, 4) are skipped, unknown types refused.
ParseBitwardenItem(item) ==
  CASE item.type \in {3, 4} -> {[records |-> <<>>, skipped |-> 1]}
    [] item.type \in {1, 2} ->
         {Decoded(t, l.user, NewRecord(l.password, l.url, n, l.totp), a + f + l.skipped) :
            t \in RequiredStr(item.name), n \in OptionalSecret(item.notes),
            a \in JsonArrayLen(item.attachments), f \in JsonArrayLen(item.fields),
            l \in IF item.type = 2 THEN {NoLogin} ELSE Login(item.login)}
    [] OTHER -> {}

\* parse_keepassxc: a row is a function on the columns; a ragged one has too few fields.
CsvField(row, column) == IF column \in DOMAIN row.fields THEN row.fields[column] ELSE Empty

ParseKeepassxcRow(row) ==
  {Decoded(CsvField(row, "Title"), CsvField(row, "Username"),
           NewRecord(NonemptySecret(CsvField(row, "Password")), CsvField(row, "URL"),
                     NonemptySecret(CsvField(row, "Notes")), k),
           Cardinality({c \in Extra \cap DOMAIN row.fields : row.fields[c] # Empty})) :
     k \in {k \in ExternalTotp(CsvField(row, "TOTP")) :
            ~row.ragged /\ \A c \in DOMAIN row.fields : row.fields[c] \notin Huge}}

-----------------------------------------------------------------------------
(* The whole export *)

Formats == {"json", "bitwarden-json", "keepassxc-csv"}

ParseItem(format, item) ==
  CASE format = "json"           -> ParseNativeItem(item)
    [] format = "bitwarden-json" -> ParseBitwardenItem(item)
    [] format = "keepassxc-csv"  -> ParseKeepassxcRow(item)

\* What the items give together.
Collected(results) ==
  LET upto[n \in 0 .. Len(results)] ==
        IF n = 0 THEN [records |-> <<>>, skipped |-> 0]
        ELSE [records |-> upto[n - 1].records \o results[n].records,
              skipped |-> upto[n - 1].skipped + results[n].skipped]
  IN  upto[Len(results)]

(* source.sound: the text is JSON or CSV within the limits of the reader,  *)
(* with format_version 1, not encrypted, with an items collection of the   *)
(* right kind or the five columns every CSV export has.                    *)
Parse(doc) ==
  LET parsed(i) == ParseItem(doc.format, doc.items[i])
      all == Collected([i \in DOMAIN doc.items |-> CHOOSE r \in parsed(i) : TRUE])
  IN  IF doc.sound /\ Len(doc.items) <= ItemLimit /\ \A i \in DOMAIN doc.items : parsed(i) # {}
      THEN {[records |-> all.records, native |-> doc.format = "json", skipped |-> all.skipped]}
      ELSE {}

-----------------------------------------------------------------------------
(* The plan *)

LiveWith(entries, title) == {i \in DOMAIN entries : entries[i].live /\ entries[i].title = title}
InFile(records, title)   == {k \in DOMAIN records : records[k].title = title}

\* Mutant: two records of one title both update the item.
UpdatesEach(parsed, entries, title) ==
  parsed.native /\ Cardinality(LiveWith(entries, title)) = 1

\* A native record updates the only live item of its title, when it is the only
\* record of its title; every other record is added.
Updates(parsed, entries, title) ==
  /\ parsed.native
  /\ Cardinality(InFile(parsed.records, title)) = 1
  /\ Cardinality(LiveWith(entries, title)) = 1

\* note_collision: how many other items or records have the title.
CollisionCount(parsed, entries, title) ==
  LET live == Cardinality(LiveWith(entries, title))
      file == Cardinality(InFile(parsed.records, title))
  IN  CASE ~parsed.native             -> live + file - 1
        [] parsed.native /\ file > 1  -> file
        [] parsed.native /\ file = 1  -> IF live > 1 THEN live ELSE 0

\* The elements of s that are in P, in the order of s.
Selected(s, P) ==
  LET upto[n \in 0 .. Len(s)] ==
        IF n = 0 THEN <<>>
        ELSE IF s[n] \in P THEN Append(upto[n - 1], s[n]) ELSE upto[n - 1]
  IN  upto[Len(s)]

BuildPlan(entries, parsed) ==
  LET updating  == {r \in Range(parsed.records) : Updates(parsed, entries, r.title)}
      target(r) == entries[CHOOSE i \in LiveWith(entries, r.title) : TRUE].id
      chosen    == Selected(parsed.records, updating)
  IN  [adds       |-> Selected(parsed.records, Range(parsed.records) \ updating),
       updates    |-> [k \in DOMAIN chosen |-> [id |-> target(chosen[k]), rec |-> chosen[k].rec]],
       collisions |-> {<<t, CollisionCount(parsed, entries, t)>> :
                       t \in {t \in {parsed.records[k].title : k \in DOMAIN parsed.records} :
                              CollisionCount(parsed, entries, t) > 0}},
       skipped    |-> parsed.skipped]

NoPlan == [adds |-> <<>>, updates |-> <<>>, collisions |-> {}, skipped |-> 0]

\* Mutant: --yes answers for a plan with collisions.
PureAddsButForCollisions(p) == p.updates = <<>>

PureAdds(p) == p.updates = <<>> /\ p.collisions = {}

-----------------------------------------------------------------------------
(* Applying it *)

NextId(entries) ==
  CHOOSE n \in {1} \cup {entries[i].id + 1 : i \in DOMAIN entries} :
    \A i \in DOMAIN entries : entries[i].id < n

\* validate_item; a TOTP key has at most 128 bytes.
ValidRecord(r) ==
  /\ {r.password, r.url, r.notes} \cap Long = {}
  /\ r.totp # None => r.totp.secret <= 128 /\ ValidParams(r.totp.period, r.totp.digits)

\* Mutant: the id one past the last is given out.
IdsLeftOffByOne(entries, n) == NextId(entries) + n <= LastId + 1

\* next_item_id stays below the end of its type.
IdsLeft(entries, n) == NextId(entries) + n <= LastId

\* Everything is checked before the session is changed (apply_import).
Applicable(entries, p) ==
  /\ \A k \in DOMAIN p.adds :
       {p.adds[k].title, p.adds[k].user} \cap Long = {} /\ ValidRecord(p.adds[k].rec)
  /\ IdsLeft(entries, Len(p.adds))
  /\ \A k \in DOMAIN p.updates :
       ValidRecord(p.updates[k].rec) /\ \E i \in DOMAIN entries :
                                           entries[i].id = p.updates[k].id /\ entries[i].live

\* An update keeps the item's title, user name and time of creation; the last one counts.
Updated(entry, p) ==
  LET mine == {k \in DOMAIN p.updates : p.updates[k].id = entry.id}
      last == CHOOSE k \in mine : \A j \in mine : j <= k
  IN  IF mine = {} THEN entry
      ELSE [entry EXCEPT !.rec = [p.updates[last].rec EXCEPT !.created = entry.rec.created]]

\* commit_import
Applied(entries, p) ==
  [i \in DOMAIN entries |-> Updated(entries[i], p)]
  \o [k \in DOMAIN p.adds |-> [id |-> NextId(entries) + k - 1, live |-> TRUE,
                               title |-> p.adds[k].title, user |-> p.adds[k].user,
                               rec |-> p.adds[k].rec]]

Commit(entries) == vault' = [tag |-> vault.tag + 1, entries |-> entries]

-----------------------------------------------------------------------------
(* What there is in the beginning *)

TotpRecord == [secret : Nat, period : Nat, digits : Nat, algorithm : Algorithms]
ItemRecord ==
  [password : Texts \cup {None}, url : Texts, notes : Texts \cup {None},
   totp : TotpRecord \cup {None}, created : Nat]
Entry ==
  [id : 1 .. (LastId - 1), live : BOOLEAN, title : Texts \ Long, user : Texts \ Long,
   rec : ItemRecord]

ASSUME NoneAssumption == None \notin TotpRecord

SoundEntries(entries) ==
  /\ entries \in Seq(Entry)
  /\ \A i \in DOMAIN entries : ValidRecord(entries[i].rec)
  /\ \A i, j \in DOMAIN entries : entries[i].id = entries[j].id => i = j

CodesUsable(entries) ==
  \A i \in DOMAIN entries : entries[i].rec.totp # None => Usable(entries[i].rec.totp)

\* No process writes anything else (modules VaultSessions and Commands).
ASSUME VaultsAssumption ==
  \A v \in Vaults : v.tag \in Nat /\ SoundEntries(v.entries) /\ CodesUsable(v.entries)

\* A secret as it is typed, and the two ways to write a one-time password in an export.
TypedSecret == [b32 : BOOLEAN, escapes : {"none", "good", "bad"}, bytes : Nat]

IsNativeTotp(v) ==
  v \in {Absent, WrongType} \/ v.secret \in {Absent, WrongType} \/ v.secret \in TypedSecret

IsExternalTotp(v) ==
  \/ v \in {Absent, WrongType, Empty}
  \/ v.form = "bare" /\ v.key \in TypedSecret
  \/ /\ v.form = "uri" /\ v.uri.pairs \in Seq(Range(v.uri.pairs))
     /\ \A i \in Occurrences(v.uri.pairs, "secret") : v.uri.pairs[i].value \in TypedSecret

Columns == {"Title", "Username", "Password", "URL", "Notes"}

\* What a JSON or CSV reader makes of a text.
IsItem(format, item) ==
  CASE format = "json" -> IsNativeTotp(item.totp)
    [] format = "bitwarden-json" ->
         item.login \in {Absent, WrongType} \/
         /\ IsExternalTotp(item.login.totp)
         /\ item.login.uris \in {Absent, WrongType} \/
            item.login.uris \in Seq(Range(item.login.uris))
    [] format = "keepassxc-csv" ->
         /\ Columns \subseteq DOMAIN item.fields
         /\ DOMAIN item.fields \subseteq Columns \cup {"TOTP"} \cup Extra
         /\ \A c \in DOMAIN item.fields :
              IF c = "TOTP" THEN IsExternalTotp(item.fields[c]) ELSE item.fields[c] \in Texts
    [] OTHER -> TRUE

ASSUME SourcesAssumption ==
  \A doc \in Sources :
    /\ doc.items \in Seq(Range(doc.items))
    /\ \A i \in DOMAIN doc.items : IsItem(doc.format, doc.items[i])
ASSUME ExtraAssumption == IsFiniteSet(Extra) /\ Extra \cap (Columns \cup {"TOTP"}) = {}

-----------------------------------------------------------------------------
(* Steps *)

Init ==
  /\ vault \in Vaults
  /\ source \in Sources
  /\ flags \in [dry : BOOLEAN, yes : BOOLEAN, terminal : BOOLEAN]
  /\ step = "read" /\ session = [tag |-> 0, entries |-> <<>>]
  /\ plan = NoPlan /\ asked = FALSE

Fixed == UNCHANGED <<source, flags>>

\* read_import_text: at most 64 MiB of UTF-8.
ReadImportText ==
  /\ step = "read"
  /\ step' = IF source.readable THEN "unlock" ELSE "error"
  /\ Fixed /\ UNCHANGED <<vault, session, plan, asked>>

\* open_vault asks for the master password.
Unlock ==
  /\ step = "unlock"
  /\ \/ step' = "preview" /\ session' = vault
     \/ step' = "error" /\ UNCHANGED session
  /\ Fixed /\ UNCHANGED <<vault, plan, asked>>

\* import_format_into_with_quiet: an unknown format, an export that does not decode.
Refuse ==
  /\ step = "preview"
  /\ \/ source.format \notin Formats /\ step' = "usage"
     \/ source.format \in Formats /\ Parse(source) = {} /\ step' = "error"
  /\ Fixed /\ UNCHANGED <<vault, session, plan, asked>>

\* The plan is shown; whether the user is asked depends on it.
Preview ==
  /\ step = "preview" /\ source.format \in Formats
  /\ \E parsed \in Parse(source) : plan' = BuildPlan(session.entries, parsed)
  /\ step' = CASE flags.dry -> "ok"
               [] ~flags.dry /\ flags.yes /\ PureAdds(plan') -> "apply"
               [] ~flags.dry /\ ~(flags.yes /\ PureAdds(plan')) ->
                    IF flags.terminal THEN "ask" ELSE "error"
  /\ Fixed /\ UNCHANGED <<vault, session, asked>>

\* proceed? [y/N]
Answer ==
  /\ step = "ask"
  /\ \/ step' = "apply" /\ asked' = TRUE
     \/ step' = "cancelled" /\ UNCHANGED asked
  /\ Fixed /\ UNCHANGED <<vault, session, plan>>

\* Mutant: the save does not compare the file with the commit that was opened.
MayCommitAnyway == TRUE

\* The session's commit is still the one on disk (save_with_header_locked).
MayCommit == session.tag = vault.tag

Apply ==
  /\ step = "apply" /\ Applicable(session.entries, plan) /\ MayCommit
  /\ Commit(Applied(session.entries, plan))
  /\ session' = vault' /\ step' = "ok"
  /\ Fixed /\ UNCHANGED <<plan, asked>>

\* A record is refused, another process was faster, or the save fails.
ApplyFails ==
  /\ step = "apply" /\ step' = "error"
  /\ Fixed /\ UNCHANGED <<vault, session, plan, asked>>

\* Another process adds, edits or deletes an item while this one waits.
OtherCommits ==
  /\ vault.tag < MaxTag
  /\ \/ \E i \in DOMAIN vault.entries :
          /\ vault.entries[i].live
          /\ \/ Commit([vault.entries EXCEPT ![i].live = FALSE])
             \/ \E j \in DOMAIN vault.entries :
                  Commit([vault.entries EXCEPT ![i].title = vault.entries[j].title])
     \/ /\ IdsLeft(vault.entries, 1)
        /\ \E i \in DOMAIN vault.entries :
             Commit(Append(vault.entries, [vault.entries[i] EXCEPT !.id = NextId(vault.entries),
                                                                   !.live = TRUE]))
  /\ Fixed /\ UNCHANGED <<step, session, plan, asked>>

Ended == step \in {"ok", "error", "usage", "cancelled"} /\ UNCHANGED vars

Next ==
  \/ ReadImportText \/ Unlock \/ Refuse \/ Preview \/ Answer \/ Apply \/ ApplyFails
  \/ OtherCommits \/ Ended

Spec == Init /\ [][Next]_vars

-----------------------------------------------------------------------------
(* Properties *)

\* Ids are given out once and stay below the last of their type, whatever is imported;
\* a plan names items of the session.
TypeOK ==
  /\ vault.tag \in Nat /\ SoundEntries(vault.entries)
  /\ step \in {"read", "unlock", "preview", "ask", "apply", "ok", "error", "usage", "cancelled"}
  /\ asked \in BOOLEAN
  /\ \A k \in DOMAIN plan.updates :
       \E i \in DOMAIN session.entries : session.entries[i].id = plan.updates[k].id

ImportCommits == step = "apply" /\ step' = "ok"
Records == (CHOOSE parsed \in Parse(source) : TRUE).records
Secrets(rec) == <<rec.password, rec.url, rec.notes, rec.totp>>

\* An import that commits finds in the vault, as it is then, one place for every record: the
\* item of its title when the export is latchkey's own, item and record are the only ones
\* of that title and the item is not deleted, a new item else; no two records share a
\* place, and everything else is as it was (CLI_REFERENCE, "updates that entry's secrets
\* while preserving its item_id").
EveryRecordOnce ==
  [][ImportCommits =>
       \E place \in [DOMAIN Records -> DOMAIN vault'.entries] :
         /\ \A k, l \in DOMAIN Records : place[k] = place[l] => k = l
         /\ \A i \in DOMAIN vault'.entries :
              \/ \E k \in DOMAIN Records : place[k] = i
              \/ i \in DOMAIN vault.entries /\ vault'.entries[i] = vault.entries[i]
         /\ \A k \in DOMAIN Records :
              LET old == {i \in LiveWith(vault.entries, Records[k].title) :
                            /\ source.format = "json"
                            /\ InFile(Records, Records[k].title) = {k}
                            /\ LiveWith(vault.entries, Records[k].title) = {i}}
                  new == vault'.entries[place[k]]
              IN  /\ Secrets(new.rec) = Secrets(Records[k].rec)
                  /\ new.live /\ new.title = Records[k].title
                  /\ IF old = {} THEN place[k] \notin DOMAIN vault.entries /\ new.user = Records[k].user
                     ELSE /\ place[k] \in old
                          /\ [vault.entries[place[k]] EXCEPT !.rec = new.rec] = new
                          /\ vault.entries[place[k]].rec.created = new.rec.created]_vars

\* Without a yes of the user an import changes no item and brings no title that a live item
\* or another record has: also when the vault is not what it was when the plan was made.
OnlyAddsUnasked ==
  [][ImportCommits /\ ~asked =>
       /\ flags.yes /\ IsPrefix(vault.entries, vault'.entries)
       /\ \A k \in DOMAIN Records :
            /\ LiveWith(vault.entries, Records[k].title) = {}
            /\ InFile(Records, Records[k].title) = {k}]_vars

\* The texts and other parts of an item that are in the export.
OneTime(v) == IF v \in {Absent, Empty} THEN {} ELSE {"totp"}

Parts(format, item) ==
  CASE format = "json" ->
         {item.title, item.username, item.password, item.url, item.notes} \cup OneTime(item.totp)
    [] format = "keepassxc-csv" ->
         {item.fields[c] : c \in DOMAIN item.fields \ {"TOTP"}} \cup OneTime(CsvField(item, "TOTP"))
    [] format = "bitwarden-json" ->
         {item.name, item.notes}
         \cup (IF item.attachments \in {Absent, 0} THEN {} ELSE {"attachments"})
         \cup (IF item.fields \in {Absent, 0} THEN {} ELSE {"fields"})
         \cup (IF item.type # 1 THEN {} ELSE
                 {item.login.username, item.login.password} \cup OneTime(item.login.totp)
                 \cup (IF item.login.fido2 \in {Absent, 0} THEN {} ELSE {"passkeys"})
                 \cup (IF item.login.uris = Absent THEN {}
                       ELSE {item.login.uris[i] : i \in DOMAIN item.login.uris}))

Carried(title, user, rec) ==
  {title, user, rec.password, rec.url, rec.notes} \cup IF rec.totp = None THEN {} ELSE {"totp"}

\* When a plan says that nothing is skipped, then every item of the export is one of its new
\* items with all its parts, or its update gives an item of that title all parts but one
\* (CLI_REFERENCE: "Supported source fields preserve title, username, password, URL, notes,
\* and TOTP", what is unsupported contributes to the skipped count).  Two parts are dropped
\* without being counted, and the property lets them go: the user name of a native item that
\* updates one (build_plan keeps the item's), and a login part in a secure note, which
\* parse_bitwarden_item does not look at.  EveryRecordOnce takes it from the plan into the vault.
NothingLost ==
  step \in {"ask", "apply"} /\ plan.skipped = 0 =>
    \A n \in DOMAIN source.items :
      LET parts == Parts(source.format, source.items[n]) \ {Absent, Empty}
      IN  \/ \E add \in Range(plan.adds) : parts \subseteq Carried(add.title, add.user, add.rec)
          \/ \E update \in Range(plan.updates), entry \in Range(session.entries) :
               /\ update.id = entry.id
               /\ parts \subseteq Carried(entry.title, source.items[n].username, update.rec)

\* Every one-time password in the vault can be computed by other programs: its secret
\* reaches the floor of the algorithm that goes with it in the end, whichever of the three
\* decoders it came through and in whatever order a URI names its parameters.
TotpUsable == CodesUsable(vault.entries)
=============================================================================
