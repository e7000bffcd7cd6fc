------------------------------ MODULE Commands ------------------------------
(***************************************************************************)
(* The commands of `latchkey` (src/src/cli/mod.rs): what each one asks,    *)
(* checks, writes, prints and returns, in which order, while another       *)
(* process works on the same vault.                                        *)
(*                                                                         *)
(* A command is a script of stages.  Between two stages the user may take  *)
(* minutes to answer a prompt or to leave an editor, so each stage is a    *)
(* step of its own.  The vault file is whole commits here: module          *)
(* VaultSessions shows that an operation of a session is one step on them  *)
(* or none, and that a session whose commit was replaced is refused.       *)
(* Titles resolve among the live items; the id of an item is its position. *)
(***************************************************************************)
EXTENDS Naturals, Sequences, FiniteSets

CONSTANTS
  Processes,   \* latchkey processes, each of which runs one command
  Runs,        \* the commands each of them may run
  Titles,      \* titles; every command names Wanted
  Wanted,
  Users,       \* user names
  Secrets,     \* passwords, notes and TOTP keys that somebody types
  Binary,      \* one of them that is not UTF-8
  Masters,     \* master passwords check_quality accepts
  Weak,        \* master passwords it refuses
  Nothing,     \* no password, notes or TOTP key
  Empty,       \* the text of no characters
  Keep,        \* a field the user leaves as it is
  Vaults,      \* what may be at the vault's path in the beginning
  MaxFaults    \* bound: errors of the file system or the tools, and kills

Options == [init    |-> {"force"},
            add     |-> {"username", "notes", "bare_notes", "generate", "reveal", "totp"},
            list    |-> {},
            get     |-> {"id", "reveal"},
            copy    |-> {"id"},
            totp    |-> {"id"},
            rm      |-> {"id", "purge"},
            edit    |-> {"id", "username", "notes", "bare_notes", "generate", "reveal", "totp"},
            rotate  |-> {"new_password"},
            migrate |-> {"same"},
            export  |-> {"json", "yes", "file", "stdout"},
            backup  |-> {},
            check   |-> {}]
\* --reveal-generated requires --generate.
AllCommands ==
  {cmd \in UNION {[kind: {k}, opts: SUBSET Options[k]] : k \in DOMAIN Options} :
     cmd.kind \in {"add", "edit"} /\ "reveal" \in cmd.opts => "generate" \in cmd.opts}

ASSUME RunsAssumption == Runs \in [Processes -> SUBSET AllCommands]
ASSUME ValuesAssumption ==
  /\ Wanted \in Titles /\ Binary \in Secrets
  /\ Masters \cap Weak = {}
  /\ Cardinality({Keep, Nothing, Empty}) = 3
  /\ {Keep, Nothing, Empty} \cap (Secrets \cup Users) = {}
ASSUME BoundsAssumption == MaxFaults \in Nat

VARIABLES
  vault,   \* the file at the vault's path
  out,     \* the file at the path of --out
  clock,   \* number of commits made so far
  proc,    \* each process: its command, what it knows and what it did
  faults

vars == <<vault, out, clock, proc, faults>>

-----------------------------------------------------------------------------
(* Data *)

Fields   == {"user", "pw", "notes", "totp"}
Generated(p) == <<"generated", p>>
Values   == Users \cup Secrets \cup {Nothing, Empty} \cup {Generated(p) : p \in Processes}
Item     == [live: BOOLEAN, title: Titles, has: [Fields -> Values]]
Vault    == [tag: Nat, parent: Nat, version: {1, 2}, sound: BOOLEAN,
             master: Masters \cup {Nothing}, items: Seq(Item)]
NoVault  == [tag |-> 0, parent |-> 0, version |-> 2, sound |-> TRUE,
             master |-> Nothing, items |-> <<>>]
NewItem  == [live |-> TRUE, title |-> Wanted, has |-> [f \in Fields |-> Nothing]]
NoFile   == [what |-> "none", vault |-> NoVault]
NoPatch  == [f \in Fields |-> Keep]

\* ExitCode of cli/error.rs; a process that is running or was killed has none.
Codes == {"running", "ok", "error", "usage", "not_found", "cancelled", "killed"}

(* input: "ended" when its standard input and its terminal are both at     *)
(* their end.  session: the vault as it was opened; read: the file an item,*)
(* a snapshot or a copy was taken from; wrote and made: its commit, its    *)
(* output file.                                                            *)
Idle == [cmd |-> [kind |-> "none", opts |-> {}], todo |-> <<>>, code |-> "running",
         input |-> "open", session |-> NoVault, read |-> NoVault, pick |-> 0, patch |-> NoPatch,
         line |-> Nothing, master |-> Nothing, shown |-> {},
         wrote |-> NoVault, made |-> FALSE]

Live(v)    == {i \in DOMAIN v.items : v.items[i].live}
Matches(v) == {i \in Live(v) : v.items[i].title = Wanted}

\* What a process generates is nobody's text and in no vault before.
ASSUME VaultsAssumption ==
  /\ \A p \in Processes : Generated(p) \notin Users \cup Secrets \cup {Keep, Nothing, Empty}
  /\ \A v \in Vaults :
       /\ v \in Vault /\ (v.tag = 0 => v = NoVault)
       /\ \A i \in DOMAIN v.items, f \in Fields, p \in Processes : v.items[i].has[f] # Generated(p)

\* Mutant: fields the user keeps are taken from the patch too.
AppliedBlindly(item, patch) == [item EXCEPT !.has = [f \in Fields |-> patch[f]]]

\* The record an edit or an add ends with.
Applied(item, patch) ==
  [item EXCEPT !.has = [f \in Fields |-> IF patch[f] = Keep THEN @[f] ELSE patch[f]]]

-----------------------------------------------------------------------------
(* The commands *)

When(condition, stage) == IF condition THEN <<stage>> ELSE <<>>

InitScript(o) == <<"make_way", "new_master", "repeat_master", "create">>

\* Mutant: a generated password is printed before it is saved.
AddScriptRevealingEarly(o) ==
  When("username" \notin o, "username")
  \o <<"exists", "unlock", IF "generate" \in o THEN "generate" ELSE "password">>
  \o When("totp" \in o, "totp_key") \o When("reveal" \in o, "reveal") \o <<"save">>

AddScript(o) ==
  When("username" \notin o, "username")
  \o <<"exists", "unlock", IF "generate" \in o THEN "generate" ELSE "password">>
  \o When("totp" \in o, "totp_key") \o <<"save">> \o When("reveal" \in o, "reveal")

EditScript(o) ==
  <<"exists", "unlock", "resolve", "open">>
  \o When("username" \notin o, "username_or_keep")
  \o When({"notes", "bare_notes"} \cap o = {}, "notes_or_keep")
  \o <<IF "generate" \in o THEN "generate" ELSE "password_or_keep">>
  \o When("totp" \in o, "totp_key") \o <<"save">> \o When("reveal" \in o, "reveal")

ListScript(o) == <<"exists", "unlock", "list">>
GetScript(o)  == <<"exists", "unlock", "resolve", "open", "deliver">>
CopyScript(o) == <<"exists", "unlock", "resolve", "open", "deliver">>
TotpScript(o) == <<"exists", "unlock", "resolve", "open", "deliver">>

RmScript(o) ==
  <<"exists", "unlock", "resolve">> \o When("purge" \notin o, "confirm") \o <<"save">>

CheckScript(o) == <<"exists", "unlock", "verify">>

RotateScript(o) ==
  <<"exists", "unlock">>
  \o (IF "new_password" \in o THEN <<"new_master", "repeat_master">> ELSE <<>>) \o <<"save">>

ExportScript(o) ==
  <<"flags", "exists", "unlock", "snapshot">>
  \o (IF "file" \in o THEN <<"out_free", "create_out", "write_out">> ELSE <<"print">>)

BackupScript(o) == <<"exists", "out_free", "read_file", "link_out">>

MigrateScript(o) == <<"flags", "out_free", "exists", "master", "read_legacy", "link_out">>

\* dispatch
Script(cmd) ==
  LET o == cmd.opts
  IN  CASE cmd.kind = "init"    -> InitScript(o)
        [] cmd.kind = "add"     -> AddScript(o)
        [] cmd.kind = "list"    -> ListScript(o)
        [] cmd.kind = "get"     -> GetScript(o)
        [] cmd.kind = "copy"    -> CopyScript(o)
        [] cmd.kind = "totp"    -> TotpScript(o)
        [] cmd.kind = "rm"      -> RmScript(o)
        [] cmd.kind = "edit"    -> EditScript(o)
        [] cmd.kind = "rotate"  -> RotateScript(o)
        [] cmd.kind = "migrate" -> MigrateScript(o)
        [] cmd.kind = "export"  -> ExportScript(o)
        [] cmd.kind = "backup"  -> BackupScript(o)
        [] cmd.kind = "check"   -> CheckScript(o)

-----------------------------------------------------------------------------
(* Steps *)

Init ==
  /\ vault \in Vaults /\ clock = vault.tag
  /\ out = NoFile
  /\ proc = [p \in Processes |-> Idle] /\ faults = 0

Kind(p)      == proc[p].cmd.kind
Has(p, o)    == o \in proc[p].cmd.opts
At(p, stage) == proc[p].todo # <<>> /\ Head(proc[p].todo) = stage

\* The stage is done and leaves the process as `me`; after the last one it exits with 0.
Continue(p, me) ==
  proc' = [proc EXCEPT ![p] =
             [me EXCEPT !.todo = Tail(@),
                        !.code = IF Len(me.todo) = 1 THEN "ok" ELSE "running"]]

End(p, me, code) == proc' = [proc EXCEPT ![p] = [me EXCEPT !.todo = <<>>, !.code = code]]

\* The user's answer is asked again, from the given stages on, as often as it takes.
Again(p, stages) == proc' = [proc EXCEPT ![p].todo = stages \o @]

InputOpen(p) == proc[p].input = "open"

Files == <<vault, out, clock>>

\* --username gives the name without a prompt.
FlaggedUser(o) == IF "username" \in o THEN Users ELSE {Keep}

\* --notes: its value, or "" (default_missing_value) when it is given without one, so
\* that resolve_notes is never called with the Some(None) that opens $EDITOR.
FlaggedNotes(o) ==
  IF "notes" \in o THEN Secrets \ {Binary} ELSE IF "bare_notes" \in o THEN {Empty} ELSE {Keep}

\* Cli::try_parse_from
Start(p) ==
  /\ proc[p] = Idle
  /\ \E cmd \in Runs[p] : \E user \in FlaggedUser(cmd.opts), notes \in FlaggedNotes(cmd.opts) :
       proc' = [proc EXCEPT ![p].cmd = cmd, ![p].todo = Script(cmd),
                            ![p].patch.user = user, ![p].patch.notes = notes]
  /\ UNCHANGED <<Files, faults>>

\* migrate onto itself; export without its opt-in or its output.
Flags(p) ==
  /\ At(p, "flags")
  /\ LET usage == \/ Kind(p) = "migrate" /\ Has(p, "same")
                  \/ Kind(p) = "export" /\ ~Has(p, "json")
         silent == Kind(p) = "export" /\ ~Has(p, "file") /\ ~Has(p, "stdout")
     IN  IF usage THEN End(p, proc[p], "usage")
         ELSE IF Kind(p) = "export" /\ ~Has(p, "yes") THEN End(p, proc[p], "cancelled")
         ELSE IF silent THEN End(p, proc[p], "usage")
         ELSE Continue(p, proc[p])
  /\ UNCHANGED <<Files, faults>>

Exists(p) ==
  /\ At(p, "exists")
  /\ IF vault.tag # 0 THEN Continue(p, proc[p]) ELSE End(p, proc[p], "not_found")
  /\ UNCHANGED <<Files, faults>>

\* The right password for a file of the current version opens it.
Unlock(p) ==
  /\ At(p, "unlock")
  /\ \/ InputOpen(p) /\ vault.tag # 0 /\ vault.version = 2
        /\ Continue(p, [proc[p] EXCEPT !.session = vault])
     \/ End(p, proc[p], "error")
  /\ UNCHANGED <<Files, faults>>

-----------------------------------------------------------------------------
(* Prompts *)

\* What is typed, or what a stage makes of no input at all.
Answer(p, stage, field, typed, without) ==
  /\ At(p, stage)
  /\ \E a \in without \cup (IF InputOpen(p) THEN typed ELSE {}) :
       Continue(p, [proc[p] EXCEPT !.patch[field] = a])
  /\ UNCHANGED <<Files, faults>>

\* A line of text: Enter and the end of the input are an empty one (prompt_line), which
\* keeps what an edit has shown.
Username(p) == Answer(p, "username", "user", Users, {Empty})
UsernameOrKeep(p) == Answer(p, "username_or_keep", "user", Users, {Keep})
NotesOrKeep(p)    == Answer(p, "notes_or_keep", "notes", Secrets \ {Binary}, {Keep})

\* A hidden line: its end is an error.
Password(p) == Answer(p, "password", "pw", Secrets, {})
TotpKey(p)  == Answer(p, "totp_key", "totp", Secrets \ {Binary}, {})
PasswordOrKeep(p) == Answer(p, "password_or_keep", "pw", (Secrets \ {Binary}) \cup {Keep}, {})

Generate(p) == Answer(p, "generate", "pw", {}, {Generated(p)})

\* Mutant: a declined confirmation exits with 0.
ConfirmSilently(p) ==
  /\ At(p, "confirm")
  /\ (InputOpen(p) /\ Continue(p, proc[p])) \/ End(p, proc[p], "ok")
  /\ UNCHANGED <<Files, faults>>

\* Any answer but y or yes declines, the end of the input too.
Confirm(p) ==
  /\ At(p, "confirm")
  /\ (InputOpen(p) /\ Continue(p, proc[p])) \/ End(p, proc[p], "cancelled")
  /\ UNCHANGED <<Files, faults>>

\* prompt_new_master reads two lines, which must agree and pass check_quality.
NewMaster(p) ==
  /\ At(p, "new_master") /\ InputOpen(p)
  /\ \E line \in Masters \cup Weak :
       proc' = [proc EXCEPT ![p].line = line, ![p].todo = Tail(@)]
  /\ UNCHANGED <<Files, faults>>

RepeatMaster(p) ==
  /\ At(p, "repeat_master") /\ InputOpen(p)
  /\ \E line \in Masters \cup Weak :
       IF line = proc[p].line /\ line \in Masters
       THEN Continue(p, [proc[p] EXCEPT !.master = line])
       ELSE Again(p, <<"new_master">>)
  /\ UNCHANGED <<Files, faults>>

\* The master password of a file that is only read (migrate).
AskMaster(p) ==
  /\ At(p, "master") /\ InputOpen(p)
  /\ Continue(p, proc[p])
  /\ UNCHANGED <<Files, faults>>

\* resolve_title: by id, or the one live item of that title, or one of several.
Resolve(p) ==
  /\ At(p, "resolve")
  /\ LET found == IF Has(p, "id") THEN Live(proc[p].session) ELSE Matches(proc[p].session)
     IN  \/ /\ Has(p, "id") \/ Cardinality(found) = 1
            /\ \E i \in found : Continue(p, [proc[p] EXCEPT !.pick = i])
         \/ /\ Has(p, "id") \/ found = {}
            /\ End(p, proc[p], "error")
         \/ /\ ~Has(p, "id") /\ Cardinality(found) > 1
            /\ proc' = [proc EXCEPT ![p].todo = <<"select">> \o Tail(@)]
  /\ UNCHANGED <<Files, faults>>

\* Mutant: an empty line is no number and is asked again, the one at the end of the
\* input too.
SelectAgainAtEnd(p) ==
  /\ At(p, "select")
  /\ \/ InputOpen(p) /\ \E i \in Matches(proc[p].session) :
                          Continue(p, [proc[p] EXCEPT !.pick = i])
     \/ InputOpen(p) /\ End(p, proc[p], "cancelled")
     \/ Again(p, <<>>)
  /\ UNCHANGED <<Files, faults>>

\* interactive_select: a number of the list; q or an empty line, as at the end of the
\* input; anything else again.
Select(p) ==
  /\ At(p, "select")
  /\ \/ InputOpen(p) /\ \E i \in Matches(proc[p].session) :
                          Continue(p, [proc[p] EXCEPT !.pick = i])
     \/ End(p, proc[p], "cancelled")
     \/ InputOpen(p) /\ Again(p, <<>>)
  /\ UNCHANGED <<Files, faults>>

Hidden == {"unlock", "password", "totp_key", "password_or_keep", "new_master", "repeat_master",
           "master"}
Asking == Hidden \cup {"username", "username_or_keep", "notes_or_keep", "confirm", "select"}

\* The input cannot be read, or is at its end where a hidden line is asked, or a TOTP
\* key is refused.
PromptFails(p) ==
  /\ \E stage \in Asking : At(p, stage) /\ (InputOpen(p) \/ stage \in Hidden)
  /\ End(p, proc[p], "error")
  /\ UNCHANGED <<Files, faults>>

\* Where the input is asked for it turns out to be at its end, for good.
InputEnds(p) ==
  /\ InputOpen(p) /\ \E stage \in Asking : At(p, stage)
  /\ proc' = [proc EXCEPT ![p].input = "ended"]
  /\ UNCHANGED <<Files, faults>>

-----------------------------------------------------------------------------
(* Reading *)

\* Mutant: the file is read without comparing its commit.
CurrentUnchecked(p) == vault.tag # 0 /\ Len(vault.items) = Len(proc[p].session.items)

\* authenticate_current: the file is still the commit this session has opened.
Current(p) == vault.tag # 0 /\ vault.tag = proc[p].session.tag

\* open_item, snapshot, verify_all_items: the file is read again.
ReadAgain(p) ==
  /\ \E stage \in {"open", "snapshot", "verify"} : At(p, stage)
  /\ LET me == [proc[p] EXCEPT !.read = vault]
         text == \A i \in Live(vault) : Binary \notin {vault.items[i].has[f] : f \in {"pw", "notes"}}
     IN  IF Current(p) /\ (At(p, "snapshot") => text) THEN Continue(p, me)
         ELSE End(p, proc[p], "error")
  /\ UNCHANGED <<Files, faults>>

Picked(p) == proc[p].read.items[proc[p].pick]

\* get, copy and totp: to the terminal or to the clipboard (module Clipboard).
Deliver(p) ==
  /\ At(p, "deliver")
  /\ LET secret == Picked(p).has[IF Kind(p) = "totp" THEN "totp" ELSE "pw"]
     IN  IF secret = Nothing \/ (Has(p, "reveal") /\ secret = Binary)
         THEN End(p, proc[p], "error")
         ELSE Continue(p, [proc[p] EXCEPT !.shown = {secret}])
  /\ UNCHANGED <<Files, faults>>

\* list, from the index the session has.
List(p) ==
  /\ At(p, "list")
  /\ Continue(p, [proc[p] EXCEPT !.shown = {proc[p].session.items[i].has["user"] :
                                              i \in Live(proc[p].session)}])
  /\ UNCHANGED <<Files, faults>>

\* export --out -
PrintSnapshot(p) ==
  /\ At(p, "print")
  /\ Continue(p, [proc[p] EXCEPT !.shown = {proc[p].read.items[i].has["pw"] : i \in Live(proc[p].read)}])
  /\ UNCHANGED <<Files, faults>>

\* backup reads the file as it is; migrate only one of version 1, every record of which
\* it decrypts with the password it was given.
ReadFile(p) ==
  /\ At(p, "read_file") \/ At(p, "read_legacy")
  /\ \/ /\ vault.tag # 0
        /\ At(p, "read_legacy") => vault.version = 1 /\ vault.sound /\ out = NoFile
        /\ Continue(p, [proc[p] EXCEPT !.read = vault])
     \/ /\ At(p, "read_legacy") \/ vault.tag = 0
        /\ End(p, proc[p], "error")
  /\ UNCHANGED <<Files, faults>>

-----------------------------------------------------------------------------
(* Writing a file of its own *)

\* path.exists() or symlink_metadata of the output.
OutFree(p) ==
  /\ At(p, "out_free")
  /\ IF out = NoFile THEN Continue(p, proc[p]) ELSE End(p, proc[p], "error")
  /\ UNCHANGED <<Files, faults>>

\* Mutant: the export is opened as any file is.
CreateOutAnyway(p) ==
  /\ At(p, "create_out")
  /\ out' = [what |-> "partial", vault |-> NoVault]
  /\ Continue(p, [proc[p] EXCEPT !.made = TRUE])
  /\ UNCHANGED <<vault, clock, faults>>

\* The exclusive creation of an export ...
CreateOut(p) ==
  /\ At(p, "create_out")
  /\ IF out = NoFile
     THEN /\ out' = [what |-> "partial", vault |-> NoVault]
          /\ Continue(p, [proc[p] EXCEPT !.made = TRUE])
     ELSE End(p, proc[p], "error") /\ UNCHANGED out
  /\ UNCHANGED <<vault, clock, faults>>

\* ... and its text; an error leaves the part that was written.
WriteOut(p) ==
  /\ At(p, "write_out")
  /\ \/ /\ out' = [what |-> "plain", vault |-> proc[p].read]
        /\ Continue(p, proc[p])
        /\ UNCHANGED faults
     \/ /\ faults < MaxFaults /\ faults' = faults + 1
        /\ End(p, proc[p], "error")
        /\ UNCHANGED out
  /\ UNCHANGED <<vault, clock>>

\* atomic_create of a backup or of a migrated vault: complete or not at all, and an
\* error when the directory cannot be synced.
LinkOut(p) ==
  /\ At(p, "link_out")
  /\ \/ /\ out = NoFile
        /\ out' = [what |-> "vault", vault |->
                     [proc[p].read EXCEPT !.version = IF Kind(p) = "migrate" THEN 2 ELSE @]]
        /\ \/ Continue(p, [proc[p] EXCEPT !.made = TRUE]) /\ UNCHANGED faults
           \/ /\ faults < MaxFaults /\ faults' = faults + 1
              /\ End(p, [proc[p] EXCEPT !.made = TRUE], "error")
     \/ /\ out # NoFile \/ faults < MaxFaults
        /\ faults' = IF out # NoFile THEN faults ELSE faults + 1
        /\ End(p, proc[p], "error")
        /\ UNCHANGED out
  /\ UNCHANGED <<vault, clock>>

-----------------------------------------------------------------------------
(* Changing the vault *)

\* init: a vault in the way is moved away, if that was asked for.
MakeWay(p) ==
  /\ At(p, "make_way")
  /\ IF vault.tag # 0 /\ ~Has(p, "force")
     THEN End(p, proc[p], "error") /\ UNCHANGED vault
     ELSE vault' = NoVault /\ Continue(p, proc[p])
  /\ UNCHANGED <<out, clock, faults>>

\* A tombstone keeps the title and the user name of the index, not the record.
Deleted(item) ==
  [item EXCEPT !.live = FALSE, !.has = [f \in Fields |-> IF f = "user" THEN @[f] ELSE Nothing]]

\* The file a command would publish.
Result(p) ==
  LET s == proc[p].session
      i == proc[p].pick
      items == CASE Kind(p) = "init"   -> <<>>
                 [] Kind(p) = "add"    -> Append(s.items, Applied(NewItem, proc[p].patch))
                 [] Kind(p) = "edit"   -> [s.items EXCEPT ![i] = Applied(Picked(p), proc[p].patch)]
                 [] Kind(p) = "rm"     -> [s.items EXCEPT ![i] = Deleted(@)]
                 [] Kind(p) = "rotate" -> s.items
  IN  [tag |-> clock + 1, parent |-> s.tag, version |-> 2, sound |-> TRUE, items |-> items,
       master |-> IF proc[p].master # Nothing THEN proc[p].master ELSE s.master]

\* Mutant: whatever vault is there is replaced.
MaySaveUnchecked(p) == IF At(p, "create") THEN vault.tag = 0 ELSE vault.tag # 0

\* Vault::create for init, otherwise the comparison under the lock.
MaySave(p) == IF At(p, "create") THEN vault.tag = 0 ELSE Current(p)

Saving(p) == At(p, "save") \/ At(p, "create")

\* update_entry: an edit that changes nothing is not saved.
SameAsBefore(p) == Kind(p) = "edit" /\ Applied(Picked(p), proc[p].patch) = Picked(p)

Unchanged(p) ==
  /\ At(p, "save") /\ Current(p) /\ SameAsBefore(p)
  /\ End(p, proc[p], "ok")
  /\ UNCHANGED <<Files, faults>>

Save(p) ==
  /\ Saving(p) /\ MaySave(p) /\ ~SameAsBefore(p)
  /\ vault' = Result(p) /\ clock' = clock + 1
  /\ LET me == [proc[p] EXCEPT !.wrote = Result(p)]
     IN  \/ Continue(p, me) /\ UNCHANGED faults
         \/ faults < MaxFaults /\ faults' = faults + 1 /\ End(p, me, "error")
  /\ UNCHANGED out

\* Another commit, a vault where there was none, or an error before the rename.
SaveFails(p) ==
  /\ Saving(p)
  /\ ~MaySave(p) \/ faults < MaxFaults
  /\ faults' = IF MaySave(p) THEN faults + 1 ELSE faults
  /\ End(p, proc[p], "error")
  /\ UNCHANGED Files

\* --reveal-generated
Reveal(p) ==
  /\ At(p, "reveal")
  /\ Continue(p, [proc[p] EXCEPT !.shown = {proc[p].patch.pw}])
  /\ UNCHANGED <<Files, faults>>

-----------------------------------------------------------------------------
(* The world outside *)

\* Ctrl-C: the process ends between two stages.
Kill(p) ==
  /\ proc[p].todo # <<>> /\ faults < MaxFaults
  /\ faults' = faults + 1
  /\ End(p, proc[p], "killed")
  /\ UNCHANGED Files

\* Another program puts a file where the --out of some command points.
ForeignFile ==
  /\ out = NoFile /\ \E p \in Processes : Kind(p) \in {"export", "backup", "migrate"}
  /\ out' = [what |-> "foreign", vault |-> NoVault]
  /\ UNCHANGED <<vault, clock, proc, faults>>

Ended(p) == proc[p].code # "running"

AllEnded == (\A p \in Processes : Ended(p)) /\ UNCHANGED vars

Step(p) ==
  \/ Flags(p) \/ Exists(p) \/ Unlock(p)
  \/ Username(p) \/ Password(p) \/ TotpKey(p) \/ Generate(p)
  \/ UsernameOrKeep(p) \/ NotesOrKeep(p) \/ PasswordOrKeep(p)
  \/ Confirm(p) \/ NewMaster(p) \/ RepeatMaster(p) \/ AskMaster(p) \/ PromptFails(p)
  \/ Resolve(p) \/ Select(p)
  \/ ReadAgain(p) \/ Deliver(p) \/ List(p) \/ PrintSnapshot(p) \/ ReadFile(p)
  \/ OutFree(p) \/ CreateOut(p) \/ WriteOut(p) \/ LinkOut(p)
  \/ MakeWay(p) \/ Unchanged(p) \/ Save(p) \/ SaveFails(p) \/ Reveal(p)

Next ==
  \/ \E p \in Processes : Start(p) \/ Step(p) \/ InputEnds(p) \/ Kill(p)
  \/ ForeignFile
  \/ AllEnded

Spec == Init /\ [][Next]_vars

\* A command that has nobody to wait for goes on to its next stage.
FairSpec == Spec /\ \A p \in Processes : WF_vars(~InputOpen(p) /\ Step(p))

-----------------------------------------------------------------------------
(* Properties *)

TypeOK ==
  /\ vault \in Vault /\ clock \in Nat /\ faults \in 0 .. MaxFaults
  /\ out \in [what: {"none", "foreign", "partial", "plain", "vault"}, vault: Vault]
  /\ \A p \in Processes :
       LET me == proc[p]
       IN  /\ me.code \in Codes /\ me.input \in {"open", "ended"}
           /\ me.cmd \in Runs[p] \/ me = Idle
           /\ {me.session, me.read, me.wrote} \subseteq Vault
           /\ me.pick \in 0 .. Len(me.session.items)
           /\ me.patch \in [Fields -> Values \cup {Keep}] /\ me.shown \subseteq Values
           /\ me.line \in Masters \cup Weak \cup {Nothing} /\ me.master \in Masters \cup {Nothing}
           /\ me.made \in BOOLEAN
           /\ me.code = "running" <=> me.todo # <<>> \/ me = Idle

Changes == {"init", "add", "edit", "rm", "rotate"}
Creates == {"backup", "migrate"}

\* The exit code says what happened to the files (CLI_REFERENCE, exit codes: "make the
\* tool scriptable").  0: the commit or the output is there, unless an edit changed
\* nothing.  Usage, not found, cancelled: nothing was written.  1: nothing was written
\* either, unless the file system failed after it was.  (init --force may have
\* moved the old vault away in every case.)
ExitCodeTrue ==
  \A p \in Processes :
    LET me == proc[p]
        wrote == me.wrote.tag # 0 \/ me.made
    IN  /\ me.code = "ok" =>
             /\ Kind(p) \in Changes => me.wrote.tag # 0 \/ SameAsBefore(p)
             /\ Kind(p) \in Creates \/ Has(p, "file") => me.made
        /\ me.code \in {"usage", "not_found", "cancelled"} => ~wrote
        /\ me.code = "error" /\ wrote => faults > 0

\* What a command prints, copies or exports comes from the very commit whose titles,
\* user names and ids it resolved and showed, however long its user took to select.
ReadsOneCommit ==
  \A p \in Processes :
    proc[p].read.tag # 0 /\ proc[p].session.tag # 0 => proc[p].read = proc[p].session

\* A command changes what its user saw and chose, and nothing else: whatever other
\* processes committed while it was asking, the other items stay as they are in
\* the file it replaces, the item it edits or deletes is still the one it
\* showed, fields that were kept stay, and a new master password was typed twice.
ChangesWhatWasShown ==
  [][\A p \in Processes :
       proc[p].wrote.tag = 0 /\ proc'[p].wrote.tag # 0 /\ Kind(p) # "init" =>
         LET i == proc[p].pick
         IN  /\ \A j \in DOMAIN vault.items : j # i => vault'.items[j] = vault.items[j]
             /\ i # 0 => vault.items[i] = proc[p].session.items[i]
             /\ Kind(p) = "edit" =>
                  \A f \in Fields : proc[p].patch[f] = Keep =>
                    vault'.items[i].has[f] = vault.items[i].has[f]
             /\ vault'.master # vault.master => vault'.master = proc[p].line]_vars

\* A generated password that was printed is the one the vault has: it is not shown
\* when its save is refused or fails.
RevealedIsStored ==
  \A p \in Processes :
    Generated(p) \in proc[p].shown =>
      \E i \in DOMAIN proc[p].wrote.items : proc[p].wrote.items[i].has["pw"] = Generated(p)

\* Whatever appears at the output's or at a new vault's name is not overwritten, and a
\* vault of version 1 is never written to: it can only be moved away.
NothingReplaced ==
  [][/\ out # NoFile /\ out' # out => \E p \in Processes : proc[p].made /\ out.what = "partial"
     /\ vault'.tag > clock => vault.tag = vault'.parent
     /\ vault.version = 1 => vault' \in {vault, NoVault}]_vars

\* Once its input is at its end a command comes to its own: the loops that ask again
\* (prompt_new_master, interactive_select) take it for an error or for no, never for one
\* more wrong answer.
EndsWithItsInput == \A p \in Processes : ~InputOpen(p) ~> Ended(p)
=============================================================================
