--------------------------- MODULE CommandsProofs ---------------------------
(***************************************************************************)
(* Theorems about module Commands, for every set of processes, of commands *)
(* they may run, of vaults they may find and of values they may be given.  *)
(*                                                                         *)
(* The scripts are what makes a command right: MayFollow says in which     *)
(* order stages come, Belongs in which commands, Covers which of them a    *)
(* command cannot end well without, and ScriptsGood that every script is   *)
(* so.  CommandsFit, the inductive invariant, then says of each process    *)
(* what it knows and has done in terms of the stages that are left to it:  *)
(* nothing before its stage (NotBefore), everything after it (After).      *)
(* Unspread adds where a generated password may be.                        *)
(***************************************************************************)
EXTENDS Commands, SequenceTheorems, TLAPS

-----------------------------------------------------------------------------
(* Scripts *)

Kinds   == {"init", "add", "list", "get", "copy", "totp", "rm", "edit", "rotate", "migrate",
            "export", "backup", "check"}
Writes  == {"save", "create"}
Reads   == {"open", "snapshot", "verify", "read_file", "read_legacy"}
Picks   == {"resolve", "select"}
Twice   == {"new_master", "repeat_master"}
Ends    == {"reveal", "deliver", "list", "print", "write_out", "link_out", "verify"}
Prompts == {"username", "password", "totp_key", "username_or_keep", "notes_or_keep",
            "password_or_keep", "generate"}
Checks  == {"flags", "exists", "confirm", "master", "out_free", "make_way"}
Stage   == Writes \cup Reads \cup Picks \cup Twice \cup Ends \cup Prompts \cup Checks
             \cup {"unlock", "create_out"}

\* Stage b may come later than a in a script.
MayFollow(a, b) ==
  /\ a \notin Ends
  /\ a \in Writes => b = "reveal"
  /\ a = "create_out" => b = "write_out"
  /\ a \in Reads => b \notin Reads \cup Picks \cup {"unlock"}
  /\ a = "unlock" => b # "unlock"
  /\ a \in Picks => b \notin Picks \cup {"unlock"}
  /\ a = "repeat_master" => b \notin Twice

In(stages) == {stages[i] : i \in DOMAIN stages}

InOrder(stages) ==
  /\ stages \in Seq(Stage)
  /\ \A i, j \in DOMAIN stages : i < j => MayFollow(stages[i], stages[j])

\* Two scripts make one, if every stage of the second may follow those of the first.
LEMMA Joined ==
  ASSUME NEW a, NEW b, InOrder(a), InOrder(b),
         \A x \in In(a), y \in In(b) : MayFollow(x, y)
  PROVE  InOrder(a \o b) /\ In(a \o b) = In(a) \cup In(b)
<1>1. /\ a \o b \in Seq(Stage) /\ Len(a \o b) = Len(a) + Len(b)
      /\ \A i \in 1 .. Len(a) + Len(b) : (a \o b)[i] = IF i <= Len(a) THEN a[i] ELSE b[i - Len(a)]
  BY ConcatProperties DEF InOrder
<1>2. /\ DOMAIN a = 1 .. Len(a) /\ DOMAIN b = 1 .. Len(b) /\ DOMAIN (a \o b) = 1 .. Len(a) + Len(b)
      /\ Len(a) \in Nat /\ Len(b) \in Nat
  BY <1>1 DEF InOrder
<1>3. ASSUME NEW i \in DOMAIN (a \o b), NEW j \in DOMAIN (a \o b), i < j
      PROVE  MayFollow((a \o b)[i], (a \o b)[j])
  <2>1. CASE j <= Len(a)
    BY <1>1, <1>2, <1>3, <2>1 DEF InOrder
  <2>2. CASE i > Len(a)
    <3>1. i - Len(a) \in DOMAIN b /\ j - Len(a) \in DOMAIN b /\ i - Len(a) < j - Len(a)
      BY <1>2, <1>3, <2>2
    <3> QED
      BY <1>1, <1>2, <1>3, <2>2, <3>1 DEF InOrder
  <2>3. CASE i <= Len(a) /\ j > Len(a)
    <3>1. i \in DOMAIN a /\ j - Len(a) \in DOMAIN b
      BY <1>2, <1>3, <2>3
    <3> QED
      BY <1>1, <1>2, <1>3, <2>3, <3>1 DEF In
  <2> QED
    BY <1>2, <1>3, <2>1, <2>2, <2>3
<1>4. ASSUME NEW x \in In(a \o b)
      PROVE  x \in In(a) \cup In(b)
  <2>1. PICK i \in DOMAIN (a \o b) : x = (a \o b)[i]
    BY <1>4 DEF In
  <2>2. i \in DOMAIN a \/ i - Len(a) \in DOMAIN b
    BY <1>2, <2>1
  <2> QED
    BY <1>1, <1>2, <2>1, <2>2 DEF In
<1>5. ASSUME NEW x \in In(a)
      PROVE  x \in In(a \o b)
  BY <1>1, <1>2, <1>5 DEF In
<1>6. ASSUME NEW x \in In(b)
      PROVE  x \in In(a \o b)
  <2>1. PICK i \in DOMAIN b : x = b[i]
    BY <1>6 DEF In
  <2>2. i + Len(a) \in DOMAIN (a \o b) /\ (a \o b)[i + Len(a)] = b[i]
    BY <1>1, <1>2
  <2> QED
    BY <2>1, <2>2 DEF In
<1> QED
  BY <1>1, <1>3, <1>4, <1>5, <1>6 DEF InOrder

LEMMA Short ==
  /\ InOrder(<<>>) /\ In(<<>>) = {}
  /\ \A x \in Stage : InOrder(<<x>>) /\ In(<<x>>) = {x}
BY DEF InOrder, In

\* The commands a stage is in the script of.
Picking  == {"get", "copy", "totp", "rm", "edit"}
Opening  == {"get", "copy", "totp", "edit"}
Patching == {"add", "edit"}
NoUnlock == {"init", "backup", "migrate"}

Belongs(cmd, x) ==
  /\ x = "create" => cmd.kind = "init"
  /\ x = "save" => cmd.kind \in Changes \ {"init"}
  /\ x \in Prompts \cup {"reveal"} => cmd.kind \in Patching
  /\ x \in Picks => cmd.kind \in Picking
  /\ x = "open" => cmd.kind \in Opening
  /\ x \in {"deliver"} => cmd.kind \in Opening \ {"edit"}
  /\ x \in {"list", "verify"} => cmd.kind \in {"list", "check"}
  /\ x \in {"read_file", "read_legacy", "link_out"} => cmd.kind \in Creates
  /\ x \in {"snapshot", "print", "create_out", "write_out"} => cmd.kind = "export"
  /\ x = "reveal" => "reveal" \in cmd.opts
  /\ x = "write_out" => "file" \in cmd.opts
  /\ x \in {"password", "password_or_keep"} => "generate" \notin cmd.opts
  /\ x = "unlock" => cmd.kind \notin NoUnlock

\* The stages a command cannot end well without.
Covers(cmd, L) ==
  /\ cmd.kind \in Changes => L \cap Writes # {}
  /\ cmd.kind \in Picking => "resolve" \in L
  /\ cmd.kind \in Opening => "open" \in L
  /\ cmd.kind \in Patching /\ "generate" \in cmd.opts => "generate" \in L
  /\ "new_master" \in L => "repeat_master" \in L
  /\ cmd.kind \in Creates => "link_out" \in L
  /\ cmd.kind = "export" /\ "file" \in cmd.opts => "create_out" \in L

GoodScript(cmd, stages) ==
  /\ InOrder(stages) /\ stages # <<>>
  /\ \A x \in In(stages) : Belongs(cmd, x)
  /\ Covers(cmd, In(stages))

LEMMA KindsOfCommands ==
  ASSUME NEW cmd \in AllCommands
  PROVE  /\ cmd.kind \in Kinds /\ (cmd.kind # "export" => "file" \notin cmd.opts)
         /\ cmd.kind \in Patching /\ "reveal" \in cmd.opts => "generate" \in cmd.opts
<1>1. /\ cmd \in UNION {[kind: {k}, opts: SUBSET Options[k]] : k \in DOMAIN Options}
      /\ cmd.kind \in Patching /\ "reveal" \in cmd.opts => "generate" \in cmd.opts
  BY DEF AllCommands, Patching
<1> QED
  BY <1>1 DEF Options, Kinds


LEMMA AddScriptGood ==
  ASSUME NEW cmd \in AllCommands, cmd.kind = "add"
  PROVE  GoodScript(cmd, Script(cmd))
<1> DEFINE o == cmd.opts
           s1 == When("username" \notin o, "username")
           s2 == <<"exists", "unlock", IF "generate" \in o THEN "generate" ELSE "password">>
           s3 == When("totp" \in o, "totp_key")
           s4 == <<"save">>
           s5 == When("reveal" \in o, "reveal")
<1>1. Script(cmd) = s1 \o s2 \o s3 \o s4 \o s5
  BY DEF Script, AddScript
<1>2. InOrder(s1) /\ In(s1) = IF "username" \notin o THEN {"username"} ELSE {}
  BY Short DEF When, Stage, Writes, Reads, Picks, Twice, Ends, Prompts, Checks
<1>3. InOrder(s2) /\ In(s2) = {"exists", "unlock", IF "generate" \in o THEN "generate" ELSE "password"}
  <2> DEFINE g == IF "generate" \in o THEN "generate" ELSE "password"
  <2>1. g \in {"generate", "password"}
    OBVIOUS
  <2> HIDE DEF g
  <2>2. InOrder(<<"exists", "unlock", g>>) /\ In(<<"exists", "unlock", g>>) = {"exists", "unlock", g}
    BY <2>1 DEF InOrder, In, Stage, Writes, Reads, Picks, Twice, Ends, Prompts, Checks, MayFollow
  <2> QED
    BY <2>2 DEF g
<1>4. InOrder(s3) /\ In(s3) = IF "totp" \in o THEN {"totp_key"} ELSE {}
  BY Short DEF When, Stage, Writes, Reads, Picks, Twice, Ends, Prompts, Checks
<1>5. InOrder(s4) /\ In(s4) = {"save"}
  BY DEF InOrder, In, Stage, Writes, Reads, Picks, Twice, Ends, Prompts, Checks, MayFollow
<1>6. InOrder(s5) /\ In(s5) = IF "reveal" \in o THEN {"reveal"} ELSE {}
  BY Short DEF When, Stage, Writes, Reads, Picks, Twice, Ends, Prompts, Checks
<1> HIDE DEF s1, s2, s3, s4, s5
<1>7. /\ InOrder(s1 \o s2)
      /\ In(s1 \o s2) = In(s1) \cup In(s2)
  BY <1>2, <1>3, Joined DEF MayFollow, Ends, Writes, Reads, Picks, Twice
<1>8. /\ InOrder(s1 \o s2 \o s3)
      /\ In(s1 \o s2 \o s3) = In(s1) \cup In(s2) \cup In(s3)
  BY <1>2, <1>3, <1>4, <1>7, Joined DEF MayFollow, Ends, Writes, Reads, Picks, Twice
<1>9. /\ InOrder(s1 \o s2 \o s3 \o s4)
      /\ In(s1 \o s2 \o s3 \o s4) = In(s1) \cup In(s2) \cup In(s3) \cup In(s4)
  BY <1>2, <1>3, <1>4, <1>5, <1>8, Joined DEF MayFollow, Ends, Writes, Reads, Picks, Twice
<1>10. /\ InOrder(s1 \o s2 \o s3 \o s4 \o s5)
      /\ In(s1 \o s2 \o s3 \o s4 \o s5) = In(s1) \cup In(s2) \cup In(s3) \cup In(s4) \cup In(s5)
  BY <1>2, <1>3, <1>4, <1>5, <1>6, <1>9, Joined DEF MayFollow, Ends, Writes, Reads, Picks, Twice
<1>11. Script(cmd) # <<>>
  BY <1>1, <1>2, <1>3, <1>4, <1>5, <1>6, <1>10, Short
<1>12. ASSUME NEW x \in In(Script(cmd))
      PROVE  Belongs(cmd, x)
  <2>1. \/ x \in {"username", "exists", "unlock", "save"}
        \/ x = "generate"
        \/ x = "password" /\ "generate" \notin o
        \/ x = "totp_key"
        \/ x = "reveal" /\ "reveal" \in o
    BY <1>1, <1>2, <1>3, <1>4, <1>5, <1>6, <1>10, <1>12
  <2> QED
    BY <2>1 DEF Belongs, Changes, Writes, Picking, Opening, Creates, Prompts, Picks,
       NoUnlock, Patching
<1>13. Covers(cmd, In(Script(cmd)))
  <2> DEFINE L == In(Script(cmd))
  <2>1. /\ "save" \in L /\ ("generate" \in o => "generate" \in L)
        /\ "new_master" \notin L
    BY <1>1, <1>2, <1>3, <1>4, <1>5, <1>6, <1>10
  <2> HIDE DEF L
  <2>2. Covers(cmd, L)
    BY <2>1 DEF Covers, Changes, Writes, Picking, Opening, Creates, Patching
  <2> QED
    BY <2>2 DEF L
<1> QED
  BY <1>1, <1>10, <1>11, <1>12, <1>13 DEF GoodScript

LEMMA InitScriptGood ==
  ASSUME NEW cmd \in AllCommands, cmd.kind = "init"
  PROVE  GoodScript(cmd, Script(cmd))
<1> DEFINE s == <<"make_way", "new_master", "repeat_master", "create">>
<1>1. InOrder(s) /\ In(s) = {"make_way", "new_master", "repeat_master", "create"}
  BY DEF InOrder, In, Stage, Writes, Reads, Picks, Twice, Ends, Prompts, Checks, MayFollow
<1>2. Script(cmd) = s /\ s # <<>>
  BY DEF Script, InitScript
<1> QED
  BY <1>1, <1>2 DEF GoodScript, Belongs, Covers, Changes, Writes, Picking, Opening,
     Creates, Prompts, Picks, NoUnlock, Patching

LEMMA ListScriptGood ==
  ASSUME NEW cmd \in AllCommands, cmd.kind = "list"
  PROVE  GoodScript(cmd, Script(cmd))
<1> DEFINE s == <<"exists", "unlock", "list">>
<1>1. InOrder(s) /\ In(s) = {"exists", "unlock", "list"}
  BY DEF InOrder, In, Stage, Writes, Reads, Picks, Twice, Ends, Prompts, Checks, MayFollow
<1>2. Script(cmd) = s /\ s # <<>>
  BY DEF Script, ListScript
<1> QED
  BY <1>1, <1>2 DEF GoodScript, Belongs, Covers, Changes, Writes, Picking, Opening,
     Creates, Prompts, Picks, NoUnlock, Patching

LEMMA CheckScriptGood ==
  ASSUME NEW cmd \in AllCommands, cmd.kind = "check"
  PROVE  GoodScript(cmd, Script(cmd))
<1> DEFINE s == <<"exists", "unlock", "verify">>
<1>1. InOrder(s) /\ In(s) = {"exists", "unlock", "verify"}
  BY DEF InOrder, In, Stage, Writes, Reads, Picks, Twice, Ends, Prompts, Checks, MayFollow
<1>2. Script(cmd) = s /\ s # <<>>
  BY DEF Script, CheckScript
<1> QED
  BY <1>1, <1>2 DEF GoodScript, Belongs, Covers, Changes, Writes, Picking, Opening,
     Creates, Prompts, Picks, NoUnlock, Patching

LEMMA BackupScriptGood ==
  ASSUME NEW cmd \in AllCommands, cmd.kind = "backup"
  PROVE  GoodScript(cmd, Script(cmd))
<1> DEFINE s == <<"exists", "out_free", "read_file", "link_out">>
<1>1. InOrder(s) /\ In(s) = {"exists", "out_free", "read_file", "link_out"}
  BY DEF InOrder, In, Stage, Writes, Reads, Picks, Twice, Ends, Prompts, Checks, MayFollow
<1>2. Script(cmd) = s /\ s # <<>>
  BY DEF Script, BackupScript
<1> QED
  BY <1>1, <1>2 DEF GoodScript, Belongs, Covers, Changes, Writes, Picking, Opening,
     Creates, Prompts, Picks, NoUnlock, Patching

Delivery == <<"exists", "unlock", "resolve", "open", "deliver">>

LEMMA DeliveryGood ==
  /\ InOrder(Delivery) /\ Delivery # <<>>
  /\ In(Delivery) = {"exists", "unlock", "resolve", "open", "deliver"}
BY DEF InOrder, In, Delivery, Stage, Writes, Reads, Picks, Twice, Ends, Prompts, Checks, MayFollow

LEMMA GetScriptGood ==
  ASSUME NEW cmd \in AllCommands, cmd.kind = "get"
  PROVE  GoodScript(cmd, Script(cmd))
<1>1. Script(cmd) = Delivery
  BY DEF Script, GetScript, Delivery
<1> QED
  BY <1>1, DeliveryGood DEF GoodScript, Belongs, Covers, Changes, Writes, Picking, Opening,
     Creates, Prompts, Picks, NoUnlock, Patching

LEMMA CopyScriptGood ==
  ASSUME NEW cmd \in AllCommands, cmd.kind = "copy"
  PROVE  GoodScript(cmd, Script(cmd))
<1>1. Script(cmd) = Delivery
  BY DEF Script, CopyScript, Delivery
<1> QED
  BY <1>1, DeliveryGood DEF GoodScript, Belongs, Covers, Changes, Writes, Picking, Opening,
     Creates, Prompts, Picks, NoUnlock, Patching

LEMMA TotpScriptGood ==
  ASSUME NEW cmd \in AllCommands, cmd.kind = "totp"
  PROVE  GoodScript(cmd, Script(cmd))
<1>1. Script(cmd) = Delivery
  BY DEF Script, TotpScript, Delivery
<1> QED
  BY <1>1, DeliveryGood DEF GoodScript, Belongs, Covers, Changes, Writes, Picking, Opening,
     Creates, Prompts, Picks, NoUnlock, Patching

LEMMA RmScriptGood ==
  ASSUME NEW cmd \in AllCommands, cmd.kind = "rm"
  PROVE  GoodScript(cmd, Script(cmd))
<1> DEFINE o == cmd.opts
           s1 == <<"exists", "unlock", "resolve">>
           s2 == When("purge" \notin o, "confirm")
           s3 == <<"save">>
<1>1. Script(cmd) = s1 \o s2 \o s3
  BY DEF Script, RmScript
<1>2. InOrder(s1) /\ In(s1) = {"exists", "unlock", "resolve"}
  BY DEF InOrder, In, Stage, Writes, Reads, Picks, Twice, Ends, Prompts, Checks, MayFollow
<1>3. InOrder(s2) /\ In(s2) = IF "purge" \notin o THEN {"confirm"} ELSE {}
  BY Short DEF When, Stage, Writes, Reads, Picks, Twice, Ends, Prompts, Checks
<1>4. InOrder(s3) /\ In(s3) = {"save"}
  BY DEF InOrder, In, Stage, Writes, Reads, Picks, Twice, Ends, Prompts, Checks, MayFollow
<1> HIDE DEF s1, s2, s3
<1>5. /\ InOrder(s1 \o s2)
      /\ In(s1 \o s2) = In(s1) \cup In(s2)
  BY <1>2, <1>3, Joined DEF MayFollow, Ends, Writes, Reads, Picks, Twice
<1>6. /\ InOrder(s1 \o s2 \o s3)
      /\ In(s1 \o s2 \o s3) = In(s1) \cup In(s2) \cup In(s3)
  BY <1>2, <1>3, <1>4, <1>5, Joined DEF MayFollow, Ends, Writes, Reads, Picks, Twice
<1>7. Script(cmd) # <<>>
  BY <1>1, <1>2, <1>3, <1>4, <1>6, Short
<1>8. ASSUME NEW x \in In(Script(cmd))
      PROVE  Belongs(cmd, x)
  BY <1>1, <1>2, <1>3, <1>4, <1>6, <1>8
     DEF Belongs, Changes, Writes, Picking, Opening, Creates, Prompts, Picks,
     NoUnlock, Patching
<1>9. Covers(cmd, In(Script(cmd)))
  BY <1>1, <1>2, <1>3, <1>4, <1>6
     DEF Covers, Changes, Writes, Picking, Opening, Creates, Prompts, Picks,
     NoUnlock, Patching
<1> QED
  BY <1>1, <1>6, <1>7, <1>8, <1>9 DEF GoodScript

LEMMA EditScriptGood ==
  ASSUME NEW cmd \in AllCommands, cmd.kind = "edit"
  PROVE  GoodScript(cmd, Script(cmd))
<1> DEFINE o == cmd.opts
           s1 == <<"exists", "unlock", "resolve", "open">>
           s2 == When("username" \notin o, "username_or_keep")
           s3 == When({"notes", "bare_notes"} \cap o = {}, "notes_or_keep")
           s4 == <<IF "generate" \in o THEN "generate" ELSE "password_or_keep">>
           s5 == When("totp" \in o, "totp_key")
           s6 == <<"save">>
           s7 == When("reveal" \in o, "reveal")
<1>1. Script(cmd) = s1 \o s2 \o s3 \o s4 \o s5 \o s6 \o s7
  BY DEF Script, EditScript
<1>2. InOrder(s1) /\ In(s1) = {"exists", "unlock", "resolve", "open"}
  BY DEF InOrder, In, Stage, Writes, Reads, Picks, Twice, Ends, Prompts, Checks, MayFollow
<1>3. InOrder(s2) /\ In(s2) = IF "username" \notin o THEN {"username_or_keep"} ELSE {}
  BY Short DEF When, Stage, Writes, Reads, Picks, Twice, Ends, Prompts, Checks
<1>4. InOrder(s3) /\ In(s3) = IF {"notes", "bare_notes"} \cap o = {} THEN {"notes_or_keep"} ELSE {}
  BY Short DEF When, Stage, Writes, Reads, Picks, Twice, Ends, Prompts, Checks
<1>5. InOrder(s4) /\ In(s4) = {IF "generate" \in o THEN "generate" ELSE "password_or_keep"}
  BY Short DEF Stage, Writes, Reads, Picks, Twice, Ends, Prompts, Checks
<1>6. InOrder(s5) /\ In(s5) = IF "totp" \in o THEN {"totp_key"} ELSE {}
  BY Short DEF When, Stage, Writes, Reads, Picks, Twice, Ends, Prompts, Checks
<1>7. InOrder(s6) /\ In(s6) = {"save"}
  BY DEF InOrder, In, Stage, Writes, Reads, Picks, Twice, Ends, Prompts, Checks, MayFollow
<1>8. InOrder(s7) /\ In(s7) = IF "reveal" \in o THEN {"reveal"} ELSE {}
  BY Short DEF When, Stage, Writes, Reads, Picks, Twice, Ends, Prompts, Checks
<1> HIDE DEF s1, s2, s3, s4, s5, s6, s7
<1>9. /\ InOrder(s1 \o s2)
      /\ In(s1 \o s2) = In(s1) \cup In(s2)
  BY <1>2, <1>3, Joined DEF MayFollow, Ends, Writes, Reads, Picks, Twice
<1>10. /\ InOrder(s1 \o s2 \o s3)
      /\ In(s1 \o s2 \o s3) = In(s1) \cup In(s2) \cup In(s3)
  BY <1>2, <1>3, <1>4, <1>9, Joined DEF MayFollow, Ends, Writes, Reads, Picks, Twice
<1>11. /\ InOrder(s1 \o s2 \o s3 \o s4)
      /\ In(s1 \o s2 \o s3 \o s4) = In(s1) \cup In(s2) \cup In(s3) \cup In(s4)
  BY <1>2, <1>3, <1>4, <1>5, <1>10, Joined DEF MayFollow, Ends, Writes, Reads, Picks, Twice
<1>12. /\ InOrder(s1 \o s2 \o s3 \o s4 \o s5)
      /\ In(s1 \o s2 \o s3 \o s4 \o s5) = In(s1) \cup In(s2) \cup In(s3) \cup In(s4) \cup In(s5)
  BY <1>2, <1>3, <1>4, <1>5, <1>6, <1>11, Joined DEF MayFollow, Ends, Writes, Reads, Picks, Twice
<1>13. /\ InOrder(s1 \o s2 \o s3 \o s4 \o s5 \o s6)
      /\ In(s1 \o s2 \o s3 \o s4 \o s5 \o s6) = In(s1) \cup In(s2) \cup In(s3) \cup In(s4) \cup In(s5) \cup In(s6)
  BY <1>2, <1>3, <1>4, <1>5, <1>6, <1>7, <1>12, Joined
     DEF MayFollow, Ends, Writes, Reads, Picks, Twice
<1>14. /\ InOrder(s1 \o s2 \o s3 \o s4 \o s5 \o s6 \o s7)
      /\ In(s1 \o s2 \o s3 \o s4 \o s5 \o s6 \o s7) = In(s1) \cup In(s2) \cup In(s3) \cup In(s4) \cup In(s5) \cup In(s6) \cup In(s7)
  BY <1>2, <1>3, <1>4, <1>5, <1>6, <1>7, <1>8, <1>13, Joined
     DEF MayFollow, Ends, Writes, Reads, Picks, Twice
<1>15. Script(cmd) # <<>>
  BY <1>1, <1>2, <1>3, <1>4, <1>5, <1>6, <1>7, <1>8, <1>14, Short
<1>16. ASSUME NEW x \in In(Script(cmd))
      PROVE  Belongs(cmd, x)
  BY <1>1, <1>2, <1>3, <1>4, <1>5, <1>6, <1>7, <1>8, <1>14, <1>16
     DEF Belongs, Changes, Writes, Picking, Opening, Creates, Prompts, Picks,
     NoUnlock, Patching
<1>17. Covers(cmd, In(Script(cmd)))
  <2>1. {"resolve", "open", "save"} \subseteq In(Script(cmd))
    BY <1>1, <1>2, <1>3, <1>4, <1>5, <1>6, <1>7, <1>8, <1>14
  <2>2. "new_master" \notin In(Script(cmd)) /\ ("generate" \in o => "generate" \in In(Script(cmd)))
    BY <1>1, <1>2, <1>3, <1>4, <1>5, <1>6, <1>7, <1>8, <1>14
  <2> QED
    BY <2>1, <2>2 DEF Covers, Changes, Writes, Picking, Opening, Creates, Prompts, Picks,
     NoUnlock, Patching
<1> QED
  BY <1>1, <1>14, <1>15, <1>16, <1>17 DEF GoodScript

LEMMA RotateScriptGood ==
  ASSUME NEW cmd \in AllCommands, cmd.kind = "rotate"
  PROVE  GoodScript(cmd, Script(cmd))
<1> DEFINE o == cmd.opts
           s1 == <<"exists", "unlock">>
           s2 == IF "new_password" \in o THEN <<"new_master", "repeat_master">> ELSE <<>>
           s3 == <<"save">>
<1>1. Script(cmd) = s1 \o s2 \o s3
  BY DEF Script, RotateScript
<1>2. InOrder(s1) /\ In(s1) = {"exists", "unlock"}
  BY DEF InOrder, In, Stage, Writes, Reads, Picks, Twice, Ends, Prompts, Checks, MayFollow
<1>3. InOrder(s2) /\ In(s2) \in {{}, {"new_master", "repeat_master"}}
  <2>1. /\ InOrder(<<"new_master", "repeat_master">>)
        /\ In(<<"new_master", "repeat_master">>) = {"new_master", "repeat_master"}
    BY DEF InOrder, In, Stage, Writes, Reads, Picks, Twice, Ends, Prompts, Checks, MayFollow
  <2> QED
    BY <2>1, Short
<1>4. InOrder(s3) /\ In(s3) = {"save"}
  BY DEF InOrder, In, Stage, Writes, Reads, Picks, Twice, Ends, Prompts, Checks, MayFollow
<1> HIDE DEF s1, s2, s3
<1>5. /\ InOrder(s1 \o s2)
      /\ In(s1 \o s2) = In(s1) \cup In(s2)
  BY <1>2, <1>3, Joined DEF MayFollow, Ends, Writes, Reads, Picks, Twice
<1>6. /\ InOrder(s1 \o s2 \o s3)
      /\ In(s1 \o s2 \o s3) = In(s1) \cup In(s2) \cup In(s3)
  BY <1>2, <1>3, <1>4, <1>5, Joined DEF MayFollow, Ends, Writes, Reads, Picks, Twice
<1>7. Script(cmd) # <<>>
  BY <1>1, <1>2, <1>3, <1>4, <1>6, Short
<1>8. ASSUME NEW x \in In(Script(cmd))
      PROVE  Belongs(cmd, x)
  BY <1>1, <1>2, <1>3, <1>4, <1>6, <1>8
     DEF Belongs, Changes, Writes, Picking, Opening, Creates, Prompts, Picks,
     NoUnlock, Patching
<1>9. Covers(cmd, In(Script(cmd)))
  <2>1. "save" \in In(Script(cmd))
    BY <1>1, <1>2, <1>3, <1>4, <1>6
  <2>2. "new_master" \in In(Script(cmd)) => "repeat_master" \in In(Script(cmd))
    BY <1>1, <1>2, <1>3, <1>4, <1>6
  <2> QED
    BY <2>1, <2>2 DEF Covers, Changes, Writes, Picking, Opening, Creates, Prompts, Picks,
     NoUnlock, Patching
<1> QED
  BY <1>1, <1>6, <1>7, <1>8, <1>9 DEF GoodScript

LEMMA ExportScriptGood ==
  ASSUME NEW cmd \in AllCommands, cmd.kind = "export"
  PROVE  GoodScript(cmd, Script(cmd))
<1> DEFINE o == cmd.opts
           s1 == <<"flags", "exists", "unlock", "snapshot">>
           s2 == IF "file" \in o THEN <<"out_free", "create_out", "write_out">> ELSE <<"print">>
<1>1. Script(cmd) = s1 \o s2
  BY DEF Script, ExportScript
<1>2. InOrder(s1) /\ In(s1) = {"flags", "exists", "unlock", "snapshot"}
  BY DEF InOrder, In, Stage, Writes, Reads, Picks, Twice, Ends, Prompts, Checks, MayFollow
<1>3. /\ InOrder(s2)
      /\ In(s2) = IF "file" \in o THEN {"out_free", "create_out", "write_out"} ELSE {"print"}
  <2>1. /\ InOrder(<<"out_free", "create_out", "write_out">>)
        /\ In(<<"out_free", "create_out", "write_out">>) = {"out_free", "create_out", "write_out"}
        /\ InOrder(<<"print">>) /\ In(<<"print">>) = {"print"}
    BY DEF InOrder, In, Stage, Writes, Reads, Picks, Twice, Ends, Prompts, Checks, MayFollow
  <2> QED
    BY <2>1
<1> HIDE DEF s1, s2
<1>4. /\ InOrder(s1 \o s2)
      /\ In(s1 \o s2) = In(s1) \cup In(s2)
  BY <1>2, <1>3, Joined DEF MayFollow, Ends, Writes, Reads, Picks, Twice
<1>5. Script(cmd) # <<>>
  BY <1>1, <1>2, <1>3, <1>4, Short
<1>6. ASSUME NEW x \in In(Script(cmd))
      PROVE  Belongs(cmd, x)
  BY <1>1, <1>2, <1>3, <1>4, <1>6
     DEF Belongs, Changes, Writes, Picking, Opening, Creates, Prompts, Picks,
     NoUnlock, Patching
<1>7. Covers(cmd, In(Script(cmd)))
  BY <1>1, <1>2, <1>3, <1>4 DEF Covers, Changes, Writes, Picking, Opening, Creates, Prompts, Picks,
     NoUnlock, Patching
<1> QED
  BY <1>1, <1>4, <1>5, <1>6, <1>7 DEF GoodScript

LEMMA MigrateScriptGood ==
  ASSUME NEW cmd \in AllCommands, cmd.kind = "migrate"
  PROVE  GoodScript(cmd, Script(cmd))
<1> DEFINE o == cmd.opts
           s1 == <<"flags", "out_free", "exists">>
           s2 == <<"master", "read_legacy", "link_out">>
<1>1. Script(cmd) = s1 \o s2
  BY DEF Script, MigrateScript
<1>2. InOrder(s1) /\ In(s1) = {"flags", "out_free", "exists"}
  BY DEF InOrder, In, Stage, Writes, Reads, Picks, Twice, Ends, Prompts, Checks, MayFollow
<1>3. InOrder(s2) /\ In(s2) = {"master", "read_legacy", "link_out"}
  BY DEF InOrder, In, Stage, Writes, Reads, Picks, Twice, Ends, Prompts, Checks, MayFollow
<1> HIDE DEF s1, s2
<1>4. /\ InOrder(s1 \o s2)
      /\ In(s1 \o s2) = In(s1) \cup In(s2)
  BY <1>2, <1>3, Joined DEF MayFollow, Ends, Writes, Reads, Picks, Twice
<1>5. Script(cmd) # <<>>
  BY <1>1, <1>2, <1>3, <1>4, Short
<1>6. ASSUME NEW x \in In(Script(cmd))
      PROVE  Belongs(cmd, x)
  BY <1>1, <1>2, <1>3, <1>4, <1>6
     DEF Belongs, Changes, Writes, Picking, Opening, Creates, Prompts, Picks,
     NoUnlock, Patching
<1>7. Covers(cmd, In(Script(cmd)))
  BY <1>1, <1>2, <1>3, <1>4 DEF Covers, Changes, Writes, Picking, Opening, Creates, Prompts, Picks,
     NoUnlock, Patching
<1> QED
  BY <1>1, <1>4, <1>5, <1>6, <1>7 DEF GoodScript

LEMMA ScriptsGood ==
  ASSUME NEW cmd \in AllCommands
  PROVE  GoodScript(cmd, Script(cmd))
BY KindsOfCommands, AddScriptGood, InitScriptGood, ListScriptGood, CheckScriptGood, BackupScriptGood,
   GetScriptGood, CopyScriptGood, TotpScriptGood, RmScriptGood, EditScriptGood, RotateScriptGood,
   ExportScriptGood, MigrateScriptGood DEF Kinds

\* What is left of a script after its first stage.
LEMMA Rest ==
  ASSUME NEW todo, InOrder(todo), todo # <<>>
  PROVE  /\ InOrder(Tail(todo)) /\ Head(todo) \in Stage
         /\ In(todo) = In(Tail(todo)) \cup {Head(todo)}
         /\ \A x \in In(Tail(todo)) : MayFollow(Head(todo), x)
         /\ Len(todo) = 1 <=> Tail(todo) = <<>>
         /\ Tail(todo) = <<>> <=> In(Tail(todo)) = {}
<1>1. /\ todo \in Seq(Stage) /\ Len(todo) \in Nat \ {0} /\ DOMAIN todo = 1 .. Len(todo)
      /\ Head(todo) = todo[1] /\ Tail(todo) \in Seq(Stage) /\ Len(Tail(todo)) = Len(todo) - 1
      /\ DOMAIN Tail(todo) = 1 .. Len(todo) - 1
      /\ \A i \in 1 .. Len(todo) - 1 : Tail(todo)[i] = todo[i + 1]
  BY EmptySeq, HeadTailProperties DEF InOrder
<1>2. InOrder(Tail(todo))
  <2>1. ASSUME NEW i \in DOMAIN Tail(todo), NEW j \in DOMAIN Tail(todo), i < j
        PROVE  MayFollow(Tail(todo)[i], Tail(todo)[j])
    <3>1. i + 1 \in DOMAIN todo /\ j + 1 \in DOMAIN todo /\ i + 1 < j + 1
      BY <1>1, <2>1
    <3> QED
      BY <1>1, <2>1, <3>1 DEF InOrder
  <2> QED
    BY <1>1, <2>1 DEF InOrder
<1>3. \A x \in In(Tail(todo)) : x \in In(todo) /\ MayFollow(Head(todo), x)
  <2>1. ASSUME NEW i \in DOMAIN Tail(todo)
        PROVE  Tail(todo)[i] \in In(todo) /\ MayFollow(Head(todo), Tail(todo)[i])
    <3>1. 1 \in DOMAIN todo /\ i + 1 \in DOMAIN todo /\ 1 < i + 1 /\ Tail(todo)[i] = todo[i + 1]
      BY <1>1, <2>1
    <3> QED
      BY <1>1, <3>1 DEF InOrder, In
  <2> QED
    BY <2>1 DEF In
<1>4. \A x \in In(todo) : x = Head(todo) \/ x \in In(Tail(todo))
  <2>1. ASSUME NEW i \in DOMAIN todo, i # 1
        PROVE  todo[i] \in In(Tail(todo))
    <3>1. i - 1 \in DOMAIN Tail(todo) /\ Tail(todo)[i - 1] = todo[i]
      BY <1>1, <2>1
    <3> QED
      BY <3>1 DEF In
  <2> QED
    BY <1>1, <2>1 DEF In
<1>5. Head(todo) \in In(todo) /\ Head(todo) \in Stage
  <2>1. 1 \in DOMAIN todo
    BY <1>1
  <2> QED
    BY <1>1, <2>1 DEF In
<1>6. Len(todo) = 1 <=> Tail(todo) = <<>>
  <2>1. Tail(todo) # <<>> => Len(Tail(todo)) # 0
    BY <1>1, EmptySeq
  <2>2. Tail(todo) = <<>> => Len(Tail(todo)) = 0
    BY EmptySeq, Zenon
  <2>3. Len(todo) = 1 <=> Len(Tail(todo)) = 0
    BY <1>1
  <2> QED
    BY <2>1, <2>2, <2>3
<1>7. Tail(todo) = <<>> <=> In(Tail(todo)) = {}
  <2>1. CASE Tail(todo) = <<>>
    BY <2>1, Short
  <2>2. CASE Tail(todo) # <<>>
    <3>1. 1 \in DOMAIN Tail(todo)
      BY <1>1, <1>6, <2>2
    <3> QED
      BY <2>2, <3>1 DEF In
  <2> QED
    BY <2>1, <2>2
<1> QED
  BY <1>2, <1>3, <1>4, <1>5, <1>6, <1>7

-----------------------------------------------------------------------------
(* What a process knows and has done *)

Process == [cmd: AllCommands \cup {Idle.cmd}, todo: Seq(Stage), code: Codes, input: {"open", "ended"},
            session: Vault, read: Vault, pick: Nat, patch: [Fields -> Values \cup {Keep}],
            line: Masters \cup Weak \cup {Nothing}, master: Masters \cup {Nothing},
            shown: SUBSET Values, wrote: Vault, made: BOOLEAN]

Outputs == [what: {"none", "foreign", "partial", "plain", "vault"}, vault: Vault]

Typed ==
  /\ vault \in Vault /\ clock \in Nat /\ faults \in 0 .. MaxFaults /\ out \in Outputs
  /\ proc \in [Processes -> Process]

\* The record a picked item was opened with and the one it is saved with are the same.
SameRecord(me) ==
  me.cmd.kind = "edit" /\ Applied(me.read.items[me.pick], me.patch) = me.read.items[me.pick]

\* Nothing is known or done before its stage, L being the stages that are left ...
NotBefore(me, L) ==
  /\ "unlock" \in L \/ me.cmd.kind \in NoUnlock \cup {"none"} => me.session = NoVault
  /\ me.pick # 0 => /\ L \cap (Picks \cup {"unlock"}) = {} /\ me.cmd.kind \in Picking
                    /\ me.pick \in DOMAIN me.session.items
  /\ me.read.tag # 0 => L \cap (Reads \cup Picks \cup {"unlock"}) = {}
  /\ me.read.tag # 0 /\ me.session.tag # 0 => me.read = me.session
  /\ me.master # Nothing => me.master = me.line /\ L \cap Twice = {}
  /\ me.wrote.tag # 0 => L \subseteq {"reveal"} /\ me.cmd.kind \in Changes
  /\ me.made => L \subseteq {"write_out"} /\ me.cmd.kind \in Creates \cup {"export"}
  /\ me.shown # {} => L = {}

\* ... and after it, it is.
After(p, me, L) ==
  /\ me.cmd.kind \in Picking /\ L \cap Picks = {} => me.pick # 0
  /\ me.cmd.kind \in Opening /\ "open" \notin L =>
       me.read = me.session /\ me.session.tag # 0
  /\ me.cmd.kind \in Patching /\ "generate" \in me.cmd.opts /\ "generate" \notin L =>
       me.patch.pw = Generated(p)
  /\ me.cmd.kind \in Changes /\ L \cap Writes = {} =>
       me.wrote.tag # 0 \/ (me.code = "ok" /\ SameRecord(me))
  /\ "new_master" \in L => "repeat_master" \in L
  /\ me.cmd.kind \in Creates /\ "link_out" \notin L => me.made
  /\ me.cmd.kind = "export" /\ "file" \in me.cmd.opts /\ "create_out" \notin L => me.made

Facts(p, me) ==
  LET L == In(me.todo)
  IN  /\ InOrder(me.todo)
      /\ \A x \in L : Belongs(me.cmd, x)
      /\ me.cmd.kind = "none" => me = Idle
      /\ me.code = "running" <=> L # {} \/ me.cmd.kind = "none"
      /\ NotBefore(me, L)
      /\ me.code \in {"running", "ok"} => After(p, me, L)
      /\ me.code \in {"usage", "not_found", "cancelled"} => me.wrote.tag = 0 /\ ~me.made

\* All but the course of the script.
SameDoings(new, old) ==
  /\ new.cmd = old.cmd /\ new.session = old.session /\ new.read = old.read /\ new.pick = old.pick
  /\ new.patch = old.patch /\ new.line = old.line /\ new.master = old.master
  /\ new.shown = old.shown /\ new.wrote = old.wrote /\ new.made = old.made

OthersStay(p) == \A q \in Processes \ {p} : proc'[q] = proc[q]

LEMMA ContinueParts ==
  ASSUME Typed, NEW p \in Processes, NEW me \in Process, InOrder(me.todo), me.todo # <<>>,
         Continue(p, me)
  PROVE  /\ proc' \in [Processes -> Process] /\ OthersStay(p)
         /\ SameDoings(proc'[p], me)
         /\ proc'[p].todo = Tail(me.todo)
         /\ proc'[p].code = IF In(Tail(me.todo)) = {} THEN "ok" ELSE "running"
<1> DEFINE new == [me EXCEPT !.todo = Tail(@),
                             !.code = IF Len(me.todo) = 1 THEN "ok" ELSE "running"]
<1>1. new \in Process
  <2>1. Tail(me.todo) \in Seq(Stage)
    BY Rest DEF InOrder
  <2>2. "ok" \in Codes /\ "running" \in Codes
    BY DEF Codes
  <2> QED
    BY <2>1, <2>2 DEF Process
<1>2. proc' = [proc EXCEPT ![p] = new]
  BY DEF Continue
<1>3. SameDoings(new, me) /\ new.todo = Tail(me.todo)
      /\ new.code = IF Len(me.todo) = 1 THEN "ok" ELSE "running"
  BY DEF SameDoings, Process
<1> HIDE DEF new
<1> QED
  BY <1>1, <1>2, <1>3, Rest DEF Typed, OthersStay

LEMMA EndParts ==
  ASSUME Typed, NEW p \in Processes, NEW me \in Process, NEW code \in Codes, End(p, me, code)
  PROVE  /\ proc' \in [Processes -> Process] /\ OthersStay(p)
         /\ SameDoings(proc'[p], me) /\ proc'[p].todo = <<>> /\ proc'[p].code = code
<1> DEFINE new == [me EXCEPT !.todo = <<>>, !.code = code]
<1>1. new \in Process
  <2>1. <<>> \in Seq(Stage)
    OBVIOUS
  <2> QED
    BY <2>1 DEF Process
<1>2. proc' = [proc EXCEPT ![p] = new]
  BY DEF End
<1>3. SameDoings(new, me) /\ new.todo = <<>> /\ new.code = code
  BY DEF SameDoings, Process
<1> HIDE DEF new
<1> QED
  BY <1>1, <1>2, <1>3 DEF Typed, OthersStay

\* A stage after which nothing more is known or done than before.
Quiet == Prompts \cup Checks \cup {"new_master"}

LEMMA QuietFacts ==
  ASSUME NEW p, NEW me, NEW new, Facts(p, me), me.todo # <<>>, Head(me.todo) \in Quiet,
         new.todo = Tail(me.todo), new.code = IF In(Tail(me.todo)) = {} THEN "ok" ELSE "running",
         new.cmd = me.cmd, new.session = me.session, new.read = me.read, new.pick = me.pick,
         new.master = me.master, new.line = me.line \/ Head(me.todo) = "new_master",
         new.shown = me.shown, new.wrote = me.wrote, new.made = me.made,
         \/ new.patch.pw = me.patch.pw /\ Head(me.todo) # "generate"
         \/ Head(me.todo) = "generate" /\ new.patch.pw = Generated(p)
         \/ Head(me.todo) \in {"password", "password_or_keep"}
  PROVE  Facts(p, new)
<1>1. /\ InOrder(new.todo) /\ In(new.todo) \subseteq In(me.todo)
      /\ In(me.todo) = In(new.todo) \cup {Head(me.todo)}
      /\ new.todo = <<>> <=> In(new.todo) = {}
  BY Rest DEF Facts
<1>2. NotBefore(new, In(new.todo))
  BY <1>1 DEF Facts, NotBefore, Quiet, Prompts, Checks, Twice
<1>3. me.cmd.kind # "none"
  BY DEF Facts, Idle
<1>4. After(p, new, In(new.todo))
  <2>1. In(me.todo) # {}
    BY <1>1
  <2>2. After(p, me, In(me.todo)) /\ me.code = "running"
    BY <2>1 DEF Facts
  <2>3. Head(me.todo) \in {"password", "password_or_keep"} => "generate" \notin me.cmd.opts
    BY <1>1 DEF Facts, Belongs
  <2>4. Head(me.todo) \notin Picks \cup Writes \cup {"open", "link_out", "create_out", "repeat_master"}
    BY DEF Quiet, Prompts, Checks, Picks, Writes
  <2> QED
    BY <1>1, <2>2, <2>3, <2>4 DEF After
<1>5. new.code \in {"running", "ok"} /\ (new.code = "running" <=> In(new.todo) # {})
  BY <1>1
<1> QED
  BY <1>1, <1>2, <1>3, <1>4, <1>5 DEF Facts

\* Whatever ends a script early leaves the file and the output as they are.
LEMMA EndFacts ==
  ASSUME NEW p, NEW me, NEW new, Facts(p, me), me.todo # <<>>, SameDoings(new, me),
         new.todo = <<>>, new.code \in Codes \ {"running", "ok"},
         new.code \in {"usage", "not_found", "cancelled"} => Head(me.todo) \notin {"reveal", "write_out"}
  PROVE  /\ Facts(p, new)
         /\ Head(me.todo) \notin {"reveal", "write_out"} => new.wrote.tag = 0 /\ ~new.made
<1>1. InOrder(new.todo) /\ In(new.todo) = {} /\ Head(me.todo) \in In(me.todo)
  BY Short, Rest DEF Facts
<1>2. new.cmd.kind # "none"
  BY DEF Facts, Idle, SameDoings
<1>3. Head(me.todo) \notin {"reveal", "write_out"} => new.wrote.tag = 0 /\ ~new.made
  BY <1>1 DEF Facts, NotBefore, SameDoings
<1>4. NotBefore(new, In(new.todo))
  BY <1>1 DEF Facts, NotBefore, SameDoings
<1> QED
  BY <1>1, <1>2, <1>3, <1>4 DEF Facts, SameDoings

-----------------------------------------------------------------------------
(* The invariant *)

\* The vault a process opened is the one with its tag.
Known(v) ==
  /\ v.tag <= clock
  /\ v.tag # 0 /\ v.tag = vault.tag => v = vault
  /\ IF v.tag = 0 THEN v = NoVault ELSE v.version = 2

\* An export that was begun and is neither written nor given up.
Exporting(me) == me.made /\ "write_out" \in In(me.todo)

\* What an error leaves behind, an error of the file system has left.
ErrorTrue(me) == me.code = "error" /\ (me.wrote.tag # 0 \/ me.made) => faults > 0

CommandsFit ==
  /\ Typed
  /\ vault.tag <= clock /\ (vault.tag = 0 => vault = NoVault)
  /\ \A p \in Processes : /\ Facts(p, proc[p]) /\ Known(proc[p].session) /\ ErrorTrue(proc[p])
                           /\ proc[p].cmd \in Runs[p] \cup {Idle.cmd}
  /\ \A p \in Processes : Exporting(proc[p]) =>
       out.what = "partial" /\ \A q \in Processes : Exporting(proc[q]) => q = p

\* A step of p that keeps the invariant for what p knows and has done.
Moved(p) ==
  /\ proc' \in [Processes -> Process] /\ OthersStay(p)
  /\ Facts(p, proc'[p]) /\ ErrorTrue(proc[p])'


LEMMA Here ==
  ASSUME CommandsFit, NEW p \in Processes, proc[p].todo # <<>>
  PROVE  /\ proc[p] \in Process /\ Facts(p, proc[p]) /\ Known(proc[p].session)
         /\ InOrder(proc[p].todo) /\ Head(proc[p].todo) \in In(proc[p].todo)
         /\ Belongs(proc[p].cmd, Head(proc[p].todo))
         /\ NotBefore(proc[p], In(proc[p].todo)) /\ After(p, proc[p], In(proc[p].todo))
         /\ proc[p].code = "running" /\ proc[p].cmd \in AllCommands /\ proc[p].cmd.kind # "none"
         /\ In(proc[p].todo) = In(Tail(proc[p].todo)) \cup {Head(proc[p].todo)}
         /\ InOrder(Tail(proc[p].todo))
         /\ \A y \in In(Tail(proc[p].todo)) : MayFollow(Head(proc[p].todo), y)
         /\ \A x \in In(proc[p].todo) : Belongs(proc[p].cmd, x)
<1>1. proc[p] \in Process /\ Facts(p, proc[p]) /\ Known(proc[p].session)
  BY DEF CommandsFit, Typed
<1>2. InOrder(proc[p].todo) /\ Head(proc[p].todo) \in In(proc[p].todo)
  BY <1>1, Rest DEF Facts
<1>3. proc[p].code = "running" /\ proc[p].cmd.kind # "none"
  BY <1>1, <1>2 DEF Facts, Idle
<1>4. proc[p].cmd \in AllCommands
  BY <1>1, <1>3 DEF Process, Idle
<1>5. /\ In(proc[p].todo) = In(Tail(proc[p].todo)) \cup {Head(proc[p].todo)}
      /\ InOrder(Tail(proc[p].todo))
      /\ \A y \in In(Tail(proc[p].todo)) : MayFollow(Head(proc[p].todo), y)
  BY <1>2, Rest
<1>6. /\ \A x \in In(proc[p].todo) : Belongs(proc[p].cmd, x)
      /\ NotBefore(proc[p], In(proc[p].todo)) /\ After(p, proc[p], In(proc[p].todo))
  BY <1>1, <1>3 DEF Facts
<1> QED
  BY <1>1, <1>2, <1>3, <1>4, <1>5, <1>6

LEMMA QuietMoves ==
  ASSUME CommandsFit, NEW p \in Processes, NEW me \in Process, Continue(p, me),
         proc[p].todo # <<>>, Head(proc[p].todo) \in Quiet,
         me.todo = proc[p].todo, me.cmd = proc[p].cmd, me.session = proc[p].session,
         me.read = proc[p].read, me.pick = proc[p].pick, me.master = proc[p].master,
         me.line = proc[p].line, me.shown = proc[p].shown, me.wrote = proc[p].wrote,
         me.made = proc[p].made,
         \/ me.patch.pw = proc[p].patch.pw /\ Head(proc[p].todo) # "generate"
         \/ Head(proc[p].todo) = "generate" /\ me.patch.pw = Generated(p)
         \/ Head(proc[p].todo) \in {"password", "password_or_keep"}
  PROVE  Moved(p)
<1>1. Facts(p, proc[p]) /\ InOrder(proc[p].todo) /\ Typed
  BY Here DEF CommandsFit
<1>2. /\ proc' \in [Processes -> Process] /\ OthersStay(p) /\ SameDoings(proc'[p], me)
      /\ proc'[p].todo = Tail(me.todo)
      /\ proc'[p].code = IF In(Tail(me.todo)) = {} THEN "ok" ELSE "running"
  BY <1>1, ContinueParts
<1>3. Facts(p, proc'[p])
  <2> DEFINE new == proc'[p]
             old == proc[p]
  <2>1. /\ new.cmd = old.cmd /\ new.session = old.session /\ new.read = old.read
        /\ new.pick = old.pick /\ new.patch = me.patch /\ new.line = old.line
        /\ new.master = old.master /\ new.shown = old.shown /\ new.wrote = old.wrote
        /\ new.made = old.made
    BY <1>2 DEF SameDoings
  <2>2. /\ new.todo = Tail(old.todo)
        /\ new.code = IF In(Tail(old.todo)) = {} THEN "ok" ELSE "running"
    BY <1>2
  <2>3. \/ new.patch.pw = old.patch.pw /\ Head(old.todo) # "generate"
        \/ Head(old.todo) = "generate" /\ new.patch.pw = Generated(p)
        \/ Head(old.todo) \in {"password", "password_or_keep"}
    BY <2>1
  <2>4. Facts(p, old) /\ old.todo # <<>> /\ Head(old.todo) \in Quiet
    BY <1>1
  <2> HIDE DEF new, old
  <2>5. Facts(p, new)
    BY <2>1, <2>2, <2>3, <2>4, QuietFacts
  <2> QED
    BY <2>5 DEF new
<1> QED
  BY <1>2, <1>3 DEF Moved, ErrorTrue

LEMMA QuietlyOn ==
  ASSUME CommandsFit, NEW p \in Processes, Continue(p, proc[p]), proc[p].todo # <<>>,
         Head(proc[p].todo) \in Quiet \ {"generate"}
  PROVE  Moved(p)
BY QuietMoves, Here

LEMMA EndMoves ==
  ASSUME CommandsFit, NEW p \in Processes, NEW code \in Codes \ {"running", "ok"},
         End(p, proc[p], code), proc[p].todo # <<>>,
         \/ Head(proc[p].todo) \notin {"reveal", "write_out"}
         \/ code = "killed"
         \/ code = "error" /\ faults' > 0
  PROVE  Moved(p)
<1>1. Facts(p, proc[p]) /\ proc[p] \in Process /\ Typed
  BY Here DEF CommandsFit
<1>2. /\ proc' \in [Processes -> Process] /\ OthersStay(p) /\ SameDoings(proc'[p], proc[p])
      /\ proc'[p].todo = <<>> /\ proc'[p].code = code
  BY <1>1, EndParts
<1>3. /\ Facts(p, proc'[p])
      /\ Head(proc[p].todo) \notin {"reveal", "write_out"} => proc'[p].wrote.tag = 0 /\ ~proc'[p].made
  BY <1>1, <1>2, EndFacts
<1> QED
  BY <1>2, <1>3 DEF Moved, ErrorTrue

LEMMA FlagsMoves ==
  ASSUME CommandsFit, NEW p \in Processes, Flags(p)
  PROVE  Moved(p)
<1>1. proc[p].todo # <<>> /\ Head(proc[p].todo) = "flags"
  BY DEF Flags, At
<1>2. \/ Continue(p, proc[p])
      \/ End(p, proc[p], "usage") \/ End(p, proc[p], "cancelled")
  BY DEF Flags
<1> QED
  BY <1>1, <1>2, QuietlyOn, EndMoves DEF Quiet, Checks, Codes

LEMMA ChecksMove ==
  ASSUME CommandsFit, NEW p \in Processes,
         Exists(p) \/ Confirm(p) \/ AskMaster(p) \/ OutFree(p) \/ MakeWay(p)
  PROVE  Moved(p)
<1>1. proc[p].todo # <<>> /\ Head(proc[p].todo) \in {"exists", "confirm", "master", "out_free", "make_way"}
  BY DEF Exists, Confirm, AskMaster, OutFree, MakeWay, At
<1>2. \/ Continue(p, proc[p])
      \/ End(p, proc[p], "not_found") \/ End(p, proc[p], "cancelled") \/ End(p, proc[p], "error")
  BY DEF Exists, Confirm, AskMaster, OutFree, MakeWay
<1> QED
  BY <1>1, <1>2, QuietlyOn, EndMoves DEF Quiet, Checks, Codes

LEMMA PromptFailsMoves ==
  ASSUME CommandsFit, NEW p \in Processes, PromptFails(p)
  PROVE  Moved(p)
<1>1. proc[p].todo # <<>> /\ Head(proc[p].todo) \notin {"reveal", "write_out"}
  BY DEF PromptFails, Asking, Hidden, At
<1> QED
  BY <1>1, EndMoves DEF PromptFails, Codes

LEMMA AnswerMoves ==
  ASSUME CommandsFit, NEW p \in Processes, NEW stage, NEW field \in Fields,
         NEW typed, NEW without, stage \in Prompts, typed \cup without \subseteq Values \cup {Keep},
         Answer(p, stage, field, typed, without),
         \/ field # "pw" /\ stage # "generate"
         \/ stage \in {"password", "password_or_keep"}
         \/ stage = "generate" /\ typed = {} /\ without = {Generated(p)} /\ field = "pw"
  PROVE  Moved(p)
<1>1. PICK a \in typed \cup without : Continue(p, [proc[p] EXCEPT !.patch[field] = a])
  BY DEF Answer
<1> DEFINE me == [proc[p] EXCEPT !.patch[field] = a]
<1>2. proc[p].todo # <<>> /\ Head(proc[p].todo) = stage /\ proc[p] \in Process
  BY Here DEF Answer, At
<1>3. me \in Process
  BY <1>1, <1>2 DEF Process
<1>4. /\ me.todo = proc[p].todo /\ me.cmd = proc[p].cmd /\ me.session = proc[p].session
      /\ me.read = proc[p].read /\ me.pick = proc[p].pick /\ me.master = proc[p].master
      /\ me.line = proc[p].line /\ me.shown = proc[p].shown /\ me.wrote = proc[p].wrote
      /\ me.made = proc[p].made
      /\ me.patch.pw = IF field = "pw" THEN a ELSE proc[p].patch.pw
  BY <1>2 DEF Process, Fields
<1> HIDE DEF me
<1> QED
  BY <1>1, <1>2, <1>3, <1>4, QuietMoves DEF Quiet, Prompts, me

LEMMA PromptsMove ==
  ASSUME CommandsFit, NEW p \in Processes,
         \/ Username(p) \/ Password(p) \/ TotpKey(p) \/ Generate(p)
         \/ UsernameOrKeep(p) \/ NotesOrKeep(p) \/ PasswordOrKeep(p)
  PROVE  Moved(p)
<1>1. {"user", "pw", "notes", "totp"} = Fields /\ Users \cup Secrets \cup {Keep, Empty} \subseteq Values \cup {Keep}
      /\ {Generated(p)} \subseteq Values \cup {Keep}
  BY DEF Fields, Values
<1>2. {"username", "password", "totp_key", "username_or_keep", "notes_or_keep", "password_or_keep",
       "generate"} \subseteq Prompts
  BY DEF Prompts
<1>3. CASE Username(p)
  BY <1>1, <1>2, <1>3, AnswerMoves DEF Username
<1>4. CASE Password(p)
  BY <1>1, <1>2, <1>4, AnswerMoves DEF Password
<1>5. CASE TotpKey(p)
  BY <1>1, <1>2, <1>5, AnswerMoves DEF TotpKey
<1>6. CASE Generate(p)
  BY <1>1, <1>2, <1>6, AnswerMoves DEF Generate
<1>7. CASE UsernameOrKeep(p)
  BY <1>1, <1>2, <1>7, AnswerMoves DEF UsernameOrKeep
<1>8. CASE NotesOrKeep(p)
  BY <1>1, <1>2, <1>8, AnswerMoves DEF NotesOrKeep
<1>9. CASE PasswordOrKeep(p)
  BY <1>1, <1>2, <1>9, AnswerMoves DEF PasswordOrKeep
<1> QED
  BY <1>3, <1>4, <1>5, <1>6, <1>7, <1>8, <1>9

\* A stage that adds something to what the process knows or has done.
LEMMA StageMoves ==
  ASSUME CommandsFit, NEW p \in Processes, NEW me \in Process, Continue(p, me),
         proc[p].todo # <<>>, me.todo = proc[p].todo, me.cmd = proc[p].cmd,
         me.code = proc[p].code,
         NotBefore(me, In(Tail(proc[p].todo))), After(p, me, In(Tail(proc[p].todo)))
  PROVE  Moved(p)
<1>1. Facts(p, proc[p]) /\ InOrder(proc[p].todo) /\ Typed /\ proc[p].code = "running"
  BY Here DEF CommandsFit
<1>2. /\ proc' \in [Processes -> Process] /\ OthersStay(p) /\ SameDoings(proc'[p], me)
      /\ proc'[p].todo = Tail(me.todo)
      /\ proc'[p].code = IF In(Tail(me.todo)) = {} THEN "ok" ELSE "running"
  BY <1>1, ContinueParts
<1> DEFINE new == proc'[p]
<1>3. InOrder(new.todo) /\ \A x \in In(new.todo) : Belongs(new.cmd, x)
  BY <1>1, <1>2, Rest DEF Facts, SameDoings
<1>4. new.cmd.kind # "none"
  BY <1>2, Here DEF SameDoings
<1>5. NotBefore(new, In(new.todo))
  BY <1>2 DEF NotBefore, SameDoings
<1>6. After(p, new, In(new.todo))
  BY <1>1, <1>2 DEF After, SameDoings
<1> QED
  BY <1>2, <1>3, <1>4, <1>5, <1>6 DEF Facts, Moved, ErrorTrue

\* The password that is read first, whose repetition is still to come.
LEMMA NewMasterMoves ==
  ASSUME CommandsFit, NEW p \in Processes, NewMaster(p)
  PROVE  Moved(p)
<1>1. PICK line \in Masters \cup Weak :
        proc' = [proc EXCEPT ![p].line = line, ![p].todo = Tail(@)]
  BY DEF NewMaster
<1> DEFINE me == [proc[p] EXCEPT !.line = line, !.todo = Tail(@)]
           L  == In(proc[p].todo)
           M  == In(Tail(proc[p].todo))
<1>2. proc[p].todo # <<>> /\ Head(proc[p].todo) = "new_master" /\ proc[p] \in Process
  BY Here DEF NewMaster, At
<1>3. InOrder(Tail(proc[p].todo)) /\ Tail(proc[p].todo) \in Seq(Stage)
  BY <1>2, Here, Rest DEF InOrder
<1>4. me \in Process
  BY <1>2, <1>3 DEF Process
<1>5. /\ me.line = line /\ me.todo = Tail(proc[p].todo) /\ me.code = proc[p].code
      /\ me.cmd = proc[p].cmd /\ me.session = proc[p].session /\ me.read = proc[p].read
      /\ me.pick = proc[p].pick /\ me.master = proc[p].master /\ me.patch = proc[p].patch
      /\ me.shown = proc[p].shown /\ me.wrote = proc[p].wrote /\ me.made = proc[p].made
  BY <1>2 DEF Process
<1>6. proc' \in [Processes -> Process] /\ proc'[p] = me /\ OthersStay(p)
  <2>1. proc' = [proc EXCEPT ![p] = me]
    BY <1>1
  <2> HIDE DEF me
  <2> QED
    BY <1>4, <2>1 DEF CommandsFit, Typed, OthersStay
<1> HIDE DEF me
<1>7. /\ NotBefore(proc[p], L) /\ After(p, proc[p], L) /\ Facts(p, proc[p])
      /\ proc[p].code = "running" /\ proc[p].cmd.kind # "none" /\ L = M \cup {"new_master"}
  BY <1>2, Here
<1>8. M # {} /\ In(me.todo) = M
  BY <1>5, <1>7 DEF After
<1>9. NotBefore(me, M)
  BY <1>5, <1>7 DEF NotBefore, Twice
<1>10. After(p, me, M)
  BY <1>5, <1>7 DEF After, Picks, Writes
<1>11. Facts(p, me)
  BY <1>3, <1>5, <1>7, <1>8, <1>9, <1>10 DEF Facts
<1> QED
  BY <1>5, <1>6, <1>7, <1>11 DEF Moved, ErrorTrue

LEMMA UnlockMoves ==
  ASSUME CommandsFit, NEW p \in Processes, Unlock(p)
  PROVE  Moved(p)
<1>1. proc[p].todo # <<>> /\ Head(proc[p].todo) = "unlock"
  BY DEF Unlock, At
<1>2. CASE vault.tag # 0 /\ vault.version = 2 /\ Continue(p, [proc[p] EXCEPT !.session = vault])
  <2> DEFINE me == [proc[p] EXCEPT !.session = vault]
             L  == In(proc[p].todo)
             M  == In(Tail(proc[p].todo))
  <2>1. me \in Process
    <3>1. proc[p] \in Process /\ vault \in Vault
      BY DEF CommandsFit, Typed
    <3> QED
      BY <3>1 DEF Process
  <2>2. me.session = vault /\ me.todo = proc[p].todo /\ me.code = proc[p].code
        /\ me.cmd = proc[p].cmd /\ me.read = proc[p].read /\ me.pick = proc[p].pick
        /\ me.master = proc[p].master /\ me.line = proc[p].line /\ me.patch = proc[p].patch
        /\ me.shown = proc[p].shown /\ me.wrote = proc[p].wrote /\ me.made = proc[p].made
    BY <1>1, Here DEF Process
  <2>3. /\ NotBefore(proc[p], L) /\ After(p, proc[p], L) /\ Belongs(proc[p].cmd, "unlock")
        /\ proc[p].code = "running" /\ proc[p].cmd.kind # "none"
        /\ L = M \cup {"unlock"} /\ "unlock" \notin M
    BY <1>1, Here DEF MayFollow
  <2> HIDE DEF me, L, M
  <2>4. NotBefore(me, M)
    BY <2>2, <2>3 DEF NotBefore, Belongs
  <2>5. After(p, me, M)
    BY <2>2, <2>3 DEF After, NotBefore, Picks, Writes, NoVault
  <2> QED
    BY <1>1, <1>2, <2>1, <2>2, <2>4, <2>5, StageMoves DEF me, M
<1>3. CASE End(p, proc[p], "error")
  BY <1>1, <1>3, EndMoves DEF Codes
<1> QED
  BY <1>2, <1>3 DEF Unlock

LEMMA RepeatMasterMoves ==
  ASSUME CommandsFit, NEW p \in Processes, RepeatMaster(p)
  PROVE  Moved(p)
<1>1. proc[p].todo # <<>> /\ Head(proc[p].todo) = "repeat_master"
  BY DEF RepeatMaster, At
<1>2. ASSUME NEW line \in Masters, line = proc[p].line,
             Continue(p, [proc[p] EXCEPT !.master = line])
      PROVE  Moved(p)
  <2> DEFINE me == [proc[p] EXCEPT !.master = line]
             L  == In(proc[p].todo)
             M  == In(Tail(proc[p].todo))
  <2>1. me \in Process
    BY <1>1, <1>2, Here DEF Process
  <2>2. /\ me.master = line
        /\ me.cmd = proc[p].cmd /\ me.todo = proc[p].todo /\ me.code = proc[p].code
        /\ me.session = proc[p].session /\ me.read = proc[p].read /\ me.pick = proc[p].pick
        /\ me.patch = proc[p].patch /\ me.line = proc[p].line /\ me.shown = proc[p].shown
        /\ me.wrote = proc[p].wrote /\ me.made = proc[p].made
    BY <1>1, Here DEF Process
  <2>3. /\ NotBefore(proc[p], L) /\ After(p, proc[p], L) /\ Belongs(proc[p].cmd, "repeat_master")
        /\ proc[p].code = "running" /\ proc[p].cmd.kind # "none" /\ Known(proc[p].session)
        /\ L = M \cup {"repeat_master"} /\ \A y \in M : MayFollow("repeat_master", y)
    BY <1>1, Here
  <2> HIDE DEF me, L, M
  <2>4. NotBefore(me, M)
    BY <1>1, <1>2, <2>2, <2>3 DEF NotBefore, MayFollow, Twice
  <2>5. After(p, me, M)
    BY <1>1, <2>2, <2>3 DEF After, MayFollow, Picks, Writes, Ends, Twice
  <2> QED
    BY <1>1, <1>2, <2>1, <2>2, <2>4, <2>5, StageMoves DEF me, M
<1>3. CASE Again(p, <<"new_master">>)
  <2> DEFINE old == proc[p]
             new == [old EXCEPT !.todo = <<"new_master">> \o @]
             L == In(old.todo)
  <2>1. /\ old \in Process /\ Facts(p, old) /\ old.code = "running" /\ old.cmd.kind # "none"
        /\ NotBefore(old, L) /\ After(p, old, L) /\ InOrder(old.todo) /\ "repeat_master" \in L
        /\ \A x \in L : Belongs(old.cmd, x)
    BY <1>1, Here
  <2>2. /\ InOrder(<<"new_master">> \o old.todo)
        /\ In(<<"new_master">> \o old.todo) = {"new_master"} \cup L
    <3>1. InOrder(<<"new_master">>) /\ In(<<"new_master">>) = {"new_master"}
      BY Short DEF Stage, Twice
    <3> QED
      BY <2>1, <3>1, Joined DEF MayFollow, Ends, Writes, Reads, Picks
  <2>3. proc' = [proc EXCEPT ![p] = new]
    BY <1>3 DEF Again
  <2>4. new \in Process
    <3>1. <<"new_master">> \o old.todo \in Seq(Stage)
      BY <2>2 DEF InOrder
    <3> QED
      BY <2>1, <3>1 DEF Process
  <2>5. SameDoings(new, old) /\ new.code = "running" /\ new.todo = <<"new_master">> \o old.todo
    BY <2>1 DEF SameDoings, Process
  <2>6. proc' \in [Processes -> Process] /\ proc'[p] = new /\ OthersStay(p)
    <3> HIDE DEF new
    <3> QED
      BY <2>3, <2>4 DEF CommandsFit, Typed, OthersStay
  <2> HIDE DEF new, old, L
  <2>7. NotBefore(new, {"new_master"} \cup L)
    BY <2>1, <2>5 DEF NotBefore, SameDoings, Picks, Reads, Twice
  <2>8. After(p, new, {"new_master"} \cup L)
    BY <2>1, <2>5 DEF After, SameDoings, Picks, Writes
  <2>9. Belongs(new.cmd, "new_master")
    BY DEF Belongs, Prompts, Picks
  <2>10. /\ In(new.todo) = {"new_master"} \cup L /\ InOrder(new.todo)
         /\ \A x \in In(new.todo) : Belongs(new.cmd, x)
    BY <2>1, <2>2, <2>5, <2>9 DEF SameDoings
  <2>11. new.cmd.kind # "none"
    BY <2>1, <2>5 DEF SameDoings
  <2>12. Facts(p, new)
    BY <2>5, <2>7, <2>8, <2>10, <2>11 DEF Facts
  <2> QED
    BY <2>5, <2>6, <2>12 DEF Moved, ErrorTrue
<1> QED
  BY <1>2, <1>3 DEF RepeatMaster

LEMMA PickMoves ==
  ASSUME CommandsFit, NEW p \in Processes, At(p, "resolve") \/ At(p, "select"),
         NEW i \in Live(proc[p].session), Continue(p, [proc[p] EXCEPT !.pick = i])
  PROVE  Moved(p)
<1>1. proc[p].todo # <<>> /\ Head(proc[p].todo) \in Picks
  BY DEF At, Picks
<1>2. i \in Nat \ {0} /\ i \in DOMAIN proc[p].session.items
  <2>1. proc[p].session.items \in Seq(Item)
    BY <1>1, Here DEF Process, Vault
  <2> QED
    BY <2>1 DEF Live
<1> DEFINE me == [proc[p] EXCEPT !.pick = i]
           L  == In(proc[p].todo)
           M  == In(Tail(proc[p].todo))
<1>3. me \in Process
  BY <1>1, <1>2, Here DEF Process
<1>4. /\ me.pick = i
      /\ me.cmd = proc[p].cmd /\ me.todo = proc[p].todo /\ me.code = proc[p].code
      /\ me.session = proc[p].session /\ me.read = proc[p].read /\ me.patch = proc[p].patch
      /\ me.line = proc[p].line /\ me.master = proc[p].master /\ me.shown = proc[p].shown
      /\ me.wrote = proc[p].wrote /\ me.made = proc[p].made
  BY <1>1, Here DEF Process
<1>5. /\ NotBefore(proc[p], L) /\ After(p, proc[p], L) /\ Belongs(proc[p].cmd, Head(proc[p].todo))
      /\ proc[p].code = "running" /\ proc[p].cmd.kind # "none" /\ Known(proc[p].session)
      /\ L = M \cup {Head(proc[p].todo)} /\ \A y \in M : MayFollow(Head(proc[p].todo), y)
  BY <1>1, Here
<1> HIDE DEF me, L, M
<1>6. NotBefore(me, M)
  BY <1>1, <1>2, <1>4, <1>5 DEF NotBefore, MayFollow, Picks, Belongs, Reads
<1>7. After(p, me, M)
  BY <1>1, <1>2, <1>4, <1>5 DEF After, MayFollow, Picks, Writes
<1> QED
  BY <1>1, <1>3, <1>4, <1>6, <1>7, StageMoves DEF me, M

LEMMA SelectMoves ==
  ASSUME CommandsFit, NEW p \in Processes, Select(p)
  PROVE  Moved(p)
<1>1. proc[p].todo # <<>> /\ Head(proc[p].todo) = "select"
  BY DEF Select, At
<1>2. CASE \E i \in Matches(proc[p].session) : Continue(p, [proc[p] EXCEPT !.pick = i])
  BY <1>2, PickMoves DEF Matches, Live, Select
<1>3. CASE End(p, proc[p], "cancelled")
  BY <1>1, <1>3, EndMoves DEF Codes
<1>4. CASE Again(p, <<>>)
  <2> DEFINE old == proc[p]
             new == [old EXCEPT !.todo = <<>> \o @]
  <2>1. /\ old \in Process /\ Facts(p, old) /\ old.code = "running" /\ old.cmd.kind # "none"
    BY <1>1, Here
  <2>2. proc' = [proc EXCEPT ![p] = new]
    BY <1>4 DEF Again
  <2>3. <<>> \o old.todo = old.todo /\ old.todo \in Seq(Stage)
    BY <2>1, ConcatEmptySeq DEF Process
  <2>4. new \in Process
    BY <2>1, <2>3 DEF Process
  <2>5. SameDoings(new, old) /\ new.code = "running" /\ new.todo = old.todo
    BY <2>1, <2>3 DEF SameDoings, Process
  <2>6. proc' \in [Processes -> Process] /\ proc'[p] = new /\ OthersStay(p)
    <3> HIDE DEF new
    <3> QED
      BY <2>2, <2>4 DEF CommandsFit, Typed, OthersStay
  <2> HIDE DEF new, old
  <2>7. NotBefore(new, In(old.todo)) /\ After(p, new, In(old.todo))
    BY <2>1, <2>5 DEF Facts, NotBefore, After, SameDoings
  <2>8. Facts(p, new)
    BY <2>1, <2>5, <2>7 DEF Facts, SameDoings
  <2> QED
    BY <2>5, <2>6, <2>8 DEF Moved, ErrorTrue
<1> QED
  BY <1>2, <1>3, <1>4 DEF Select

LEMMA ResolveMoves ==
  ASSUME CommandsFit, NEW p \in Processes, Resolve(p)
  PROVE  Moved(p)
<1>1. proc[p].todo # <<>> /\ Head(proc[p].todo) = "resolve"
  BY DEF Resolve, At
<1>2. CASE \E i \in Live(proc[p].session) : Continue(p, [proc[p] EXCEPT !.pick = i])
  BY <1>2, PickMoves DEF Resolve
<1>3. CASE End(p, proc[p], "error")
  BY <1>1, <1>3, EndMoves DEF Codes
<1>4. CASE proc' = [proc EXCEPT ![p].todo = <<"select">> \o Tail(@)]
  <2> DEFINE old == proc[p]
             new == [old EXCEPT !.todo = <<"select">> \o Tail(@)]
             M == In(Tail(old.todo))
  <2>1. /\ old \in Process /\ Facts(p, old) /\ old.code = "running" /\ old.cmd.kind # "none"
        /\ NotBefore(old, M \cup {"resolve"}) /\ After(p, old, M \cup {"resolve"}) /\ InOrder(Tail(old.todo))
        /\ \A x \in M : MayFollow("resolve", x)
        /\ \A x \in M \cup {"resolve"} : Belongs(old.cmd, x)
    BY <1>1, Here
  <2>2. proc' = [proc EXCEPT ![p] = new]
    BY <1>4
  <2>3. /\ InOrder(<<"select">> \o Tail(old.todo))
        /\ In(<<"select">> \o Tail(old.todo)) = {"select"} \cup M
    <3>1. InOrder(<<"select">>) /\ In(<<"select">>) = {"select"}
      BY Short DEF Stage, Picks
    <3> QED
      BY <2>1, <3>1, Joined DEF MayFollow, Ends, Writes, Reads, Picks
  <2>4. new \in Process
    BY <2>1, <2>3 DEF Process, InOrder
  <2>5. SameDoings(new, old) /\ new.code = "running" /\ new.todo = <<"select">> \o Tail(old.todo)
    BY <2>1 DEF SameDoings, Process
  <2>6. proc' \in [Processes -> Process] /\ proc'[p] = new /\ OthersStay(p)
    <3> HIDE DEF new
    <3> QED
      BY <2>2, <2>4 DEF CommandsFit, Typed, OthersStay
  <2> HIDE DEF new, old, M
  <2>7. NotBefore(new, {"select"} \cup M)
    BY <2>1, <2>5 DEF NotBefore, SameDoings, Picks, Reads, Twice
  <2>8. After(p, new, {"select"} \cup M)
    BY <2>1, <2>5 DEF After, SameDoings, Picks, Writes
  <2>9. Belongs(new.cmd, "select")
    BY <2>1, <2>5 DEF Belongs, Prompts, Picks, SameDoings
  <2>10. /\ In(new.todo) = {"select"} \cup M /\ InOrder(new.todo)
         /\ \A x \in In(new.todo) : Belongs(new.cmd, x)
    BY <2>1, <2>3, <2>5, <2>9 DEF SameDoings
  <2>11. new.cmd.kind # "none"
    BY <2>1, <2>5 DEF SameDoings
  <2>12. Facts(p, new)
    BY <2>5, <2>7, <2>8, <2>10, <2>11 DEF Facts
  <2> QED
    BY <2>5, <2>6, <2>12 DEF Moved, ErrorTrue
<1> QED
  BY <1>2, <1>3, <1>4 DEF Resolve, Matches, Live

LEMMA ReadAgainMoves ==
  ASSUME CommandsFit, NEW p \in Processes, ReadAgain(p)
  PROVE  Moved(p)
<1>1. proc[p].todo # <<>> /\ Head(proc[p].todo) \in {"open", "snapshot", "verify"}
  BY DEF ReadAgain, At
<1>2. CASE Current(p) /\ Continue(p, [proc[p] EXCEPT !.read = vault])
  <2> DEFINE me == [proc[p] EXCEPT !.read = vault]
             L  == In(proc[p].todo)
             M  == In(Tail(proc[p].todo))
  <2>1. me \in Process
    <3>1. proc[p] \in Process /\ vault \in Vault
      BY DEF CommandsFit, Typed
    <3> QED
      BY <3>1 DEF Process
  <2>2. /\ me.read = vault
        /\ me.cmd = proc[p].cmd /\ me.todo = proc[p].todo /\ me.code = proc[p].code
        /\ me.session = proc[p].session /\ me.pick = proc[p].pick /\ me.patch = proc[p].patch
        /\ me.line = proc[p].line /\ me.master = proc[p].master /\ me.shown = proc[p].shown
        /\ me.wrote = proc[p].wrote /\ me.made = proc[p].made
    BY <1>1, Here DEF Process
  <2>3. /\ NotBefore(proc[p], L) /\ After(p, proc[p], L) /\ Belongs(proc[p].cmd, Head(proc[p].todo))
        /\ proc[p].code = "running" /\ proc[p].cmd.kind # "none" /\ Known(proc[p].session)
        /\ L = M \cup {Head(proc[p].todo)} /\ \A y \in M : MayFollow(Head(proc[p].todo), y)
    BY <1>1, Here
  <2> HIDE DEF me, L, M
  <2>4. vault = proc[p].session /\ vault.tag # 0
    BY <1>2, <2>3 DEF Current, Known
  <2>5. NotBefore(me, M)
    BY <1>1, <2>2, <2>3, <2>4 DEF NotBefore, MayFollow, Picks, Belongs, Reads, Writes, Ends
  <2>6. After(p, me, M)
    BY <1>1, <2>2, <2>3, <2>4 DEF After, MayFollow, Picks, Writes
  <2> QED
    BY <1>1, <1>2, <2>1, <2>2, <2>5, <2>6, StageMoves DEF me, M
<1>3. CASE End(p, proc[p], "error")
  BY <1>1, <1>3, EndMoves DEF Codes
<1> QED
  BY <1>2, <1>3 DEF ReadAgain

LEMMA ReadFileMoves ==
  ASSUME CommandsFit, NEW p \in Processes, ReadFile(p)
  PROVE  Moved(p)
<1>1. proc[p].todo # <<>> /\ Head(proc[p].todo) \in {"read_file", "read_legacy"}
  BY DEF ReadFile, At
<1>2. CASE Continue(p, [proc[p] EXCEPT !.read = vault])
  <2> DEFINE me == [proc[p] EXCEPT !.read = vault]
             L  == In(proc[p].todo)
             M  == In(Tail(proc[p].todo))
  <2>1. me \in Process
    <3>1. proc[p] \in Process /\ vault \in Vault
      BY DEF CommandsFit, Typed
    <3> QED
      BY <3>1 DEF Process
  <2>2. /\ me.read = vault
        /\ me.cmd = proc[p].cmd /\ me.todo = proc[p].todo /\ me.code = proc[p].code
        /\ me.session = proc[p].session /\ me.pick = proc[p].pick /\ me.patch = proc[p].patch
        /\ me.line = proc[p].line /\ me.master = proc[p].master /\ me.shown = proc[p].shown
        /\ me.wrote = proc[p].wrote /\ me.made = proc[p].made
    BY <1>1, Here DEF Process
  <2>3. /\ NotBefore(proc[p], L) /\ After(p, proc[p], L) /\ Belongs(proc[p].cmd, Head(proc[p].todo))
        /\ proc[p].code = "running" /\ proc[p].cmd.kind # "none" /\ Known(proc[p].session)
        /\ L = M \cup {Head(proc[p].todo)} /\ \A y \in M : MayFollow(Head(proc[p].todo), y)
    BY <1>1, Here
  <2> HIDE DEF me, L, M
  <2>4. NotBefore(me, M)
    BY <1>1, <2>2, <2>3
       DEF NotBefore, MayFollow, Picks, Belongs, Reads, Writes, Ends, Creates, NoUnlock, NoVault
  <2>5. After(p, me, M)
    BY <1>1, <2>2, <2>3 DEF After, MayFollow, Picks, Writes, Opening, Creates, Belongs
  <2> QED
    BY <1>1, <1>2, <2>1, <2>2, <2>4, <2>5, StageMoves DEF me, M
<1>3. CASE End(p, proc[p], "error")
  BY <1>1, <1>3, EndMoves DEF Codes
<1> QED
  BY <1>2, <1>3 DEF ReadFile

\* What is shown last.
LEMMA ShowMoves ==
  ASSUME CommandsFit, NEW p \in Processes, NEW shown \in SUBSET Values,
         proc[p].todo # <<>>, Head(proc[p].todo) \in {"deliver", "list", "print", "reveal"},
         Continue(p, [proc[p] EXCEPT !.shown = shown])
  PROVE  Moved(p)
<1>1. proc[p].todo # <<>> /\ Head(proc[p].todo) \in {"deliver", "list", "print", "reveal"}
  OBVIOUS
<1> DEFINE me == [proc[p] EXCEPT !.shown = shown]
           L  == In(proc[p].todo)
           M  == In(Tail(proc[p].todo))
<1>2. me \in Process
  BY <1>1, Here DEF Process
<1>3. /\ me.shown = shown
      /\ me.cmd = proc[p].cmd /\ me.todo = proc[p].todo /\ me.code = proc[p].code
      /\ me.session = proc[p].session /\ me.read = proc[p].read /\ me.pick = proc[p].pick
      /\ me.patch = proc[p].patch /\ me.line = proc[p].line /\ me.master = proc[p].master
      /\ me.wrote = proc[p].wrote /\ me.made = proc[p].made
  BY <1>1, Here DEF Process
<1>4. /\ NotBefore(proc[p], L) /\ After(p, proc[p], L) /\ Belongs(proc[p].cmd, Head(proc[p].todo))
      /\ proc[p].code = "running" /\ proc[p].cmd.kind # "none" /\ Known(proc[p].session)
      /\ L = M \cup {Head(proc[p].todo)} /\ \A y \in M : MayFollow(Head(proc[p].todo), y)
  BY <1>1, Here
<1> HIDE DEF me, L, M
<1>5. NotBefore(me, M)
  BY <1>1, <1>3, <1>4 DEF NotBefore, MayFollow, Picks, Belongs, Reads, Writes, Ends, Twice
<1>6. After(p, me, M)
  BY <1>1, <1>3, <1>4 DEF After, MayFollow, Picks, Writes, Ends
<1> QED
  BY <1>1, <1>2, <1>3, <1>5, <1>6, StageMoves DEF me, M

\* The item that get, copy or totp show, and an edit changes.
LEMMA PickedItem ==
  ASSUME CommandsFit, NEW p \in Processes, proc[p].todo # <<>>,
         Head(proc[p].todo) \in {"deliver", "save"}, proc[p].cmd.kind \in Opening
  PROVE  /\ proc[p].read = proc[p].session /\ proc[p].session.tag # 0
         /\ proc[p].pick \in DOMAIN proc[p].session.items /\ Picked(p) \in Item
<1>1. /\ NotBefore(proc[p], In(proc[p].todo)) /\ After(p, proc[p], In(proc[p].todo))
      /\ proc[p].session.items \in Seq(Item)
  BY Here DEF Process, Vault
<1>2. In(proc[p].todo) \cap (Picks \cup {"open"}) = {}
  BY Here DEF MayFollow, Ends, Writes, Picks
<1>3. proc[p].read = proc[p].session /\ proc[p].pick # 0 /\ proc[p].session.tag # 0
  BY <1>1, <1>2 DEF After, Opening, Picking
<1>4. proc[p].pick \in DOMAIN proc[p].session.items
  BY <1>1, <1>3 DEF NotBefore
<1> QED
  BY <1>1, <1>3, <1>4 DEF Picked

LEMMA DeliverMoves ==
  ASSUME CommandsFit, NEW p \in Processes, Deliver(p)
  PROVE  Moved(p)
<1>1. proc[p].todo # <<>> /\ Head(proc[p].todo) = "deliver"
  BY DEF Deliver, At
<1> DEFINE secret == Picked(p).has[IF Kind(p) = "totp" THEN "totp" ELSE "pw"]
<1>2. secret \in Values
  <2>1. Picked(p) \in Item
    BY <1>1, PickedItem, Here DEF Belongs, Opening
  <2> QED
    BY <2>1 DEF Item, Fields
<1>3. Continue(p, [proc[p] EXCEPT !.shown = {secret}]) \/ End(p, proc[p], "error")
  BY DEF Deliver
<1>4. {secret} \in SUBSET Values
  BY <1>2
<1> HIDE DEF secret
<1> QED
  BY <1>1, <1>3, <1>4, ShowMoves, EndMoves DEF Codes

\* What is shown of the live items of a vault.
LEMMA ShownValues ==
  ASSUME NEW v \in Vault, NEW f \in Fields
  PROVE  {v.items[i].has[f] : i \in Live(v)} \in SUBSET Values
<1>1. v.items \in Seq(Item)
  BY DEF Vault
<1>2. \A i \in DOMAIN v.items : v.items[i] \in Item
  BY <1>1
<1> QED
  BY <1>2 DEF Live, Item

LEMMA ShowsMove ==
  ASSUME CommandsFit, NEW p \in Processes, List(p) \/ PrintSnapshot(p)
  PROVE  Moved(p)
<1>1. proc[p].todo # <<>> /\ Head(proc[p].todo) \in {"list", "print"} /\ proc[p] \in Process
  BY Here DEF List, PrintSnapshot, At
<1>2. proc[p].session \in Vault /\ proc[p].read \in Vault /\ {"user", "pw"} \subseteq Fields
  BY <1>1 DEF Process, Fields
<1>3. CASE List(p)
  BY <1>1, <1>2, <1>3, ShownValues, ShowMoves DEF List
<1>4. CASE PrintSnapshot(p)
  BY <1>1, <1>2, <1>4, ShownValues, ShowMoves DEF PrintSnapshot
<1> QED
  BY <1>3, <1>4

\* What --reveal-generated prints was generated.
LEMMA Revealing ==
  ASSUME CommandsFit, NEW p \in Processes, At(p, "reveal")
  PROVE  proc[p].patch.pw = Generated(p) /\ proc[p].cmd.kind \in Patching
<1>1. proc[p].todo # <<>> /\ Head(proc[p].todo) = "reveal"
  BY DEF At
<1>2. "generate" \notin In(proc[p].todo)
  <2>1. In(Tail(proc[p].todo)) = {}
    BY <1>1, Here DEF MayFollow, Ends
  <2> QED
    BY <1>1, <2>1, Here
<1>3. proc[p].cmd.kind \in Patching /\ "generate" \in proc[p].cmd.opts
  BY <1>1, Here, KindsOfCommands DEF Belongs
<1> QED
  BY <1>1, <1>2, <1>3, Here DEF After

LEMMA RevealMoves ==
  ASSUME CommandsFit, NEW p \in Processes, Reveal(p)
  PROVE  Moved(p)
<1>1. At(p, "reveal") /\ Continue(p, [proc[p] EXCEPT !.shown = {proc[p].patch.pw}])
  BY DEF Reveal
<1>2. {proc[p].patch.pw} \in SUBSET Values
  BY <1>1, Revealing DEF Values
<1> QED
  BY <1>1, <1>2, ShowMoves DEF At

LEMMA CreateOutMoves ==
  ASSUME CommandsFit, NEW p \in Processes, CreateOut(p)
  PROVE  Moved(p)
<1>1. proc[p].todo # <<>> /\ Head(proc[p].todo) = "create_out"
  BY DEF CreateOut, At
<1>2. CASE Continue(p, [proc[p] EXCEPT !.made = TRUE])
  <2> DEFINE me == [proc[p] EXCEPT !.made = TRUE]
             L  == In(proc[p].todo)
             M  == In(Tail(proc[p].todo))
  <2>1. me \in Process
    <3>1. proc[p] \in Process
      BY DEF CommandsFit, Typed
    <3> QED
      BY <3>1 DEF Process
  <2>2. /\ me.made = TRUE
        /\ me.cmd = proc[p].cmd /\ me.todo = proc[p].todo /\ me.code = proc[p].code
        /\ me.session = proc[p].session /\ me.read = proc[p].read /\ me.pick = proc[p].pick
        /\ me.patch = proc[p].patch /\ me.line = proc[p].line /\ me.master = proc[p].master
        /\ me.shown = proc[p].shown /\ me.wrote = proc[p].wrote
    BY <1>1, Here DEF Process
  <2>3. /\ NotBefore(proc[p], L) /\ After(p, proc[p], L) /\ Belongs(proc[p].cmd, "create_out")
        /\ proc[p].code = "running" /\ proc[p].cmd.kind # "none" /\ Known(proc[p].session)
        /\ L = M \cup {"create_out"} /\ \A y \in M : MayFollow("create_out", y)
    BY <1>1, Here
  <2> HIDE DEF me, L, M
  <2>4. NotBefore(me, M)
    BY <1>1, <2>2, <2>3 DEF NotBefore, MayFollow, Picks, Belongs, Reads, Writes, Ends, Twice
  <2>5. After(p, me, M)
    BY <1>1, <2>2, <2>3 DEF After, MayFollow, Picks, Writes, Ends
  <2> QED
    BY <1>1, <1>2, <2>1, <2>2, <2>4, <2>5, StageMoves DEF me, M
<1>3. CASE End(p, proc[p], "error")
  BY <1>1, <1>3, EndMoves DEF Codes
<1> QED
  BY <1>2, <1>3 DEF CreateOut

LEMMA WriteOutMoves ==
  ASSUME CommandsFit, NEW p \in Processes, WriteOut(p)
  PROVE  Moved(p)
<1>1. proc[p].todo # <<>> /\ Head(proc[p].todo) = "write_out"
  BY DEF WriteOut, At
<1>2. CASE Continue(p, proc[p])
  <2> DEFINE L == In(proc[p].todo)
             M == In(Tail(proc[p].todo))
  <2>1. /\ NotBefore(proc[p], L) /\ After(p, proc[p], L) /\ L = M \cup {"write_out"}
        /\ proc[p] \in Process /\ Belongs(proc[p].cmd, "write_out")
    BY <1>1, Here
  <2> HIDE DEF L, M
  <2>2. NotBefore(proc[p], M)
    BY <2>1 DEF NotBefore
  <2>3. After(p, proc[p], M)
    BY <2>1 DEF After, Picks, Writes
  <2> QED
    BY <1>1, <1>2, <2>1, <2>2, <2>3, StageMoves DEF M
<1>3. CASE faults' = faults + 1 /\ End(p, proc[p], "error")
  <2>1. faults' > 0
    BY <1>3 DEF CommandsFit, Typed
  <2> QED
    BY <1>1, <1>3, <2>1, EndMoves DEF Codes
<1> QED
  BY <1>2, <1>3 DEF WriteOut

\* An error after the file system did what was asked.
LEMMA FailedStage ==
  ASSUME CommandsFit, NEW p \in Processes, NEW me \in Process, End(p, me, "error"),
         proc[p].todo # <<>>, me.cmd = proc[p].cmd, NotBefore(me, {}), faults' > 0
  PROVE  Moved(p)
<1>1. /\ proc' \in [Processes -> Process] /\ OthersStay(p) /\ SameDoings(proc'[p], me)
      /\ proc'[p].todo = <<>> /\ proc'[p].code = "error"
  BY EndParts DEF CommandsFit, Codes
<1>2. InOrder(proc'[p].todo) /\ In(proc'[p].todo) = {} /\ proc'[p].cmd.kind # "none"
  BY <1>1, Short, Here DEF SameDoings
<1>3. NotBefore(proc'[p], {})
  BY <1>1 DEF NotBefore, SameDoings
<1> QED
  BY <1>1, <1>2, <1>3 DEF Moved, ErrorTrue, Facts

LEMMA LinkOutMoves ==
  ASSUME CommandsFit, NEW p \in Processes, LinkOut(p)
  PROVE  Moved(p)
<1>1. proc[p].todo # <<>> /\ Head(proc[p].todo) = "link_out"
  BY DEF LinkOut, At
<1>2. ASSUME \/ Continue(p, [proc[p] EXCEPT !.made = TRUE])
             \/ faults' = faults + 1 /\ End(p, [proc[p] EXCEPT !.made = TRUE], "error")
      PROVE  Moved(p)
  <2> DEFINE me == [proc[p] EXCEPT !.made = TRUE]
             L  == In(proc[p].todo)
             M  == In(Tail(proc[p].todo))
  <2>1. me \in Process
    <3>1. proc[p] \in Process
      BY DEF CommandsFit, Typed
    <3> QED
      BY <3>1 DEF Process
  <2>2. /\ me.made = TRUE
        /\ me.cmd = proc[p].cmd /\ me.todo = proc[p].todo /\ me.code = proc[p].code
        /\ me.session = proc[p].session /\ me.read = proc[p].read /\ me.pick = proc[p].pick
        /\ me.patch = proc[p].patch /\ me.line = proc[p].line /\ me.master = proc[p].master
        /\ me.shown = proc[p].shown /\ me.wrote = proc[p].wrote
    BY <1>1, Here DEF Process
  <2>3. /\ NotBefore(proc[p], L) /\ After(p, proc[p], L) /\ Belongs(proc[p].cmd, "link_out")
        /\ proc[p].code = "running" /\ proc[p].cmd.kind # "none" /\ Known(proc[p].session)
        /\ L = M \cup {"link_out"} /\ \A y \in M : MayFollow("link_out", y)
    BY <1>1, Here
  <2> HIDE DEF me, L, M
  <2>4. M = {} /\ proc[p].cmd.kind \in Creates
    BY <2>3 DEF MayFollow, Ends, Belongs
  <2>5. NotBefore(me, M)
    BY <1>1, <2>2, <2>3, <2>4
       DEF NotBefore, MayFollow, Picks, Belongs, Reads, Writes, Ends, Twice, Creates
  <2>6. After(p, me, M)
    BY <1>1, <2>2, <2>3 DEF After, MayFollow, Picks, Writes, Ends
  <2>7. faults + 1 > 0
    BY DEF CommandsFit, Typed
  <2>8. CASE Continue(p, me)
    BY <1>1, <2>1, <2>2, <2>5, <2>6, <2>8, StageMoves DEF M
  <2>9. CASE faults' = faults + 1 /\ End(p, me, "error")
    BY <1>1, <2>1, <2>2, <2>4, <2>5, <2>7, <2>9, FailedStage
  <2> QED
    BY <1>2, <2>8, <2>9 DEF me
<1>3. CASE End(p, proc[p], "error")
  BY <1>1, <1>3, EndMoves DEF Codes
<1> QED
  BY <1>2, <1>3 DEF LinkOut

LEMMA UnchangedMoves ==
  ASSUME CommandsFit, NEW p \in Processes, Unchanged(p)
  PROVE  Moved(p)
<1>1. proc[p].todo # <<>> /\ Head(proc[p].todo) = "save" /\ End(p, proc[p], "ok") /\ SameRecord(proc[p])
  BY DEF Unchanged, At, SameAsBefore, SameRecord, Picked, Kind
<1> DEFINE old == proc[p]
           new == proc'[p]
           L   == In(proc[p].todo)
<1>2. /\ proc' \in [Processes -> Process] /\ OthersStay(p) /\ SameDoings(new, old)
      /\ new.todo = <<>> /\ new.code = "ok"
  BY <1>1, Here, EndParts DEF CommandsFit, Codes
<1>3. /\ NotBefore(old, L) /\ After(p, old, L) /\ "save" \in L /\ L \subseteq {"save", "reveal"}
      /\ old.cmd.kind # "none"
  BY <1>1, Here DEF MayFollow, Writes
<1>4. InOrder(new.todo) /\ In(new.todo) = {} /\ new.cmd.kind = "edit"
  BY <1>1, <1>2, Short DEF SameDoings, SameRecord
<1> HIDE DEF L
<1>5. NotBefore(new, {})
  BY <1>2, <1>3 DEF NotBefore, SameDoings
<1>6. After(p, new, {})
  <2>1. SameRecord(new)
    BY <1>1, <1>2 DEF SameRecord, SameDoings
  <2> QED
    BY <1>2, <1>3, <1>4, <2>1 DEF After, SameDoings, Picks, Creates
<1> QED
  BY <1>2, <1>4, <1>5, <1>6 DEF Moved, ErrorTrue, Facts

-----------------------------------------------------------------------------
(* What a command publishes *)

LEMMA NoVaultTyped == NoVault \in Vault
BY DEF NoVault, Vault

LEMMA AppliedItem ==
  ASSUME NEW item \in Item, NEW patch \in [Fields -> Values \cup {Keep}]
  PROVE  /\ Applied(item, patch) \in Item
         /\ Applied(item, patch).has =
              [f \in Fields |-> IF patch[f] = Keep THEN item.has[f] ELSE patch[f]]
BY DEF Applied, Item

LEMMA NewItemTyped == NewItem \in Item
BY ValuesAssumption DEF NewItem, Item, Values

LEMMA DeletedItem ==
  ASSUME NEW item \in Item
  PROVE  Deleted(item) \in Item
BY DEF Deleted, Item, Values

LEMMA SavedAtHead ==
  ASSUME CommandsFit, NEW p \in Processes, Saving(p), MaySave(p)
  PROVE  /\ proc[p].todo # <<>> /\ Head(proc[p].todo) \in Writes
         /\ Kind(p) \in Changes /\ (Kind(p) = "init" <=> At(p, "create"))
         /\ IF Kind(p) = "init" THEN proc[p].session = NoVault /\ vault.tag = 0
            ELSE vault = proc[p].session /\ vault.tag # 0 /\ vault.version = 2
         /\ Kind(p) \in {"edit", "rm"} => proc[p].pick \in DOMAIN proc[p].session.items
         /\ Kind(p) \in {"add", "rotate"} => proc[p].pick = 0
         /\ Kind(p) = "edit" => proc[p].read = proc[p].session /\ Picked(p) \in Item
<1>1. proc[p].todo # <<>> /\ Head(proc[p].todo) \in Writes
  BY DEF Saving, At, Writes
<1>2. Kind(p) \in Changes /\ (Kind(p) = "init" <=> At(p, "create"))
  BY <1>1, Here DEF Belongs, Changes, Kind, Saving, At
<1>3. /\ NotBefore(proc[p], In(proc[p].todo)) /\ After(p, proc[p], In(proc[p].todo))
      /\ Known(proc[p].session)
  BY <1>1, Here
<1>4. IF Kind(p) = "init" THEN proc[p].session = NoVault /\ vault.tag = 0
      ELSE vault = proc[p].session /\ vault.tag # 0 /\ vault.version = 2
  <2>1. CASE Kind(p) = "init"
    BY <1>2, <1>3, <2>1 DEF NotBefore, NoUnlock, Kind, MaySave
  <2>2. CASE Kind(p) # "init"
    BY <1>2, <1>3, <2>2 DEF MaySave, Current, Known
  <2> QED
    BY <2>1, <2>2
<1>5. In(proc[p].todo) \cap Picks = {}
  BY <1>1, Here DEF MayFollow, Writes, Picks
<1>6. Kind(p) \in {"edit", "rm"} => proc[p].pick \in DOMAIN proc[p].session.items
  BY <1>3, <1>5 DEF After, NotBefore, Picking, Kind
<1>7. Kind(p) \in {"add", "rotate"} => proc[p].pick = 0
  BY <1>3 DEF NotBefore, Picking, Kind
<1>8. Kind(p) = "edit" => proc[p].read = proc[p].session /\ Picked(p) \in Item
  <2>1. Kind(p) = "edit" => Head(proc[p].todo) = "save"
    BY <1>2 DEF Saving, At
  <2> QED
    BY <1>1, <2>1, PickedItem DEF Opening, Kind
<1> QED
  BY <1>1, <1>2, <1>4, <1>6, <1>7, <1>8

LEMMA ResultTyped ==
  ASSUME CommandsFit, NEW p \in Processes, Saving(p), MaySave(p)
  PROVE  /\ Result(p) \in Vault /\ Result(p).tag = clock + 1 /\ Result(p).version = 2
         /\ Result(p).parent = proc[p].session.tag
         /\ Result(p).master = IF proc[p].master # Nothing THEN proc[p].master
                               ELSE proc[p].session.master
         /\ Kind(p) = "init"   => Result(p).items = <<>>
         /\ Kind(p) = "add"    => Result(p).items = Append(proc[p].session.items,
                                                           Applied(NewItem, proc[p].patch))
         /\ Kind(p) = "edit"   => Result(p).items =
              [proc[p].session.items EXCEPT ![proc[p].pick] = Applied(Picked(p), proc[p].patch)]
         /\ Kind(p) = "rm"     => Result(p).items =
              [proc[p].session.items EXCEPT ![proc[p].pick] = Deleted(@)]
         /\ Kind(p) = "rotate" => Result(p).items = proc[p].session.items
<1> DEFINE s == proc[p].session
           r == Result(p)
<1>1. /\ s \in Vault /\ s.items \in Seq(Item) /\ proc[p].patch \in [Fields -> Values \cup {Keep}]
      /\ s.tag \in Nat /\ s.master \in Masters \cup {Nothing}
      /\ proc[p].master \in Masters \cup {Nothing}
  BY SavedAtHead, Here DEF Process, Vault
<1>2. Kind(p) \in Changes
  BY SavedAtHead
<1>3. /\ r.tag = clock + 1 /\ r.version = 2 /\ r.parent = s.tag
      /\ r.master = IF proc[p].master # Nothing THEN proc[p].master ELSE s.master
      /\ Kind(p) = "init"   => r.items = <<>>
      /\ Kind(p) = "add"    => r.items = Append(s.items, Applied(NewItem, proc[p].patch))
      /\ Kind(p) = "edit"   => r.items = [s.items EXCEPT ![proc[p].pick] = Applied(Picked(p), proc[p].patch)]
      /\ Kind(p) = "rm"     => r.items = [s.items EXCEPT ![proc[p].pick] = Deleted(@)]
      /\ Kind(p) = "rotate" => r.items = s.items
  BY DEF Result
<1>4. r.items \in Seq(Item)
  <2>1. CASE Kind(p) = "init"
    <3>1. r.items = <<>> /\ <<>> \in Seq(Item)
      BY <1>3, <2>1
    <3> QED
      BY <3>1
  <2>2. CASE Kind(p) = "add"
    <3>1. Applied(NewItem, proc[p].patch) \in Item
      BY <1>1, NewItemTyped, AppliedItem
    <3>2. r.items = Append(s.items, Applied(NewItem, proc[p].patch))
      BY <1>3, <2>2
    <3> HIDE DEF r, s
    <3> QED
      BY <1>1, <3>1, <3>2, AppendProperties
  <2>3. CASE Kind(p) = "edit"
    <3>1. Applied(Picked(p), proc[p].patch) \in Item
      BY <1>1, <2>3, SavedAtHead, AppliedItem
    <3> QED
      BY <1>1, <1>3, <2>3, <3>1, ExceptSeq
  <2>4. CASE Kind(p) = "rm"
    <3>1. s.items[proc[p].pick] \in Item
      BY <1>1, <2>4, SavedAtHead
    <3>2. Deleted(s.items[proc[p].pick]) \in Item
      BY <3>1, DeletedItem
    <3> QED
      BY <1>1, <1>3, <2>4, <3>2, ExceptSeq
  <2>5. CASE Kind(p) = "rotate"
    BY <1>1, <1>3, <2>5
  <2> QED
    BY <1>2, <2>1, <2>2, <2>3, <2>4, <2>5 DEF Changes
<1>5. r \in Vault
  <2>1. clock + 1 \in Nat
    BY DEF CommandsFit, Typed
  <2> QED
    BY <1>1, <1>3, <1>4, <2>1 DEF Result, Vault
<1> QED
  BY <1>3, <1>5

LEMMA SaveMoves ==
  ASSUME CommandsFit, NEW p \in Processes, Save(p)
  PROVE  Moved(p)
<1>1. /\ proc[p].todo # <<>> /\ Head(proc[p].todo) \in Writes /\ Kind(p) \in Changes
      /\ Result(p) \in Vault /\ Result(p).tag # 0
  <2>1. Saving(p) /\ MaySave(p)
    BY DEF Save
  <2>2. Result(p).tag = clock + 1 /\ clock \in Nat
    BY <2>1, ResultTyped DEF CommandsFit, Typed
  <2>3. Result(p).tag # 0
    BY <2>2
  <2> QED
    BY <2>1, <2>3, SavedAtHead, ResultTyped
<1> DEFINE me == [proc[p] EXCEPT !.wrote = Result(p)]
           L  == In(proc[p].todo)
           M  == In(Tail(proc[p].todo))
<1>2. me \in Process
  BY <1>1, Here DEF Process
<1>3. /\ me.wrote = Result(p)
      /\ me.cmd = proc[p].cmd /\ me.todo = proc[p].todo /\ me.code = proc[p].code
      /\ me.session = proc[p].session /\ me.read = proc[p].read /\ me.pick = proc[p].pick
      /\ me.patch = proc[p].patch /\ me.line = proc[p].line /\ me.master = proc[p].master
      /\ me.shown = proc[p].shown /\ me.made = proc[p].made
  BY <1>1, Here DEF Process
<1>4. /\ NotBefore(proc[p], L) /\ After(p, proc[p], L) /\ Belongs(proc[p].cmd, Head(proc[p].todo))
      /\ proc[p].code = "running" /\ proc[p].cmd.kind # "none" /\ Known(proc[p].session)
      /\ L = M \cup {Head(proc[p].todo)} /\ \A y \in M : MayFollow(Head(proc[p].todo), y)
  BY <1>1, Here
<1> HIDE DEF me, L, M
<1>5. M \subseteq {"reveal"}
  BY <1>1, <1>4 DEF MayFollow, Writes
<1>6. NotBefore(me, M) /\ NotBefore(me, {})
  BY <1>1, <1>3, <1>4, <1>5
     DEF Kind, NotBefore, MayFollow, Picks, Belongs, Reads, Writes, Ends, Twice
<1>7. After(p, me, M)
  BY <1>1, <1>3, <1>4 DEF After, MayFollow, Picks, Writes, Ends, Kind, Changes, Creates
<1>8. CASE Continue(p, me)
  BY <1>1, <1>2, <1>3, <1>6, <1>7, <1>8, StageMoves DEF M
<1>9. CASE faults' = faults + 1 /\ End(p, me, "error")
  <2>1. faults' > 0
    BY <1>9 DEF CommandsFit, Typed
  <2> QED
    BY <1>1, <1>2, <1>3, <1>6, <1>9, <2>1, FailedStage
<1> QED
  BY <1>8, <1>9 DEF Save, me

LEMMA SaveFailsMoves ==
  ASSUME CommandsFit, NEW p \in Processes, SaveFails(p)
  PROVE  Moved(p)
<1>1. proc[p].todo # <<>> /\ Head(proc[p].todo) \in {"save", "create"} /\ End(p, proc[p], "error")
  BY DEF SaveFails, Saving, At
<1> QED
  BY <1>1, EndMoves DEF Codes

LEMMA InputEndsMoves ==
  ASSUME CommandsFit, NEW p \in Processes, InputEnds(p)
  PROVE  Moved(p)
<1> DEFINE old == proc[p]
           new == [old EXCEPT !.input = "ended"]
<1>1. proc[p].todo # <<>> /\ proc' = [proc EXCEPT ![p] = new]
  BY DEF InputEnds, At
<1>2. /\ old \in Process /\ Facts(p, old) /\ ErrorTrue(old) /\ old.cmd.kind # "none"
      /\ proc \in [Processes -> Process]
  BY <1>1, Here DEF CommandsFit, Typed
<1>3. new \in Process
  BY <1>2 DEF Process
<1>4. SameDoings(new, old) /\ new.todo = old.todo /\ new.code = old.code
  BY <1>2 DEF SameDoings, Process
<1> HIDE DEF new
<1>5. proc' \in [Processes -> Process] /\ proc'[p] = new /\ OthersStay(p)
  BY <1>1, <1>2, <1>3 DEF OthersStay
<1> HIDE DEF old
<1>6. Facts(p, new)
  <2>1. NotBefore(old, In(old.todo)) => NotBefore(new, In(old.todo))
    BY <1>4 DEF NotBefore, SameDoings
  <2>2. After(p, old, In(old.todo)) => After(p, new, In(old.todo))
    BY <1>4 DEF After, SameDoings, SameRecord
  <2> QED
    BY <1>2, <1>4, <2>1, <2>2 DEF Facts, SameDoings
<1>7. new.code # "error"
  <2>1. old.code = "running"
    BY <1>1, Here DEF old
  <2> QED
    BY <1>4, <2>1
<1> QED
  BY <1>5, <1>6, <1>7 DEF Moved, ErrorTrue

LEMMA KillMoves ==
  ASSUME CommandsFit, NEW p \in Processes, Kill(p)
  PROVE  Moved(p)
<1>1. proc[p].todo # <<>> /\ End(p, proc[p], "killed")
  BY DEF Kill
<1>2. /\ proc' \in [Processes -> Process] /\ OthersStay(p) /\ SameDoings(proc'[p], proc[p])
      /\ proc'[p].todo = <<>> /\ proc'[p].code = "killed"
  <2>1. "killed" \in Codes
    BY DEF Codes
  <2> QED
    BY <1>1, <2>1, Here, EndParts DEF CommandsFit
<1>3. Facts(p, proc'[p])
  <2>1. "killed" \in Codes \ {"running", "ok"} /\ "killed" \notin {"usage", "not_found", "cancelled"}
    BY DEF Codes
  <2> QED
    BY <1>1, <1>2, <2>1, Here, EndFacts
<1> QED
  BY <1>2, <1>3 DEF Moved, ErrorTrue

-----------------------------------------------------------------------------
(* What each stage leaves as it is *)

Course(p) ==
  LET old == proc[p]
      new == proc'[p]
  IN  /\ new.cmd = old.cmd
      /\ \/ new.session = old.session
         \/ new.session = vault /\ vault.tag # 0 /\ vault.version = 2 /\ UNCHANGED vault
      /\ new.read \in {old.read, vault}
      /\ \A f \in Fields : new.patch[f] \in {old.patch[f], Keep, Empty, Generated(p)} \cup Users \cup Secrets
      /\ new.patch = old.patch \/ Head(old.todo) \in Prompts
      /\ new.wrote = old.wrote \/ (Save(p) /\ new.wrote = Result(p))
      /\ new.shown = old.shown \/ (Deliver(p) \/ List(p) \/ PrintSnapshot(p) \/ Reveal(p))
      /\ new.made = old.made \/ CreateOut(p) \/ LinkOut(p)

\* A stage and the end of a script change the fields of a process that they say.
Names == {"cmd", "todo", "code", "input", "session", "read", "pick", "patch", "line", "master",
          "shown", "wrote", "made"}

LEMMA Does ==
  ASSUME Typed, NEW p \in Processes, NEW me, DOMAIN me = Names,
         me = [f \in Names |-> me[f]],
         Continue(p, me) \/ \E code : End(p, me, code)
  PROVE  SameDoings(proc'[p], me)
<1>1. proc'[p] = [me EXCEPT !.todo = Tail(@),
                            !.code = IF Len(me.todo) = 1 THEN "ok" ELSE "running"]
      \/ \E code : proc'[p] = [me EXCEPT !.todo = <<>>, !.code = code]
  BY DEF Continue, End, Typed
<1>2. CASE proc'[p] = [me EXCEPT !.todo = Tail(@),
                            !.code = IF Len(me.todo) = 1 THEN "ok" ELSE "running"]
  BY <1>2 DEF SameDoings, Names
<1>3. CASE \E code : proc'[p] = [me EXCEPT !.todo = <<>>, !.code = code]
  <2>1. PICK code : proc'[p] = [me EXCEPT !.todo = <<>>, !.code = code]
    BY <1>3
  <2> QED
    BY <2>1 DEF SameDoings, Names
<1> QED
  BY <1>1, <1>2, <1>3

LEMMA FieldNames ==
  ASSUME NEW me \in Process
  PROVE  DOMAIN me = Names /\ me = [f \in Names |-> me[f]]
BY DEF Process, Names

LEMMA PlainCourse ==
  ASSUME Typed, NEW p \in Processes,
         Continue(p, proc[p]) \/ \E code : End(p, proc[p], code)
  PROVE  Course(p)
<1>1. proc[p] \in Process
  BY DEF Typed
<1>2. SameDoings(proc'[p], proc[p])
  BY <1>1, FieldNames, Does
<1> QED
  BY <1>2 DEF SameDoings, Course

LEMMA AgainCourse ==
  ASSUME Typed, NEW p \in Processes, NEW stages,
         \/ Again(p, stages)
         \/ proc' = [proc EXCEPT ![p].todo = stages \o Tail(@)]
  PROVE  Course(p)
<1>1. proc[p] \in Process /\ proc \in [Processes -> Process]
  BY DEF Typed
<1>2. CASE Again(p, stages)
  BY <1>1, <1>2 DEF Course, Again, Process
<1>3. CASE proc' = [proc EXCEPT ![p].todo = stages \o Tail(@)]
  BY <1>1, <1>3 DEF Course, Process
<1> QED
  BY <1>2, <1>3

LEMMA NewMasterCourse ==
  ASSUME Typed, NEW p \in Processes, NewMaster(p)
  PROVE  Course(p)
<1>1. proc[p] \in Process /\ proc \in [Processes -> Process]
  BY DEF Typed
<1> QED
  BY <1>1 DEF Course, NewMaster, Process

LEMMA InputEndsCourse ==
  ASSUME Typed, NEW p \in Processes, InputEnds(p)
  PROVE  Course(p)
<1>1. proc[p] \in Process /\ proc \in [Processes -> Process]
  BY DEF Typed
<1> QED
  BY <1>1 DEF Course, InputEnds, Process

LEMMA PatchCourse ==
  ASSUME Typed, NEW p \in Processes, NEW field \in Fields,
         NEW a \in {Keep, Empty, Generated(p)} \cup Users \cup Secrets, Head(proc[p].todo) \in Prompts,
         Continue(p, [proc[p] EXCEPT !.patch[field] = a])
  PROVE  Course(p)
<1>1. proc \in [Processes -> Process] /\ proc[p].patch \in [Fields -> Values \cup {Keep}]
  BY DEF Typed, Process
<1> QED
  BY <1>1 DEF Course, Continue, Process

LEMMA AnswerCourse ==
  ASSUME Typed, NEW p \in Processes, NEW stage \in Prompts, NEW field \in Fields,
         NEW typed, NEW without,
         typed \cup without \subseteq {Keep, Empty, Generated(p)} \cup Users \cup Secrets,
         Answer(p, stage, field, typed, without)
  PROVE  Course(p)
BY PatchCourse DEF Answer, At

LEMMA KnowingCourse ==
  ASSUME Typed, NEW p \in Processes, NEW x,
         \/ Continue(p, [proc[p] EXCEPT !.pick = x])
         \/ Continue(p, [proc[p] EXCEPT !.master = x])
         \/ Continue(p, [proc[p] EXCEPT !.read = x]) /\ x = vault
         \/ /\ Continue(p, [proc[p] EXCEPT !.session = x]) /\ x = vault
            /\ vault.tag # 0 /\ vault.version = 2 /\ UNCHANGED vault
  PROVE  Course(p)
<1>1. proc[p] \in Process
  BY DEF Typed
<1>2. CASE Continue(p, [proc[p] EXCEPT !.pick = x])
  <2> DEFINE me == [proc[p] EXCEPT !.pick = x]
  <2>1. SameDoings(proc'[p], me)
    BY <1>1, <1>2, FieldNames, Does
  <2> QED
    BY <1>1, <2>1 DEF SameDoings, Course, Process
<1>3. CASE Continue(p, [proc[p] EXCEPT !.master = x])
  <2> DEFINE me == [proc[p] EXCEPT !.master = x]
  <2>1. SameDoings(proc'[p], me)
    BY <1>1, <1>3, FieldNames, Does
  <2> QED
    BY <1>1, <2>1 DEF SameDoings, Course, Process
<1>4. CASE Continue(p, [proc[p] EXCEPT !.read = x]) /\ x = vault
  <2> DEFINE me == [proc[p] EXCEPT !.read = x]
  <2>1. SameDoings(proc'[p], me)
    BY <1>1, <1>4, FieldNames, Does
  <2> QED
    BY <1>1, <1>4, <2>1 DEF SameDoings, Course, Process
<1>5. CASE /\ Continue(p, [proc[p] EXCEPT !.session = x]) /\ x = vault
           /\ vault.tag # 0 /\ vault.version = 2 /\ UNCHANGED vault
  <2> DEFINE me == [proc[p] EXCEPT !.session = x]
  <2>1. SameDoings(proc'[p], me)
    BY <1>1, <1>5, FieldNames, Does
  <2> QED
    BY <1>1, <1>5, <2>1 DEF SameDoings, Course, Process
<1> QED
  BY <1>2, <1>3, <1>4, <1>5

LEMMA ShowingCourse ==
  ASSUME Typed, NEW p \in Processes, NEW x, Continue(p, [proc[p] EXCEPT !.shown = x]),
         Deliver(p) \/ List(p) \/ PrintSnapshot(p) \/ Reveal(p)
  PROVE  Course(p)
<1> DEFINE me == [proc[p] EXCEPT !.shown = x]
<1>1. proc[p] \in Process
  BY DEF Typed
<1>2. SameDoings(proc'[p], me)
  BY <1>1, FieldNames, Does
<1> QED
  BY <1>1, <1>2 DEF SameDoings, Course, Process

LEMMA MakingCourse ==
  ASSUME Typed, NEW p \in Processes, CreateOut(p) \/ LinkOut(p),
         \/ Continue(p, [proc[p] EXCEPT !.made = TRUE])
         \/ End(p, [proc[p] EXCEPT !.made = TRUE], "error")
  PROVE  Course(p)
<1> DEFINE me == [proc[p] EXCEPT !.made = TRUE]
<1>1. proc[p] \in Process
  BY DEF Typed
<1>2. SameDoings(proc'[p], me)
  BY <1>1, FieldNames, Does
<1> QED
  BY <1>1, <1>2 DEF SameDoings, Course, Process

LEMMA WritingCourse ==
  ASSUME Typed, NEW p \in Processes, Save(p)
  PROVE  Course(p)
<1> DEFINE me == [proc[p] EXCEPT !.wrote = Result(p)]
<1>1. proc[p] \in Process
  BY DEF Typed
<1>2. Continue(p, me) \/ End(p, me, "error")
  BY DEF Save
<1>3. SameDoings(proc'[p], me)
  BY <1>1, <1>2, FieldNames, Does
<1> QED
  BY <1>1, <1>3 DEF SameDoings, Course, Process

LEMMA WroteResult ==
  ASSUME Typed, NEW p \in Processes, Save(p)
  PROVE  proc'[p].wrote = Result(p)
<1> DEFINE me == [proc[p] EXCEPT !.wrote = Result(p)]
<1>1. proc[p] \in Process
  BY DEF Typed
<1>2. Continue(p, me) \/ End(p, me, "error")
  BY DEF Save
<1>3. SameDoings(proc'[p], me)
  BY <1>1, <1>2, FieldNames, Does
<1> QED
  BY <1>1, <1>3 DEF SameDoings, Process

LEMMA CourseTaken ==
  ASSUME Typed, NEW p \in Processes, Step(p) \/ InputEnds(p) \/ Kill(p)
  PROVE  Course(p)
<1>1. CASE \/ Flags(p) \/ Exists(p) \/ Confirm(p) \/ AskMaster(p) \/ OutFree(p) \/ MakeWay(p)
           \/ PromptFails(p) \/ Unchanged(p) \/ SaveFails(p) \/ Kill(p) \/ WriteOut(p)
  BY <1>1, PlainCourse DEF Flags, Exists, Confirm, AskMaster, OutFree, MakeWay, PromptFails,
     Unchanged, SaveFails, Kill, WriteOut
<1>2. CASE Unlock(p)
  BY <1>2, PlainCourse, KnowingCourse DEF Unlock, Files
<1>3. CASE \/ Username(p) \/ Password(p) \/ TotpKey(p) \/ Generate(p)
           \/ UsernameOrKeep(p) \/ NotesOrKeep(p) \/ PasswordOrKeep(p)
  <2>1. /\ {"user", "pw", "notes", "totp"} = Fields
        /\ Users \cup Secrets \cup {Keep, Empty, Generated(p)}
             \subseteq {Keep, Empty, Generated(p)} \cup Users \cup Secrets
        /\ {"username", "password", "totp_key", "username_or_keep", "notes_or_keep",
            "password_or_keep", "generate"} = Prompts
    BY DEF Fields, Prompts
  <2>2. CASE Username(p)
    BY <2>1, <2>2, AnswerCourse DEF Username
  <2>3. CASE Password(p)
    BY <2>1, <2>3, AnswerCourse DEF Password
  <2>4. CASE TotpKey(p)
    BY <2>1, <2>4, AnswerCourse DEF TotpKey
  <2>5. CASE Generate(p)
    BY <2>1, <2>5, AnswerCourse DEF Generate
  <2>6. CASE UsernameOrKeep(p)
    BY <2>1, <2>6, AnswerCourse DEF UsernameOrKeep
  <2>7. CASE NotesOrKeep(p)
    BY <2>1, <2>7, AnswerCourse DEF NotesOrKeep
  <2>8. CASE PasswordOrKeep(p)
    BY <2>1, <2>8, AnswerCourse DEF PasswordOrKeep
  <2> QED
    BY <1>3, <2>2, <2>3, <2>4, <2>5, <2>6, <2>7, <2>8
<1>4. CASE NewMaster(p)
  BY <1>4, NewMasterCourse
<1>5. CASE RepeatMaster(p)
  BY <1>5, KnowingCourse, AgainCourse DEF RepeatMaster
<1>6. CASE Resolve(p)
  BY <1>6, KnowingCourse, PlainCourse, AgainCourse DEF Resolve
<1>7. CASE Select(p)
  BY <1>7, KnowingCourse, PlainCourse, AgainCourse DEF Select
<1>8. CASE ReadAgain(p)
  BY <1>8, KnowingCourse, PlainCourse DEF ReadAgain
<1>9. CASE ReadFile(p)
  BY <1>9, KnowingCourse, PlainCourse DEF ReadFile
<1>10. CASE Deliver(p)
  BY <1>10, ShowingCourse, PlainCourse DEF Deliver
<1>11. CASE List(p) \/ PrintSnapshot(p) \/ Reveal(p)
  BY <1>11, ShowingCourse DEF List, PrintSnapshot, Reveal
<1>12. CASE CreateOut(p)
  BY <1>12, MakingCourse, PlainCourse DEF CreateOut
<1>13. CASE LinkOut(p)
  BY <1>13, MakingCourse, PlainCourse DEF LinkOut
<1>14. CASE Save(p)
  BY <1>14, WritingCourse
<1>15. CASE InputEnds(p)
  BY <1>15, InputEndsCourse
<1> QED
  BY <1>1, <1>2, <1>3, <1>4, <1>5, <1>6, <1>7, <1>8, <1>9, <1>10, <1>11, <1>12, <1>13, <1>14, <1>15
     DEF Step

-----------------------------------------------------------------------------
(* What each stage does to the files *)

Began(p) == At(p, "create_out") /\ out = NoFile /\ out'.what = "partial"

World(p) ==
  /\ vault' \in Vault /\ clock' \in Nat /\ faults' \in 0 .. MaxFaults /\ out' \in Outputs
  /\ clock <= clock' /\ faults <= faults'
  /\ vault'.tag <= clock' /\ (vault'.tag = 0 => vault' = NoVault)
  /\ vault' = vault \/ vault'.tag = 0 \/ (Save(p) /\ vault'.tag > clock)
  /\ out' = out \/ Began(p) \/ WriteOut(p) \/ (LinkOut(p) /\ out = NoFile)
  /\ CreateOut(p) => Began(p) \/ proc'[p].made = proc[p].made

LEMMA NoVaultTagged == NoVault.tag = 0 /\ 0 \in Nat
BY DEF NoVault

LEMMA WorldStays ==
  ASSUME CommandsFit, NEW p \in Processes, UNCHANGED <<vault, out, clock>>,
         faults' \in {faults} \cup {faults + 1}, faults' <= MaxFaults, ~CreateOut(p)
  PROVE  World(p)
<1>1. faults' \in 0 .. MaxFaults /\ faults <= faults' /\ clock <= clock'
  BY BoundsAssumption DEF CommandsFit, Typed
<1> QED
  BY <1>1 DEF World, CommandsFit, Typed

LEMMA CreateOutWorld ==
  ASSUME CommandsFit, NEW p \in Processes, CreateOut(p)
  PROVE  World(p)
<1>1. /\ UNCHANGED <<vault, clock, faults>> /\ At(p, "create_out")
      /\ \/ out = NoFile /\ out' = [what |-> "partial", vault |-> NoVault]
         \/ out' = out /\ End(p, proc[p], "error")
  BY DEF CreateOut
<1>2. clock <= clock' /\ faults <= faults'
  BY <1>1 DEF CommandsFit, Typed
<1>3. out' \in Outputs
  BY <1>1, NoVaultTyped DEF Outputs, CommandsFit, Typed
<1>4. Began(p) \/ (out' = out /\ proc'[p].made = proc[p].made)
  <2>1. CASE out' = out /\ End(p, proc[p], "error")
    <3>1. proc[p] \in Process
      BY DEF CommandsFit, Typed
    <3>2. SameDoings(proc'[p], proc[p])
      BY <2>1, <3>1, FieldNames, Does DEF CommandsFit
    <3> QED
      BY <2>1, <3>2 DEF SameDoings
  <2> QED
    BY <1>1, <2>1 DEF Began
<1> QED
  BY <1>1, <1>2, <1>3, <1>4 DEF World, CommandsFit, Typed

LEMMA WriteOutWorld ==
  ASSUME CommandsFit, NEW p \in Processes, WriteOut(p)
  PROVE  World(p)
<1>1. /\ UNCHANGED <<vault, clock>> /\ ~CreateOut(p)
      /\ faults' = faults \/ (faults < MaxFaults /\ faults' = faults + 1)
      /\ out' = out \/ out' = [what |-> "plain", vault |-> proc[p].read]
  BY DEF WriteOut, CreateOut, At
<1>2. clock <= clock' /\ faults <= faults' /\ faults' \in 0 .. MaxFaults
  BY <1>1, BoundsAssumption DEF CommandsFit, Typed
<1>3. out' \in Outputs
  BY <1>1 DEF Outputs, CommandsFit, Typed, Process
<1> QED
  BY <1>1, <1>2, <1>3 DEF World, CommandsFit, Typed

LEMMA LinkOutWorld ==
  ASSUME CommandsFit, NEW p \in Processes, LinkOut(p)
  PROVE  World(p)
<1>1. /\ UNCHANGED <<vault, clock>> /\ ~CreateOut(p)
      /\ faults' = faults \/ (faults < MaxFaults /\ faults' = faults + 1)
      /\ \/ out' = out
         \/ /\ out = NoFile
            /\ out' = [what |-> "vault", vault |->
                         [proc[p].read EXCEPT !.version = IF Kind(p) = "migrate" THEN 2 ELSE @]]
  BY DEF LinkOut, CreateOut, At
<1>2. clock <= clock' /\ faults <= faults' /\ faults' \in 0 .. MaxFaults
  BY <1>1, BoundsAssumption DEF CommandsFit, Typed
<1>3. out' \in Outputs
  <2>1. proc[p].read \in Vault
    BY DEF CommandsFit, Typed, Process
  <2>2. [proc[p].read EXCEPT !.version = IF Kind(p) = "migrate" THEN 2 ELSE @] \in Vault
    BY <2>1 DEF Vault
  <2> QED
    BY <1>1, <2>2 DEF Outputs, CommandsFit, Typed
<1> QED
  BY <1>1, <1>2, <1>3 DEF World, CommandsFit, Typed

LEMMA MakeWayWorld ==
  ASSUME CommandsFit, NEW p \in Processes, MakeWay(p)
  PROVE  World(p)
<1>1. /\ UNCHANGED <<out, clock, faults>> /\ ~CreateOut(p)
      /\ vault' = vault \/ vault' = NoVault
  BY DEF MakeWay, CreateOut, At
<1>2. clock <= clock' /\ faults <= faults' /\ 0 <= clock
  BY <1>1 DEF CommandsFit, Typed
<1> QED
  BY <1>1, <1>2, NoVaultTyped, NoVaultTagged DEF World, CommandsFit, Typed

LEMMA SaveWorld ==
  ASSUME CommandsFit, NEW p \in Processes, Save(p)
  PROVE  World(p)
<1>1. /\ UNCHANGED out /\ ~CreateOut(p) /\ vault' = Result(p) /\ clock' = clock + 1
      /\ faults' = faults \/ (faults < MaxFaults /\ faults' = faults + 1)
      /\ Saving(p) /\ MaySave(p)
  BY DEF Save, CreateOut, Saving, At
<1>2. /\ clock <= clock' /\ clock' \in Nat /\ clock' > clock /\ clock' # 0
      /\ faults <= faults' /\ faults' \in 0 .. MaxFaults
  BY <1>1, BoundsAssumption DEF CommandsFit, Typed
<1>3. Result(p) \in Vault /\ Result(p).tag = clock'
  BY <1>1, ResultTyped
<1> QED
  BY <1>1, <1>2, <1>3 DEF World, CommandsFit, Typed

LEMMA WorldSeen ==
  ASSUME CommandsFit, NEW p \in Processes, Step(p) \/ InputEnds(p) \/ Kill(p)
  PROVE  World(p)
<1>1. CASE \/ Flags(p) \/ Exists(p) \/ Confirm(p) \/ AskMaster(p) \/ OutFree(p)
           \/ PromptFails(p) \/ Unchanged(p) \/ Unlock(p) \/ NewMaster(p) \/ RepeatMaster(p)
           \/ Username(p) \/ Password(p) \/ TotpKey(p) \/ Generate(p)
           \/ UsernameOrKeep(p) \/ NotesOrKeep(p) \/ PasswordOrKeep(p)
           \/ Resolve(p) \/ Select(p) \/ ReadAgain(p) \/ Deliver(p) \/ List(p)
           \/ PrintSnapshot(p) \/ ReadFile(p) \/ Reveal(p) \/ InputEnds(p)
  <2>1. UNCHANGED <<Files, faults>>
    BY <1>1
       DEF Flags, Exists, Confirm, AskMaster, OutFree, PromptFails, Unchanged, Unlock, NewMaster,
       RepeatMaster, Username, Password, TotpKey, Generate, UsernameOrKeep, NotesOrKeep,
       PasswordOrKeep, Answer, Resolve, Select, ReadAgain, Deliver, List, PrintSnapshot, ReadFile, Reveal,
       InputEnds
  <2>2. CASE ~CreateOut(p)
    BY <2>1, <2>2, WorldStays DEF Files, CommandsFit, Typed
  <2>3. CASE CreateOut(p)
    BY <2>3, CreateOutWorld
  <2> QED
    BY <2>2, <2>3
<1>2. CASE SaveFails(p) \/ Kill(p)
  <2>1. UNCHANGED <<vault, out, clock>> /\ faults' \in {faults, faults + 1} /\ faults' <= MaxFaults
    BY <1>2, BoundsAssumption DEF SaveFails, Kill, Files, CommandsFit, Typed
  <2>2. CASE ~CreateOut(p)
    BY <2>1, <2>2, WorldStays
  <2>3. CASE CreateOut(p)
    BY <2>3, CreateOutWorld
  <2> QED
    BY <2>2, <2>3
<1>3. CASE CreateOut(p)
  BY <1>3, CreateOutWorld
<1>4. CASE WriteOut(p)
  BY <1>4, WriteOutWorld
<1>5. CASE LinkOut(p)
  BY <1>5, LinkOutWorld
<1>6. CASE MakeWay(p)
  BY <1>6, MakeWayWorld
<1>7. CASE Save(p)
  BY <1>7, SaveWorld
<1> QED
  BY <1>1, <1>2, <1>3, <1>4, <1>5, <1>6, <1>7 DEF Step

-----------------------------------------------------------------------------
(* The invariant holds *)

LEMMA StageAtHead ==
  ASSUME NEW p \in Processes, Step(p) \/ InputEnds(p) \/ Kill(p)
  PROVE  proc[p].todo # <<>>
BY DEF Step, Kill, At, Flags, Exists, Confirm, AskMaster, OutFree, MakeWay, PromptFails, Unlock,
   Username, Password, TotpKey, Generate, UsernameOrKeep, NotesOrKeep, PasswordOrKeep, Answer,
   NewMaster, RepeatMaster, Resolve, Select, ReadAgain, Deliver, List, PrintSnapshot, ReadFile,
   CreateOut, WriteOut, LinkOut, Unchanged, Save, SaveFails, Saving, Reveal, InputEnds

LEMMA StageMoved ==
  ASSUME CommandsFit, NEW p \in Processes, Step(p) \/ InputEnds(p) \/ Kill(p)
  PROVE  Moved(p)
BY FlagsMoves, ChecksMove, PromptFailsMoves, PromptsMove, NewMasterMoves, UnlockMoves,
   RepeatMasterMoves, SelectMoves, ResolveMoves, ReadAgainMoves, ReadFileMoves, DeliverMoves,
   ShowsMove, RevealMoves, CreateOutMoves, WriteOutMoves, LinkOutMoves, UnchangedMoves, SaveMoves,
   SaveFailsMoves, InputEndsMoves, KillMoves DEF Step

NowKnown(v) ==
  /\ v.tag <= clock' /\ (v.tag # 0 /\ v.tag = vault'.tag => v = vault')
  /\ IF v.tag = 0 THEN v = NoVault ELSE v.version = 2

LEMMA KnownStays ==
  ASSUME CommandsFit, NEW p \in Processes, World(p), NEW v \in Vault, Known(v)
  PROVE  NowKnown(v)
<1>1. v.tag \in Nat /\ clock \in Nat /\ clock' \in Nat /\ vault'.tag \in Nat
  BY DEF CommandsFit, Typed, Vault, World
<1>2. v.tag <= clock'
  BY <1>1 DEF Known, World
<1>3. v.tag # 0 /\ v.tag = vault'.tag => v = vault'
  BY <1>1 DEF Known, World
<1> QED
  BY <1>2, <1>3 DEF Known, NowKnown

LEMMA SessionsKnown ==
  ASSUME CommandsFit, NEW p \in Processes, Moved(p), World(p), Course(p)
  PROVE  \A q \in Processes : NowKnown(proc'[q].session)
<1>1. SUFFICES ASSUME NEW q \in Processes
               PROVE  NowKnown(proc'[q].session)
  OBVIOUS
<1>2. proc[q].session \in Vault /\ Known(proc[q].session)
  BY DEF CommandsFit, Typed, Process
<1>3. CASE proc'[q].session = proc[q].session
  BY <1>2, <1>3, KnownStays
<1>4. CASE /\ proc'[q].session = vault /\ vault.tag # 0 /\ vault.version = 2 /\ UNCHANGED vault
  BY <1>4 DEF NowKnown, World
<1>5. q # p => proc'[q] = proc[q]
  BY DEF Moved, OthersStay
<1> QED
  BY <1>3, <1>4, <1>5 DEF Course

\* Only the export that created the output writes to it.
LEMMA WritesItsOwn ==
  ASSUME CommandsFit, NEW p \in Processes, WriteOut(p)
  PROVE  Exporting(proc[p])
<1>1. proc[p].todo # <<>> /\ Head(proc[p].todo) = "write_out"
  BY DEF WriteOut, At
<1>2. /\ Belongs(proc[p].cmd, "write_out")
      /\ After(p, proc[p], In(proc[p].todo)) /\ "write_out" \in In(proc[p].todo)
      /\ In(proc[p].todo) = In(Tail(proc[p].todo)) \cup {"write_out"}
      /\ \A y \in In(Tail(proc[p].todo)) : MayFollow("write_out", y)
  BY <1>1, Here
<1>3. "create_out" \notin In(proc[p].todo)
  BY <1>2 DEF MayFollow, Ends
<1>4. proc[p].cmd.kind = "export" /\ "file" \in proc[p].cmd.opts
  BY <1>2 DEF Belongs
<1> QED
  BY <1>2, <1>3, <1>4 DEF After, Exporting

LEMMA ExportsApart ==
  ASSUME CommandsFit, NEW p \in Processes, Moved(p), Course(p), World(p), proc[p].todo # <<>>
  PROVE  \A q \in Processes : Exporting(proc'[q]) =>
           out'.what = "partial" /\ \A r \in Processes : Exporting(proc'[r]) => r = q
<1>1. \A q \in Processes \ {p} : Exporting(proc'[q]) => Exporting(proc[q])
  BY DEF Moved, OthersStay
<1>2. \A q, r \in Processes : Exporting(proc[q]) /\ Exporting(proc[r]) => out.what = "partial" /\ r = q
  BY DEF CommandsFit
<1>3. out = NoFile => \A q \in Processes : ~Exporting(proc[q])
  BY DEF CommandsFit, NoFile
<1>4. Exporting(proc'[p]) => Exporting(proc[p]) \/ Began(p)
  <2>1. CASE proc'[p].made = proc[p].made
    <3>1. proc[p].made => In(proc[p].todo) \subseteq {"write_out"} /\ In(proc[p].todo) # {}
      BY Here DEF NotBefore
    <3> QED
      BY <2>1, <3>1 DEF Exporting
  <2>2. CASE CreateOut(p)
    BY <2>1, <2>2 DEF World
  <2>3. CASE LinkOut(p)
    <3>1. proc[p].cmd.kind \in Creates
      BY <2>3, Here DEF LinkOut, At, Belongs
    <3>2. proc'[p].cmd.kind # "export"
      BY <3>1 DEF Course, Creates
    <3> QED
      BY <3>2 DEF Moved, Facts, Exporting, Belongs
  <2> QED
    BY <2>1, <2>2, <2>3 DEF Course
<1>5. CASE Began(p)
  BY <1>1, <1>3, <1>5 DEF Began
<1>6. CASE WriteOut(p)
  <2>1. Exporting(proc[p])
    BY <1>6, WritesItsOwn
  <2>2. ~Exporting(proc'[p])
    <3>1. "write_out" \notin In(Tail(proc[p].todo))
      BY <1>6, Here DEF WriteOut, At, MayFollow, Ends
    <3>2. proc[p] \in Process /\ InOrder(proc[p].todo)
      BY Here
    <3>3. Continue(p, proc[p]) \/ End(p, proc[p], "error")
      BY <1>6 DEF WriteOut
    <3>4. proc'[p].todo = Tail(proc[p].todo) \/ proc'[p].todo = <<>>
      BY <3>2, <3>3, ContinueParts, EndParts DEF CommandsFit, Codes
    <3> QED
      BY <3>1, <3>4, Short DEF Exporting
  <2> QED
    BY <1>1, <1>2, <2>1, <2>2
<1>7. CASE LinkOut(p) /\ out = NoFile
  <2>1. ~Began(p)
    BY <1>7 DEF LinkOut, At, Began
  <2> QED
    BY <1>1, <1>3, <1>4, <1>7, <2>1
<1>8. CASE out' = out /\ ~Began(p)
  BY <1>1, <1>2, <1>4, <1>8
<1> QED
  BY <1>5, <1>6, <1>7, <1>8 DEF World

LEMMA StepFits ==
  ASSUME CommandsFit, NEW p \in Processes, Step(p) \/ InputEnds(p) \/ Kill(p)
  PROVE  CommandsFit'
<1>1. proc[p].todo # <<>> /\ Moved(p) /\ Course(p) /\ World(p)
  BY StageAtHead, StageMoved, CourseTaken, WorldSeen DEF CommandsFit
<1>2. Typed'
  BY <1>1 DEF Typed, Moved, World
<1>3. ASSUME NEW q \in Processes
      PROVE  /\ Facts(q, proc'[q]) /\ ErrorTrue(proc[q])'
             /\ proc'[q].cmd \in Runs[q] \cup {Idle.cmd}
  <2>1. CASE q = p
    BY <1>1, <2>1 DEF Moved, Course, CommandsFit
  <2>2. CASE q # p
    <3>1. proc'[q] = proc[q] /\ ErrorTrue(proc[q])
      BY <1>1, <2>2 DEF Moved, OthersStay, CommandsFit
    <3>2. faults > 0 => faults' > 0
      BY <1>1 DEF World, CommandsFit, Typed
    <3> QED
      BY <3>1, <3>2 DEF ErrorTrue, CommandsFit
  <2> QED
    BY <2>1, <2>2
<1>4. vault'.tag <= clock' /\ (vault'.tag = 0 => vault' = NoVault)
  BY <1>1 DEF World
<1>5. \A q \in Processes : Known(proc[q].session)'
  BY <1>1, SessionsKnown DEF NowKnown, Known
<1>6. \A q \in Processes : Exporting(proc'[q]) =>
        out'.what = "partial" /\ \A r \in Processes : Exporting(proc'[r]) => r = q
  BY <1>1, ExportsApart
<1> QED
  BY <1>2, <1>3, <1>4, <1>5, <1>6 DEF CommandsFit, Exporting

LEMMA IdleTyped ==
  /\ Idle \in Process /\ Idle.cmd.kind = "none" /\ Idle.todo = <<>> /\ Idle.code = "running"
  /\ Idle.session = NoVault /\ Idle.read = NoVault /\ Idle.pick = 0 /\ Idle.patch = NoPatch
  /\ Idle.line = Nothing /\ Idle.master = Nothing /\ Idle.shown = {} /\ Idle.wrote = NoVault
  /\ Idle.made = FALSE
<1>1. <<>> \in Seq(Stage) /\ "running" \in Codes
  BY DEF Codes
<1>2. NoPatch \in [Fields -> Values \cup {Keep}]
  BY DEF NoPatch
<1> QED
  BY <1>1, <1>2, NoVaultTyped DEF Idle, Process

LEMMA IdleFacts ==
  ASSUME NEW p
  PROVE  Facts(p, Idle)
<1>1. In(Idle.todo) = {} /\ InOrder(Idle.todo)
  BY IdleTyped, Short
<1>2. NotBefore(Idle, {})
  BY IdleTyped, NoVaultTagged DEF NotBefore
<1>3. After(p, Idle, {})
  BY IdleTyped DEF After, Picking, Opening, Patching, Changes, Creates
<1> QED
  BY <1>1, <1>2, <1>3, IdleTyped DEF Facts

\* A command begins: nothing is known or done, and everything is left to do.
LEMMA StartMoves ==
  ASSUME CommandsFit, NEW p \in Processes, Start(p)
  PROVE  /\ proc' \in [Processes -> Process] /\ OthersStay(p)
         /\ Facts(p, proc'[p]) /\ proc'[p].cmd \in Runs[p]
         /\ proc'[p].session = NoVault /\ proc'[p].made = FALSE /\ proc'[p].code = "running"
         /\ proc'[p].read = NoVault /\ proc'[p].wrote = NoVault /\ proc'[p].shown = {}
         /\ \A f \in Fields : proc'[p].patch[f] \in Users \cup Secrets \cup {Keep, Empty}
<1>1. PICK cmd \in Runs[p], user \in Users \cup {Keep}, notes \in Secrets \cup {Keep, Empty} :
        proc' = [proc EXCEPT ![p].cmd = cmd, ![p].todo = Script(cmd),
                             ![p].patch.user = user, ![p].patch.notes = notes]
  <2>1. PICK cmd \in Runs[p] : \E user \in FlaggedUser(cmd.opts), notes \in FlaggedNotes(cmd.opts) :
          proc' = [proc EXCEPT ![p].cmd = cmd, ![p].todo = Script(cmd),
                               ![p].patch.user = user, ![p].patch.notes = notes]
    BY DEF Start
  <2>2. /\ FlaggedUser(cmd.opts) \subseteq Users \cup {Keep}
        /\ FlaggedNotes(cmd.opts) \subseteq Secrets \cup {Keep, Empty}
    BY DEF FlaggedUser, FlaggedNotes
  <2> QED
    BY <2>1, <2>2
<1>2. cmd \in AllCommands /\ GoodScript(cmd, Script(cmd))
  BY RunsAssumption, ScriptsGood
<1> DEFINE patch == [NoPatch EXCEPT !.user = user, !.notes = notes]
           new == [Idle EXCEPT !.cmd = cmd, !.todo = Script(cmd), !.patch = patch]
<1>3. /\ patch \in [Fields -> Values \cup {Keep}]
      /\ \A f \in Fields : patch[f] \in Users \cup Secrets \cup {Keep, Empty}
  BY DEF NoPatch, Fields, Values
<1>4. proc' = [proc EXCEPT ![p] = new]
  <2>1. proc[p] = Idle /\ proc \in [Processes -> Process] /\ "patch" \in DOMAIN Idle
    BY DEF Start, CommandsFit, Typed, Idle
  <2>2. [Idle EXCEPT !.cmd = cmd, !.todo = Script(cmd), !.patch.user = user, !.patch.notes = notes] = new
    BY ZenonT(60) DEF Idle
  <2> QED
    BY <1>1, <2>1, <2>2
<1> HIDE DEF patch
<1>5. new \in Process
  <2>1. Script(cmd) \in Seq(Stage)
    BY <1>2 DEF GoodScript, InOrder
  <2> QED
    BY <1>2, <1>3, <2>1, IdleTyped DEF Process
<1>6. /\ new.cmd = cmd /\ new.todo = Script(cmd) /\ new.patch = patch /\ new.code = "running"
      /\ new.session = NoVault /\ new.read = NoVault /\ new.pick = 0
      /\ new.line = Nothing /\ new.master = Nothing /\ new.shown = {} /\ new.wrote = NoVault
      /\ new.made = FALSE
  BY IdleTyped DEF Process
<1> HIDE DEF new
<1>7. proc' \in [Processes -> Process] /\ OthersStay(p) /\ proc'[p] = new
  BY <1>4, <1>5 DEF CommandsFit, Typed, OthersStay
<1> DEFINE L == In(Script(cmd))
<1>8. InOrder(new.todo) /\ In(new.todo) = L /\ L # {} /\ \A x \in L : Belongs(cmd, x)
  <2>1. InOrder(Script(cmd)) /\ Script(cmd) # <<>> /\ \A x \in L : Belongs(cmd, x)
    BY <1>2 DEF GoodScript
  <2>2. L # {}
    BY <2>1, Rest
  <2> QED
    BY <1>6, <2>1, <2>2
<1>9. Covers(cmd, L)
  BY <1>2 DEF GoodScript
<1> HIDE DEF L
<1>10. NotBefore(new, L)
  BY <1>6, NoVaultTagged DEF NotBefore
<1>11. After(p, new, L)
  BY <1>6, <1>9 DEF After, Covers, Picks, Writes
<1>12. cmd.kind # "none"
  BY <1>2, KindsOfCommands DEF Kinds
<1>13. Facts(p, new)
  BY <1>6, <1>8, <1>10, <1>11, <1>12 DEF Facts
<1> QED
  BY <1>3, <1>6, <1>7, <1>13

LEMMA StartFits ==
  ASSUME CommandsFit, NEW p \in Processes, Start(p)
  PROVE  CommandsFit'
<1>1. UNCHANGED <<vault, out, clock, faults>>
  BY DEF Start, Files
<1>2. Typed'
  BY <1>1, StartMoves DEF Typed, CommandsFit
<1>3. \A q \in Processes \ {p} : proc'[q] = proc[q]
  BY StartMoves DEF OthersStay
<1>4. ASSUME NEW q \in Processes
      PROVE  /\ Facts(q, proc'[q]) /\ Known(proc[q].session)' /\ ErrorTrue(proc[q])'
             /\ proc'[q].cmd \in Runs[q] \cup {Idle.cmd}
             /\ Exporting(proc'[q]) => q # p
  <2>1. CASE q = p
    <3>1. Facts(q, proc'[q]) /\ proc'[q].cmd \in Runs[q] /\ ~Exporting(proc'[q]) /\ ErrorTrue(proc[q])'
      BY <2>1, StartMoves DEF Exporting, ErrorTrue
    <3>2. proc'[q].session = NoVault /\ proc'[q].session.tag = 0 /\ 0 <= clock'
      <4>1. proc'[q].session = NoVault
        BY <2>1, StartMoves
      <4>2. clock' = clock /\ clock \in Nat
        BY <1>1 DEF CommandsFit, Typed
      <4> QED
        BY <4>1, <4>2, NoVaultTagged
    <3>3. Known(proc[q].session)'
      BY <3>2 DEF Known
    <3> QED
      BY <3>1, <3>3
  <2>2. CASE q # p
    BY <1>1, <1>3, <2>2 DEF CommandsFit, Known, ErrorTrue
  <2> QED
    BY <2>1, <2>2
<1> QED
  BY <1>1, <1>2, <1>3, <1>4 DEF CommandsFit, Exporting

LEMMA ForeignFileFits ==
  ASSUME CommandsFit, ForeignFile
  PROVE  CommandsFit'
<1>1. UNCHANGED <<vault, clock, proc, faults>> /\ out = NoFile /\ out'.what = "foreign"
      /\ out' \in Outputs
  BY NoVaultTyped DEF ForeignFile, Outputs
<1>2. \A q \in Processes : ~Exporting(proc[q])
  BY <1>1 DEF CommandsFit, NoFile
<1> QED
  BY <1>1, <1>2 DEF CommandsFit, Typed, Known, ErrorTrue, Exporting

LEMMA InitFits ==
  ASSUME Init
  PROVE  CommandsFit
<1>1. vault \in Vault /\ (vault.tag = 0 => vault = NoVault) /\ clock = vault.tag
      /\ out = NoFile /\ faults = 0 /\ \A p \in Processes : proc[p] = Idle
  BY VaultsAssumption DEF Init
<1>2. Typed
  BY <1>1, IdleTyped, NoVaultTyped, BoundsAssumption DEF Typed, Init, Vault, Outputs, NoFile
<1>3. \A p \in Processes : /\ Facts(p, proc[p]) /\ ErrorTrue(proc[p]) /\ ~Exporting(proc[p])
                           /\ Known(proc[p].session) /\ proc[p].cmd = Idle.cmd
  BY <1>1, <1>2, IdleFacts, IdleTyped, NoVaultTagged DEF ErrorTrue, Exporting, Known, Typed
<1> QED
  BY <1>1, <1>2, <1>3 DEF CommandsFit, Typed

LEMMA CommandsFitInductive ==
  ASSUME CommandsFit, [Next]_vars
  PROVE  CommandsFit'
<1>1. CASE UNCHANGED vars
  BY <1>1 DEF vars, CommandsFit, Typed, Known, ErrorTrue, Exporting
<1>2. CASE AllEnded
  BY <1>1, <1>2 DEF AllEnded
<1> QED
  BY <1>1, <1>2, StartFits, StepFits, ForeignFileFits DEF Next

\* Every command keeps to its script, and what it knows and has done to what is left of it.
THEOREM CommandsFitAlways == Spec => []CommandsFit
<1>1. Init => CommandsFit
  BY InitFits
<1>2. CommandsFit /\ [Next]_vars => CommandsFit'
  BY CommandsFitInductive
<1> QED
  BY <1>1, <1>2, PTL DEF Spec

-----------------------------------------------------------------------------
(* What follows from the invariant *)

LEMMA TypeOKFollows ==
  ASSUME CommandsFit
  PROVE  TypeOK
<1>1. ASSUME NEW p \in Processes
      PROVE  LET me == proc[p]
             IN  /\ me.code \in Codes /\ me.input \in {"open", "ended"}
                 /\ me.cmd \in Runs[p] \/ me = Idle
                 /\ {me.session, me.read, me.wrote} \subseteq Vault
                 /\ me.pick \in 0 .. Len(me.session.items)
                 /\ me.patch \in [Fields -> Values \cup {Keep}] /\ me.shown \subseteq Values
                 /\ me.line \in Masters \cup Weak \cup {Nothing}
                 /\ me.master \in Masters \cup {Nothing}
                 /\ me.made \in BOOLEAN
                 /\ me.code = "running" <=> me.todo # <<>> \/ me = Idle
  <2> DEFINE me == proc[p]
  <2>1. me \in Process /\ Facts(p, me) /\ me.cmd \in Runs[p] \cup {Idle.cmd}
    BY DEF CommandsFit, Typed
  <2>2. me.cmd \in Runs[p] \/ me = Idle
    BY <2>1, IdleTyped DEF Facts
  <2>3. me.pick \in 0 .. Len(me.session.items)
    <3>1. me.session.items \in Seq(Item) /\ me.pick \in Nat
      BY <2>1 DEF Process, Vault
    <3>2. me.pick # 0 => me.pick \in DOMAIN me.session.items
      BY <2>1 DEF Facts, NotBefore
    <3> QED
      BY <3>1, <3>2
  <2>4. me.code = "running" <=> me.todo # <<>> \/ me = Idle
    <3>1. In(me.todo) # {} <=> me.todo # <<>>
      BY <2>1, Rest, Short DEF Facts
    <3>2. me.cmd.kind = "none" <=> me = Idle
      BY <2>1, IdleTyped DEF Facts
    <3> QED
      BY <2>1, <3>1, <3>2 DEF Facts
  <2> QED
    BY <2>1, <2>2, <2>3, <2>4 DEF Process
<1> QED
  BY <1>1 DEF CommandsFit, Typed, TypeOK, Outputs

LEMMA ExitCodeFollows ==
  ASSUME CommandsFit
  PROVE  ExitCodeTrue
<1>1. ASSUME NEW p \in Processes, proc[p].code = "ok"
      PROVE  /\ Kind(p) \in Changes => proc[p].wrote.tag # 0 \/ SameAsBefore(p)
             /\ Kind(p) \in Creates \/ Has(p, "file") => proc[p].made
  <2>1. /\ proc[p] \in Process /\ In(proc[p].todo) = {} /\ proc[p].cmd.kind # "none"
        /\ After(p, proc[p], {})
    BY <1>1 DEF CommandsFit, Typed, Facts
  <2>2. proc[p].cmd \in AllCommands
    BY <2>1, IdleTyped DEF Process
  <2>3. Has(p, "file") => Kind(p) = "export"
    BY <2>2, KindsOfCommands DEF Has, Kind
  <2> QED
    BY <2>1, <2>3 DEF After, Kind, Has, SameRecord, SameAsBefore, Picked
<1>2. ASSUME NEW p \in Processes
      PROVE  /\ proc[p].code \in {"usage", "not_found", "cancelled"} =>
                  ~(proc[p].wrote.tag # 0 \/ proc[p].made)
             /\ proc[p].code = "error" /\ (proc[p].wrote.tag # 0 \/ proc[p].made) => faults > 0
  BY DEF CommandsFit, Facts, ErrorTrue
<1> QED
  BY <1>1, <1>2 DEF ExitCodeTrue

LEMMA ReadsOneCommitFollows ==
  ASSUME CommandsFit
  PROVE  ReadsOneCommit
BY DEF CommandsFit, Facts, NotBefore, ReadsOneCommit

\* The variables keep their types; a process that has ended has no stage left.
THEOREM TypeOKAlways == Spec => []TypeOK
BY CommandsFitAlways, TypeOKFollows, PTL

\* The exit code says what happened to the files: 0 that the commit or the output is
\* there, usage, not found and cancelled that nothing was written, and an error of a
\* command that did write is one of the file system.
THEOREM ExitCodeTrueAlways == Spec => []ExitCodeTrue
BY CommandsFitAlways, ExitCodeFollows, PTL

\* What a command prints, copies or exports is of the commit it resolved its item in.
THEOREM ReadsOneCommitAlways == Spec => []ReadsOneCommit
BY CommandsFitAlways, ReadsOneCommitFollows, PTL

-----------------------------------------------------------------------------
(* What a commit changes *)

LEMMA Writer ==
  ASSUME CommandsFit, [Next]_vars, NEW p \in Processes,
         proc[p].wrote.tag = 0, proc'[p].wrote.tag # 0
  PROVE  Save(p)
<1>1. CASE UNCHANGED proc
  BY <1>1
<1>2. ASSUME NEW q \in Processes, Start(q)
      PROVE  FALSE
  <2>1. proc'[p] = proc[p] \/ proc'[p].wrote = NoVault
    BY <1>2, StartMoves DEF OthersStay
  <2> QED
    BY <2>1, NoVaultTagged
<1>3. ASSUME NEW q \in Processes, Step(q) \/ InputEnds(q) \/ Kill(q)
      PROVE  Save(p)
  <2>1. OthersStay(q) /\ Course(q)
    BY <1>3, StageMoved, CourseTaken DEF Moved, CommandsFit
  <2> QED
    BY <2>1 DEF OthersStay, Course
<1> QED
  BY <1>1, <1>2, <1>3 DEF Next, ForeignFile, AllEnded, vars

LEMMA SaveChangesWhatWasShown ==
  ASSUME CommandsFit, NEW p \in Processes, Save(p), Kind(p) # "init"
  PROVE  LET i == proc[p].pick
         IN  /\ \A j \in DOMAIN vault.items : j # i => vault'.items[j] = vault.items[j]
             /\ i # 0 => vault.items[i] = proc[p].session.items[i]
             /\ Kind(p) = "edit" =>
                  \A f \in Fields : proc[p].patch[f] = Keep =>
                    vault'.items[i].has[f] = vault.items[i].has[f]
             /\ vault'.master # vault.master => vault'.master = proc[p].line
<1> DEFINE i == proc[p].pick
           s == proc[p].session
<1>1. Saving(p) /\ MaySave(p) /\ vault' = Result(p)
  BY DEF Save
<1>2. /\ vault = s /\ Kind(p) \in Changes /\ proc[p].todo # <<>>
      /\ Kind(p) \in {"edit", "rm"} => i \in DOMAIN s.items
      /\ Kind(p) = "edit" => proc[p].read = s /\ Picked(p) \in Item
  BY <1>1, SavedAtHead
<1>3. s.items \in Seq(Item) /\ proc[p].patch \in [Fields -> Values \cup {Keep}]
  BY <1>2, Here DEF Process, Vault
<1>4. \A j \in DOMAIN s.items : j # i => vault'.items[j] = s.items[j]
  <2>1. CASE Kind(p) = "add"
    <3>1. Applied(NewItem, proc[p].patch) \in Item
      BY <1>3, AppliedItem, NewItemTyped
    <3>2. vault'.items = Append(s.items, Applied(NewItem, proc[p].patch))
      BY <1>1, <2>1, ResultTyped
    <3> HIDE DEF s
    <3> QED
      BY <1>3, <3>1, <3>2, AppendProperties
  <2>2. CASE Kind(p) \in {"edit", "rm", "rotate"}
    BY <1>1, <1>3, <2>2, ResultTyped
  <2> QED
    BY <1>2, <2>1, <2>2 DEF Changes
<1>5. ASSUME Kind(p) = "edit", NEW f \in Fields, proc[p].patch[f] = Keep
      PROVE  vault'.items[i].has[f] = s.items[i].has[f]
  <2>1. vault'.items[i] = Applied(Picked(p), proc[p].patch)
    BY <1>1, <1>2, <1>3, <1>5, ResultTyped
  <2>2. Picked(p) = s.items[i]
    BY <1>2, <1>5 DEF Picked
  <2>3. Applied(Picked(p), proc[p].patch).has[f] = Picked(p).has[f]
    <3>1. Picked(p) \in Item
      BY <1>2, <1>5
    <3>2. Applied(Picked(p), proc[p].patch).has =
            [g \in Fields |-> IF proc[p].patch[g] = Keep THEN Picked(p).has[g] ELSE proc[p].patch[g]]
      BY <1>3, <3>1, AppliedItem
    <3> QED
      BY <1>5, <3>2
  <2> QED
    BY <2>1, <2>2, <2>3
<1>6. vault'.master # s.master => vault'.master = proc[p].line
  <2>1. proc[p].master # Nothing => proc[p].master = proc[p].line
    BY <1>2, Here DEF NotBefore
  <2> QED
    BY <1>1, <2>1, ResultTyped
<1> QED
  BY <1>2, <1>4, <1>5, <1>6

\* A commit changes the item its user chose, as it was shown, and no other.
THEOREM ChangesWhatWasShownAlways == Spec => ChangesWhatWasShown
<1> DEFINE A == \A p \in Processes :
                  proc[p].wrote.tag = 0 /\ proc'[p].wrote.tag # 0 /\ Kind(p) # "init" =>
                    LET i == proc[p].pick
                    IN  /\ \A j \in DOMAIN vault.items : j # i => vault'.items[j] = vault.items[j]
                        /\ i # 0 => vault.items[i] = proc[p].session.items[i]
                        /\ Kind(p) = "edit" =>
                             \A f \in Fields : proc[p].patch[f] = Keep =>
                               vault'.items[i].has[f] = vault.items[i].has[f]
                        /\ vault'.master # vault.master => vault'.master = proc[p].line
<1>1. CommandsFit /\ [Next]_vars => A
  BY Writer, SaveChangesWhatWasShown
<1>2. CommandsFit /\ [Next]_vars => [A]_vars
  BY <1>1
<1> QED
  BY <1>2, CommandsFitAlways, PTL DEF Spec, ChangesWhatWasShown

LEMMA NothingReplacedNext ==
  ASSUME CommandsFit, [Next]_vars
  PROVE  /\ out # NoFile /\ out' # out => \E p \in Processes : proc[p].made /\ out.what = "partial"
         /\ vault'.tag > clock => vault.tag = vault'.parent
         /\ vault.version = 1 => vault' \in {vault, NoVault}
<1>1. ~(vault.tag > clock)
  BY DEF CommandsFit, Typed, Vault
<1>2. CASE UNCHANGED <<vault, out>>
  BY <1>1, <1>2
<1>3. CASE ForeignFile
  BY <1>1, <1>3 DEF ForeignFile
<1>4. ASSUME NEW p \in Processes, Step(p) \/ InputEnds(p) \/ Kill(p)
      PROVE  /\ out # NoFile /\ out' # out => proc[p].made /\ out.what = "partial"
             /\ vault'.tag > clock => vault.tag = vault'.parent
             /\ vault.version = 1 => vault' \in {vault, NoVault}
  <2>1. World(p)
    BY <1>4, WorldSeen
  <2>2. out # NoFile /\ out' # out => proc[p].made /\ out.what = "partial"
    <3>1. WriteOut(p) => Exporting(proc[p])
      BY WritesItsOwn
    <3> QED
      BY <2>1, <3>1 DEF World, Began, CommandsFit, Exporting
  <2>3. Save(p) => vault.tag = vault'.parent /\ vault.version # 1
    <3>1. ASSUME Save(p)
          PROVE  vault.tag = vault'.parent /\ vault.version # 1
      <4>1. Saving(p) /\ MaySave(p) /\ vault' = Result(p)
        BY <3>1 DEF Save
      <4>2. vault'.parent = proc[p].session.tag
        BY <4>1, ResultTyped
      <4>3. IF Kind(p) = "init" THEN proc[p].session = NoVault /\ vault = NoVault
            ELSE vault = proc[p].session /\ vault.version = 2
        BY <4>1, SavedAtHead DEF CommandsFit
      <4> QED
        BY <4>2, <4>3 DEF NoVault
    <3> QED
      BY <3>1
  <2>4. vault' = vault \/ vault' = NoVault \/ Save(p)
    BY <2>1 DEF World
  <2>5. ~(NoVault.tag > clock)
    BY NoVaultTagged DEF CommandsFit, Typed
  <2> QED
    BY <1>1, <2>2, <2>3, <2>4, <2>5
<1>5. (\E p \in Processes : Start(p)) \/ AllEnded => UNCHANGED <<vault, out>>
  BY DEF Start, AllEnded, Files, vars
<1> QED
  BY <1>2, <1>3, <1>4, <1>5 DEF Next, vars

\* An output that is there is not overwritten, a commit replaces the one it was made
\* from, and a vault of version 1 is never written to.
THEOREM NothingReplacedAlways == Spec => NothingReplaced
<1> DEFINE A == /\ out # NoFile /\ out' # out => \E p \in Processes : proc[p].made /\ out.what = "partial"
                /\ vault'.tag > clock => vault.tag = vault'.parent
                /\ vault.version = 1 => vault' \in {vault, NoVault}
<1>1. CommandsFit /\ [Next]_vars => A
  BY NothingReplacedNext
<1>2. CommandsFit /\ [Next]_vars => [A]_vars
  BY <1>1
<1> QED
  BY <1>2, CommandsFitAlways, PTL DEF Spec, NothingReplaced

-----------------------------------------------------------------------------
(* What was generated *)

\* Vault v has nowhere, or has as a password, what p generates.
Fresh(v, p)  == \A i \in DOMAIN v.items, f \in Fields : v.items[i].has[f] # Generated(p)
Stored(v, p) == \E i \in DOMAIN v.items : v.items[i].has["pw"] = Generated(p)

\* What a process generates is nowhere else before its commit, and there with it.
Unspread ==
  \A p \in Processes :
    /\ proc[p].wrote.tag = 0 =>
         Fresh(vault, p) /\ \A q \in Processes : Fresh(proc[q].session, p) /\ Fresh(proc[q].read, p)
    /\ \A q \in Processes \ {p}, f \in Fields : proc[q].patch[f] # Generated(p)
    /\ proc[p].wrote.tag # 0 /\ proc[p].cmd.kind \in Patching /\ proc[p].patch.pw = Generated(p) =>
         Stored(proc[p].wrote, p)
    /\ Generated(p) \in proc[p].shown => Stored(proc[p].wrote, p)

LEMMA GeneratedApart ==
  ASSUME NEW p \in Processes
  PROVE  /\ Generated(p) \notin Users \cup Secrets \cup {Keep, Nothing, Empty}
         /\ \A q \in Processes : Generated(q) = Generated(p) => q = p
<1>1. \A q \in Processes : Generated(q) = Generated(p) => q = p
  BY DEF Generated
<1> QED
  BY <1>1, VaultsAssumption

LEMMA NoVaultFresh ==
  ASSUME NEW p
  PROVE  Fresh(NoVault, p)
BY DEF Fresh, NoVault

\* A commit of q has what q knew, and what it asked for.
LEMMA ResultFresh ==
  ASSUME CommandsFit, NEW p \in Processes, NEW q \in Processes, Save(q), Unspread,
         proc[p].wrote.tag = 0, q # p
  PROVE  Fresh(Result(q), p)
<1> DEFINE s == proc[q].session
           i == proc[q].pick
           patch == proc[q].patch
<1>1. Saving(q) /\ MaySave(q)
  BY DEF Save
<1>2. /\ proc[q].todo # <<>> /\ Kind(q) \in Changes
      /\ Kind(q) \in {"edit", "rm"} => i \in DOMAIN s.items
      /\ Kind(q) = "edit" => proc[q].read = s /\ Picked(q) \in Item
  BY <1>1, SavedAtHead
<1>3. s.items \in Seq(Item) /\ patch \in [Fields -> Values \cup {Keep}]
  BY <1>2, Here DEF Process, Vault
<1>4. Fresh(s, p) /\ \A f \in Fields : patch[f] # Generated(p)
  BY DEF Unspread
<1>5. ASSUME NEW item \in Item, \A f \in Fields : item.has[f] # Generated(p)
      PROVE  /\ \A f \in Fields : Applied(item, patch).has[f] # Generated(p)
             /\ \A f \in Fields : Deleted(item).has[f] # Generated(p)
  <2>1. \A f \in Fields : Applied(item, patch).has[f] # Generated(p)
    <3>1. Applied(item, patch).has = [f \in Fields |-> IF patch[f] = Keep THEN item.has[f] ELSE patch[f]]
      BY <1>3, AppliedItem
    <3> QED
      BY <1>4, <1>5, <3>1
  <2>2. Deleted(item).has = [f \in Fields |-> IF f = "user" THEN item.has[f] ELSE Nothing]
    BY DEF Deleted, Item
  <2>3. Nothing # Generated(p)
    BY GeneratedApart
  <2> QED
    BY <1>5, <2>1, <2>2, <2>3
<1>6. CASE Kind(q) = "init"
  <2>1. Result(q).items = <<>>
    BY <1>1, <1>6, ResultTyped
  <2> QED
    BY <2>1 DEF Fresh
<1>7. CASE Kind(q) = "add"
  <2>1. \A f \in Fields : NewItem.has[f] # Generated(p)
    BY GeneratedApart DEF NewItem
  <2>2. Applied(NewItem, patch) \in Item /\ \A f \in Fields : Applied(NewItem, patch).has[f] # Generated(p)
    BY <1>3, <1>5, <2>1, NewItemTyped, AppliedItem
  <2>3. Result(q).items = Append(s.items, Applied(NewItem, patch))
    BY <1>1, <1>7, ResultTyped
  <2> HIDE DEF s, patch
  <2>4. /\ DOMAIN Result(q).items = 1 .. Len(s.items) + 1 /\ DOMAIN s.items = 1 .. Len(s.items)
        /\ Len(s.items) \in Nat
        /\ \A j \in 1 .. Len(s.items) : Result(q).items[j] = s.items[j]
        /\ Result(q).items[Len(s.items) + 1] = Applied(NewItem, patch)
    BY <1>3, <2>2, <2>3, AppendProperties
  <2> QED
    BY <1>4, <2>2, <2>4 DEF Fresh
<1>8. CASE Kind(q) \in {"edit", "rm"}
  <2>1. PICK item \in Item : /\ Result(q).items = [s.items EXCEPT ![i] = item]
                             /\ \A f \in Fields : item.has[f] # Generated(p)
    <3>1. s.items[i] \in Item /\ \A f \in Fields : s.items[i].has[f] # Generated(p)
      BY <1>2, <1>3, <1>4, <1>8 DEF Fresh
    <3>2. CASE Kind(q) = "edit"
      <4>1. Picked(q) = s.items[i]
        BY <1>2, <3>2 DEF Picked
      <4>2. Result(q).items = [s.items EXCEPT ![i] = Applied(Picked(q), patch)]
        BY <1>1, <3>2, ResultTyped
      <4>3. Applied(s.items[i], patch) \in Item
        BY <1>3, <3>1, AppliedItem
      <4>4. \A f \in Fields : Applied(s.items[i], patch).has[f] # Generated(p)
        BY <1>5, <3>1
      <4> QED
        BY <4>1, <4>2, <4>3, <4>4
    <3>3. CASE Kind(q) = "rm"
      <4>1. Result(q).items = [s.items EXCEPT ![i] = Deleted(s.items[i])]
        BY <1>1, <3>3, ResultTyped
      <4> QED
        BY <1>5, <3>1, <4>1, DeletedItem
    <3> QED
      BY <1>8, <3>2, <3>3
  <2> QED
    BY <1>3, <1>4, <2>1 DEF Fresh
<1>9. CASE Kind(q) = "rotate"
  <2>1. Result(q).items = s.items
    BY <1>1, <1>9, ResultTyped
  <2> QED
    BY <1>4, <2>1 DEF Fresh
<1> QED
  BY <1>2, <1>6, <1>7, <1>8, <1>9 DEF Changes

\* The commit of an add or an edit has the password it generated.
LEMMA ResultStored ==
  ASSUME CommandsFit, NEW p \in Processes, Save(p), proc[p].cmd.kind \in Patching,
         proc[p].patch.pw = Generated(p)
  PROVE  Stored(Result(p), p)
<1> DEFINE s == proc[p].session
           i == proc[p].pick
           patch == proc[p].patch
<1>1. Saving(p) /\ MaySave(p)
  BY DEF Save
<1>2. /\ proc[p].todo # <<>>
      /\ Kind(p) = "edit" => i \in DOMAIN s.items /\ Picked(p) \in Item
  BY <1>1, SavedAtHead
<1>3. s.items \in Seq(Item) /\ patch \in [Fields -> Values \cup {Keep}] /\ "pw" \in Fields
  BY <1>2, Here DEF Process, Vault, Fields
<1>4. ASSUME NEW item \in Item
      PROVE  Applied(item, patch) \in Item /\ Applied(item, patch).has["pw"] = Generated(p)
  <2>1. Applied(item, patch).has = [f \in Fields |-> IF patch[f] = Keep THEN item.has[f] ELSE patch[f]]
    BY <1>3, AppliedItem
  <2>2. patch["pw"] = Generated(p) /\ Generated(p) # Keep
    BY GeneratedApart
  <2> QED
    BY <1>3, <2>1, <2>2, AppliedItem
<1>5. CASE Kind(p) = "add"
  <2>1. Result(p).items = Append(s.items, Applied(NewItem, patch))
    BY <1>1, <1>5, ResultTyped
  <2>2. Applied(NewItem, patch) \in Item /\ Applied(NewItem, patch).has["pw"] = Generated(p)
    BY <1>4, NewItemTyped
  <2> HIDE DEF s, patch
  <2>3. /\ Len(s.items) + 1 \in DOMAIN Result(p).items
        /\ Result(p).items[Len(s.items) + 1] = Applied(NewItem, patch)
    BY <1>3, <2>1, <2>2, AppendProperties
  <2> QED
    BY <2>2, <2>3 DEF Stored
<1>6. CASE Kind(p) = "edit"
  <2>1. Result(p).items = [s.items EXCEPT ![i] = Applied(Picked(p), patch)]
    BY <1>1, <1>6, ResultTyped
  <2>2. Applied(Picked(p), patch).has["pw"] = Generated(p)
    BY <1>2, <1>4, <1>6
  <2>3. i \in DOMAIN Result(p).items /\ Result(p).items[i] = Applied(Picked(p), patch)
    BY <1>2, <1>3, <1>6, <2>1
  <2> QED
    BY <2>2, <2>3 DEF Stored
<1> QED
  BY <1>5, <1>6 DEF Patching, Kind

LEMMA ShownNow ==
  ASSUME Typed, NEW p \in Processes, NEW x, Continue(p, [proc[p] EXCEPT !.shown = x])
  PROVE  proc'[p].shown = x
<1> DEFINE me == [proc[p] EXCEPT !.shown = x]
<1>1. proc[p] \in Process
  BY DEF Typed
<1>2. SameDoings(proc'[p], me)
  BY <1>1, FieldNames, Does
<1> QED
  BY <1>1, <1>2 DEF SameDoings, Process

\* Nothing that other commands print is what a process generates.
LEMMA OthersShowNone ==
  ASSUME CommandsFit, Unspread, NEW p \in Processes, Course(p),
         Deliver(p) \/ List(p) \/ PrintSnapshot(p)
  PROVE  Generated(p) \notin proc'[p].shown \ proc[p].shown
<1>1. /\ proc[p].todo # <<>> /\ Head(proc[p].todo) \in {"deliver", "list", "print"}
      /\ Deliver(p) => Head(proc[p].todo) = "deliver"
  BY DEF Deliver, List, PrintSnapshot, At
<1>2. Belongs(proc[p].cmd, Head(proc[p].todo)) /\ NotBefore(proc[p], In(proc[p].todo))
  BY <1>1, Here
<1>3. proc[p].wrote.tag = 0
  BY <1>1, <1>2 DEF Belongs, NotBefore, Opening, Changes
<1>4. Fresh(proc[p].session, p) /\ Fresh(proc[p].read, p)
  BY <1>3 DEF Unspread
<1>5. "pw" \in Fields /\ "user" \in Fields /\ "totp" \in Fields
  BY DEF Fields
<1>6. CASE Deliver(p)
  <2> DEFINE secret == Picked(p).has[IF Kind(p) = "totp" THEN "totp" ELSE "pw"]
  <2>1. Continue(p, [proc[p] EXCEPT !.shown = {secret}]) \/ End(p, proc[p], "error")
    BY <1>6 DEF Deliver
  <2>2. secret # Generated(p)
    <3>1. proc[p].cmd.kind \in Opening /\ Head(proc[p].todo) = "deliver"
      BY <1>1, <1>2, <1>6 DEF Belongs
    <3>2. proc[p].pick \in DOMAIN proc[p].read.items
      BY <1>1, <3>1, PickedItem
    <3> QED
      BY <1>4, <1>5, <3>2 DEF Fresh, Picked
  <2> HIDE DEF secret
  <2>3. CASE Continue(p, [proc[p] EXCEPT !.shown = {secret}])
    BY <2>2, <2>3, ShownNow DEF CommandsFit
  <2>4. CASE End(p, proc[p], "error")
    <3>1. SameDoings(proc'[p], proc[p])
      BY <2>4, FieldNames, Does DEF CommandsFit, Typed
    <3> QED
      BY <3>1 DEF SameDoings
  <2> QED
    BY <2>1, <2>3, <2>4
<1>7. CASE List(p)
  <2>1. proc'[p].shown = {proc[p].session.items[i].has["user"] : i \in Live(proc[p].session)}
    BY <1>7, ShownNow DEF List, CommandsFit
  <2> QED
    BY <1>4, <1>5, <2>1 DEF Fresh, Live
<1>8. CASE PrintSnapshot(p)
  <2>1. proc'[p].shown = {proc[p].read.items[i].has["pw"] : i \in Live(proc[p].read)}
    BY <1>8, ShownNow DEF PrintSnapshot, CommandsFit
  <2> QED
    BY <1>4, <1>5, <2>1 DEF Fresh, Live
<1> QED
  BY <1>6, <1>7, <1>8

LEMMA ShownIsStored ==
  ASSUME CommandsFit, Unspread, NEW p \in Processes, Step(p) \/ InputEnds(p) \/ Kill(p),
         Generated(p) \in proc'[p].shown
  PROVE  Stored(proc'[p].wrote, p)
<1>1. proc[p].todo # <<>> /\ Course(p)
  BY StageAtHead, CourseTaken DEF CommandsFit
<1>2. proc[p].shown = {}
  <2>1. In(proc[p].todo) # {} /\ NotBefore(proc[p], In(proc[p].todo))
    BY <1>1, Here
  <2> QED
    BY <2>1 DEF NotBefore
<1>3. Reveal(p)
  BY <1>1, <1>2, OthersShowNone DEF Course
<1>4. proc[p].patch.pw = Generated(p) /\ proc[p].cmd.kind \in Patching /\ Head(proc[p].todo) = "reveal"
  BY <1>3, Revealing DEF Reveal, At
<1>5. proc[p].wrote.tag # 0
  <2>1. In(proc[p].todo) \cap Writes = {}
    BY <1>1, <1>4, Here DEF MayFollow, Ends, Writes
  <2>2. After(p, proc[p], In(proc[p].todo)) /\ proc[p].code = "running"
    BY <1>1, Here
  <2> QED
    BY <1>4, <2>1, <2>2 DEF After, Patching, Changes
<1>6. ~Save(p)
  BY <1>4 DEF Save, Saving, At
<1> QED
  BY <1>1, <1>4, <1>5, <1>6 DEF Unspread, Course

LEMMA UnspreadStep ==
  ASSUME CommandsFit, Unspread, NEW r \in Processes, Step(r) \/ InputEnds(r) \/ Kill(r)
  PROVE  Unspread'
<1>1. proc[r].todo # <<>> /\ OthersStay(r) /\ Course(r) /\ World(r)
  BY StageAtHead, StageMoved, CourseTaken, WorldSeen DEF CommandsFit, Moved
<1>2. Save(r) => Result(r).tag # 0
  <2>1. ASSUME Save(r)
        PROVE  Result(r).tag # 0
    <3>1. Result(r).tag = clock + 1 /\ clock \in Nat
      BY <2>1, ResultTyped DEF Save, CommandsFit, Typed
    <3> QED
      BY <3>1
  <2> QED
    BY <2>1
<1>3. ASSUME NEW p \in Processes, proc'[p].wrote.tag = 0
      PROVE  /\ Fresh(vault', p)
             /\ \A q \in Processes : Fresh(proc'[q].session, p) /\ Fresh(proc'[q].read, p)
  <2>1. proc[p].wrote.tag = 0 /\ (Save(r) => r # p)
    <3>1. CASE p = r
      BY <1>1, <1>2, <1>3, <3>1, WroteResult DEF Course, CommandsFit
    <3>2. CASE p # r
      BY <1>1, <1>3, <3>2 DEF OthersStay
    <3> QED
      BY <3>1, <3>2
  <2>2. Fresh(vault, p) /\ \A q \in Processes : Fresh(proc[q].session, p) /\ Fresh(proc[q].read, p)
    BY <2>1 DEF Unspread
  <2>3. vault' = vault \/ vault' = NoVault \/ (Save(r) /\ vault' = Result(r))
    BY <1>1 DEF World, Save
  <2>4. Save(r) => Fresh(Result(r), p)
    BY <2>1, ResultFresh
  <2>5. Fresh(vault', p)
    BY <2>2, <2>3, <2>4, NoVaultFresh
  <2> QED
    BY <1>1, <2>2, <2>5 DEF OthersStay, Course
<1>4. ASSUME NEW p \in Processes, NEW q \in Processes \ {p}, NEW f \in Fields
      PROVE  proc'[q].patch[f] # Generated(p)
  <2>1. proc[q].patch[f] # Generated(p)
    BY DEF Unspread
  <2>2. CASE q = r
    BY <1>1, <2>1, <2>2, GeneratedApart DEF Course
  <2>3. CASE q # r
    BY <1>1, <2>1, <2>3 DEF OthersStay
  <2> QED
    BY <2>2, <2>3
<1>5. ASSUME NEW p \in Processes, proc'[p].wrote.tag # 0, proc'[p].cmd.kind \in Patching,
             proc'[p].patch.pw = Generated(p)
      PROVE  Stored(proc'[p].wrote, p)
  <2>1. CASE p # r
    BY <1>1, <1>5, <2>1 DEF OthersStay, Unspread
  <2>2. CASE p = r /\ Save(r)
    <3>1. proc'[p].patch = proc[p].patch
      BY <1>1, <2>2 DEF Course, Save, Saving, At, Prompts
    <3>2. Stored(Result(p), p)
      BY <1>1, <1>5, <2>2, <3>1, ResultStored DEF Course
    <3>3. proc'[p].wrote = Result(p)
      BY <2>2, WroteResult DEF CommandsFit
    <3> QED
      BY <3>2, <3>3
  <2>3. CASE p = r /\ ~Save(r)
    <3>1. proc'[p].wrote = proc[p].wrote /\ proc'[p].cmd = proc[p].cmd
      BY <1>1, <2>3 DEF Course
    <3>2. proc'[p].patch = proc[p].patch
      <4>1. Head(proc[p].todo) \in In(proc[p].todo) /\ NotBefore(proc[p], In(proc[p].todo))
        BY <1>1, <2>3, Here
      <4>2. Head(proc[p].todo) \notin Prompts
        BY <1>5, <3>1, <4>1 DEF NotBefore, Prompts
      <4> QED
        BY <1>1, <2>3, <4>2 DEF Course
    <3> QED
      BY <1>5, <3>1, <3>2 DEF Unspread
  <2> QED
    BY <2>1, <2>2, <2>3
<1>6. ASSUME NEW p \in Processes, Generated(p) \in proc'[p].shown
      PROVE  Stored(proc'[p].wrote, p)
  <2>1. CASE p = r
    BY <1>6, <2>1, ShownIsStored
  <2>2. CASE p # r
    BY <1>1, <1>6, <2>2 DEF OthersStay, Unspread
  <2> QED
    BY <2>1, <2>2
<1> QED
  BY <1>3, <1>4, <1>5, <1>6 DEF Unspread, Fresh

LEMMA UnspreadInductive ==
  ASSUME CommandsFit, Unspread, [Next]_vars
  PROVE  Unspread'
<1>1. CASE UNCHANGED <<vault, proc>>
  BY <1>1 DEF Unspread, Fresh, Stored
<1>2. ASSUME NEW r \in Processes, Start(r)
      PROVE  Unspread'
  <2>1. /\ \A q \in Processes \ {r} : proc'[q] = proc[q]
        /\ proc'[r].session = NoVault /\ proc'[r].read = NoVault /\ proc'[r].wrote = NoVault
        /\ proc'[r].shown = {}
        /\ \A f \in Fields : proc'[r].patch[f] \in Users \cup Secrets \cup {Keep, Empty}
        /\ vault' = vault /\ proc[r] = Idle
    BY <1>2, StartMoves DEF OthersStay, Start, Files
  <2>2. ASSUME NEW p \in Processes, proc'[p].wrote.tag = 0
        PROVE  /\ Fresh(vault', p)
               /\ \A q \in Processes : Fresh(proc'[q].session, p) /\ Fresh(proc'[q].read, p)
    <3>1. proc[p].wrote.tag = 0
      BY <2>1, <2>2, IdleTyped, NoVaultTagged
    <3> QED
      BY <2>1, <3>1, NoVaultFresh DEF Unspread
  <2>3. \A p \in Processes : \A q \in Processes \ {p}, f \in Fields : proc'[q].patch[f] # Generated(p)
    BY <2>1, GeneratedApart DEF Unspread
  <2>4. ASSUME NEW p \in Processes,
               \/ proc'[p].wrote.tag # 0 /\ proc'[p].cmd.kind \in Patching /\ proc'[p].patch.pw = Generated(p)
               \/ Generated(p) \in proc'[p].shown
        PROVE  Stored(proc'[p].wrote, p)
    BY <2>1, <2>4, NoVaultTagged DEF Unspread
  <2> QED
    BY <2>2, <2>3, <2>4 DEF Unspread, Fresh, Stored
<1>3. CASE ForeignFile \/ AllEnded
  BY <1>1, <1>3 DEF ForeignFile, AllEnded, vars
<1> QED
  BY <1>1, <1>2, <1>3, UnspreadStep DEF Next, vars

LEMMA UnspreadInit ==
  ASSUME Init
  PROVE  Unspread
<1>1. \A p \in Processes : Fresh(vault, p)
  BY VaultsAssumption DEF Init, Fresh
<1>2. \A p \in Processes : proc[p] = Idle
  BY DEF Init
<1>3. \A p \in Processes, f \in Fields : NoPatch[f] # Generated(p)
  BY GeneratedApart DEF NoPatch
<1> QED
  BY <1>1, <1>2, <1>3, IdleTyped, NoVaultFresh, NoVaultTagged DEF Unspread

\* A generated password that was printed is in the commit of the command.
THEOREM RevealedIsStoredAlways == Spec => []RevealedIsStored
<1>1. Init => Unspread
  BY UnspreadInit
<1>2. CommandsFit /\ Unspread /\ [Next]_vars => Unspread'
  BY UnspreadInductive
<1>3. Unspread => RevealedIsStored
  BY DEF Unspread, Stored, RevealedIsStored
<1> QED
  BY <1>1, <1>2, <1>3, CommandsFitAlways, PTL DEF Spec
=============================================================================
