----------------------------- MODULE MCCommands -----------------------------
(* Two commands on one vault: one of any kind beside one that writes. *)
EXTENDS Commands

CONSTANTS one, other, t1, t2, u1, u2, s1, bin, m1, m2, w

Cmd(kind, opts) == [kind |-> kind, opts |-> opts]

RunsOfOne ==
  {Cmd("init", {}), Cmd("list", {}), Cmd("check", {}), Cmd("backup", {}), Cmd("rm", {}),
   Cmd("rotate", {"new_password"}), Cmd("get", {"reveal"}), Cmd("copy", {"id"}), Cmd("totp", {"id"}),
   Cmd("add", {"generate", "reveal"}), Cmd("add", {"username", "notes", "totp"}),
   Cmd("edit", {"id", "username"}), Cmd("edit", {"id", "username", "bare_notes"}),
   Cmd("edit", {"generate", "reveal"}),
   Cmd("migrate", {}), Cmd("migrate", {"same"}), Cmd("export", {"json", "file"}),
   Cmd("export", {"yes", "file"}), Cmd("export", {"json", "yes"}),
   Cmd("export", {"json", "yes", "file"}), Cmd("export", {"json", "yes", "stdout"})}

RunsOfOther ==
  {Cmd("init", {"force"}), Cmd("rm", {"id", "purge"}),
   Cmd("edit", {"id", "username", "generate"})}

TheRuns == [p \in {one, other} |-> IF p = one THEN RunsOfOne ELSE RunsOfOther]

Its(title, user, pw, rest) ==
  [live |-> TRUE, title |-> title, has |-> [user |-> user, pw |-> pw, notes |-> rest, totp |-> rest]]

OfItems(items) == [NoVault EXCEPT !.tag = 1, !.master = CHOOSE m \in Masters : TRUE, !.items = items]
Legacy(v, sound) == [v EXCEPT !.version = 1, !.sound = sound]

TheVaults ==
  LET twins == OfItems(<<Its(t1, u1, s1, s1), Its(t1, u2, Nothing, Nothing)>>)
      pair  == OfItems(<<Its(t1, u1, bin, Nothing), Its(t2, u1, s1, s1)>>)
  IN  {NoVault, twins, pair, Legacy(pair, TRUE), Legacy(pair, FALSE)}
=============================================================================
