\* Two copies that overlap on Windows.
SPECIFICATION Spec
CONSTANTS
  Processes = {p1, p2}
  Secrets = {s1, s2}
  UserTexts = {u}
  NoText = NoText
  Platforms = {"windows"}
  MaxCopies = 1
INVARIANTS NoSecretRestored
