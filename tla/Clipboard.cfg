\* Two processes with a copy each, on both backends; a user text and two secrets.
SPECIFICATION Spec
CONSTANTS
  Processes = {p1, p2}
  Secrets = {s1, s2}
  UserTexts = {u}
  NoText = NoText
  Platforms = {"windows", "tools"}
  MaxCopies = 1
INVARIANTS TypeOK NothingLeftBehind UserTextBack
PROPERTIES SuccessMeansGone EveryCopyReturns
