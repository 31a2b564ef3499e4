SPECIFICATION Spec
CONSTANTS
  A = a
  B = b
  Call = {a, b}
  NoCall = nocall
  Text = {t, r}
  RxText = {r}
  Given = {"connect", "disconnect", "send", "rx"}
  MaxCommands = 4
  MaxFaults = 1
  MayQuit = FALSE
INVARIANTS LogIsShown OnlyCrossingSplits
PROPERTIES KeepsTalk
