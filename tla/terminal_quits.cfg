SPECIFICATION FairSpec
CONSTANTS
  Owner = a
  Call = {a, b}
  NoCall = nocall
  t = t
  at = at
  Text = {t, at}
  RxText = {}
  Ack <- MCAck
  Given = {"setup", "start"}
  MaxCommands = 2
  MaxFaults = 0
PROPERTIES QuitEnds
CHECK_DEADLOCK FALSE
