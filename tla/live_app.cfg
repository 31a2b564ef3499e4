SPECIFICATION FairSpec
CONSTANTS
  A = a
  B = b
  Call = {a, b, c}
  NoCall = nocall
  Text = {t}
  RxText = {}
  Given = {"connect", "announce", "refused"}
  MaxCommands = 2
  MaxFaults = 1
  MayQuit = TRUE
INVARIANTS TypeOK FramesInOrder ObservedWasPosted
PROPERTIES AnnouncedArrives
CHECK_DEADLOCK FALSE
