SPECIFICATION Spec
CONSTANTS
  Owner = a
  Call = {a, b}
  NoCall = nocall
  t = t
  at = at
  Text = {t, at, r}
  RxText = {r}
  Ack <- MCAck
  Given = {"setup", "start", "connect", "send", "rx", "post", "save"}
  MaxCommands = 5
  MaxFaults = 1
INVARIANTS TypeOK OneStation PacketsTellTheLog ReportComesLast
PROPERTIES SwitchIsWhole
CHECK_DEADLOCK FALSE
